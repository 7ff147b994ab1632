-------------------------- MODULE RemediationProofs --------------------------
(***************************************************************************)
(* The remediation of a finding, for any number of attempts, of claim      *)
(* tokens, of callers at work at once and of contents of the checkout.     *)
(***************************************************************************)
EXTENDS Remediation, SequenceTheorems, TLAPS

\* What may be recorded as applied, and whether the checkout was edited between
\* the readings, for a base.
IsPatched(applied, torn, base) ==
  applied # base /\ (~torn => applied = Apply[base])

\* What one row says by itself.
RowHolds(r) ==
  /\ r.token # None => r.pending # None
  /\ r.state = "requested" <=> r.version = 1
  /\ r.state = "requested" => r.pending = "generate"
  /\ r.state \in {"requested", "generated"} \/ r.pending \in {"generate", "apply"}
       => r.applied = None
  /\ r.state \in {"applied", "verifying", "verified"} \/ r.pending = "verify"
       => r.applied # None
  /\ r.applied # None => IsPatched(r.applied, r.torn, r.base)

IsLive(r) ==
  r.state \in {"requested", "generated", "applied", "verifying"} \/ r.pending # None

\* The rows are in order, each once.
OrderHolds ==
  /\ order \in Seq(Requests)
  /\ \A q \in Requests : Exists(q) <=> \E i \in 1..Len(order) : order[i] = q
  /\ \A i, j \in 1..Len(order) : order[i] = order[j] => i = j

RowsHold ==
  \A q \in Requests : Exists(q) =>
    /\ RowHolds(attempt[q])
    /\ IsLive(attempt[q]) => q = Latest
    /\ closed /\ attempt[q].pending # None => attempt[q].state = "failed"

\* What a call has read of a row: a row it saw past its first version is there
\* and did not go back; one that has not moved is as the call saw it.
SawAction(c) ==
  /\ c.saw.version \in Nat /\ c.saw.version > 1
  /\ Exists(c.q) /\ c.saw.version <= attempt[c.q].version
  /\ c.saw.version = attempt[c.q].version => attempt[c.q].state = ActionFrom[c.op]

SawSet(c) ==
  /\ c.saw.version \in Nat \ {0} /\ c.saw.applied \in Contents \cup {None}
  /\ c.saw.torn \in BOOLEAN
  /\ c.saw.version = 1 => c.op \in {"generated", "failed"} /\ c.saw.applied = None
  /\ c.saw.version > 1 => Exists(c.q) /\ c.saw.version <= attempt[c.q].version
  /\ Exists(c.q) /\ c.saw.version = attempt[c.q].version /\ attempt[c.q].pending # None =>
       /\ c.op \in Transitions[attempt[c.q].state]
       /\ c.op \in RecordedBy[attempt[c.q].pending]
       /\ IF c.op = "applied" THEN c.saw.applied # None
          ELSE c.saw.applied = attempt[c.q].applied
       /\ c.saw.applied # None => IsPatched(c.saw.applied, c.saw.torn, attempt[c.q].base)

\* A call that has taken the digest and not yet the copy: unless it missed an
\* edit, the digest is of what the checkout contains.
SawDigest(c) ==
  /\ c = [op |-> "digest", q |-> c.q, token |-> c.token, saw |-> c.saw]
  /\ c.saw = [version |-> c.saw.version, base |-> c.saw.base,
              applied |-> c.saw.applied, torn |-> c.saw.torn]
  /\ c.saw.version \in Nat /\ c.saw.version > 1 /\ c.saw.torn \in BOOLEAN
  /\ c.saw.applied \in Contents /\ c.saw.applied # c.saw.base
  /\ ~c.saw.torn => c.saw.applied = content
  /\ Exists(c.q) /\ c.saw.version <= attempt[c.q].version
  /\ c.saw.version = attempt[c.q].version /\ attempt[c.q].pending # None =>
       /\ "applied" \in Transitions[attempt[c.q].state]
       /\ "applied" \in RecordedBy[attempt[c.q].pending]
       /\ c.saw.base = attempt[c.q].base

SetStates == {"generated", "applied", "verifying", "verified", "failed"}

CallHolds(c) ==
  /\ c.q \in Requests /\ c.token \in Tokens
  /\ \/ c.op = "request" /\ c.saw.base \in Contents
     \/ c.op \in {"apply", "verify"} /\ SawAction(c)
     \/ c.op \in SetStates /\ SawSet(c)
     \/ c.op = "digest" /\ SawDigest(c)

CallsHold == \A p \in Callers : call[p] # None => CallHolds(call[p])

\* The inductive invariant.
RemediationInv ==
  /\ TypeOK
  /\ DOMAIN call = Callers
  /\ OrderHolds
  /\ RowsHold
  /\ CallsHold

-----------------------------------------------------------------------------

LEMMA InitRemediation == Init => RemediationInv
<1> SUFFICES ASSUME Init PROVE RemediationInv
  OBVIOUS
<1>1. order \in Seq(Requests) /\ Len(order) = 0
  BY DEF Init
<1>2. \A q \in Requests : ~Exists(q)
  BY DEF Init, Exists
<1>3. TypeOK /\ DOMAIN call = Callers /\ CallsHold
  BY <1>1 DEF Init, TypeOK, CallsHold
<1>4. OrderHolds /\ RowsHold
  BY <1>1, <1>2 DEF OrderHolds, RowsHold
<1> QED BY <1>3, <1>4 DEF RemediationInv

\* A row that is there is a row.
LEMMA RowsAre ==
  ASSUME RemediationInv, NEW q \in Requests, Exists(q)
  PROVE  attempt[q] \in Row /\ RowHolds(attempt[q])
BY DEF RemediationInv, TypeOK, RowsHold, Exists

\* A row that moves on: its version grows, or it is the same but for its claim,
\* and has perhaps lost its action.
Follows(r, row) ==
  /\ r.base = row.base
  /\ r.version >= row.version
  /\ r.version = row.version =>
       /\ r.state = row.state /\ r.applied = row.applied
       /\ r.pending \in {row.pending, None}

\* What a call has seen stays true when the rows it saw move on.
LEMMA CallFollows ==
  ASSUME NEW c, CallHolds(c),
         Exists(c.q) =>
           /\ Exists(c.q)' /\ attempt[c.q] \in Row /\ attempt'[c.q] \in Row
           /\ Follows(attempt'[c.q], attempt[c.q]),
         c.op \in SetStates => (Exists(c.q)' => Exists(c.q)), UNCHANGED content
  PROVE  CallHolds(c)'
<1>1. c.q \in Requests /\ c.token \in Tokens
  BY DEF CallHolds
<1>2. CASE c.op = "request"
  BY <1>1, <1>2 DEF CallHolds, SetStates
<1>3. CASE c.op \in {"apply", "verify"} /\ SawAction(c)
  <2>1. /\ attempt[c.q].version \in Nat /\ attempt'[c.q].version \in Nat
        /\ Follows(attempt'[c.q], attempt[c.q]) /\ Exists(c.q)'
    BY <1>1, <1>3, VersionAssumption DEF SawAction, Row
  <2>2. SawAction(c)'
    BY <1>3, <2>1 DEF SawAction, Follows
  <2> QED BY <1>1, <1>3, <2>2 DEF CallHolds
<1>4. CASE c.op \in SetStates /\ SawSet(c)
  <2>1. CASE ~Exists(c.q)'
    BY <1>1, <1>4, <2>1 DEF SawSet, CallHolds
  <2>2. CASE Exists(c.q)'
    <3>1. /\ attempt[c.q].version \in Nat \ {0} /\ attempt'[c.q].version \in Nat
          /\ Follows(attempt'[c.q], attempt[c.q]) /\ Exists(c.q)
      BY <1>1, <1>4, <2>2, VersionAssumption DEF Row
    <3>2. /\ c.saw.version \in Nat \ {0} /\ c.saw.applied \in Contents \cup {None}
          /\ c.saw.torn \in BOOLEAN
          /\ c.saw.version = 1 => c.op \in {"generated", "failed"} /\ c.saw.applied = None
          /\ c.saw.version > 1 => c.saw.version <= attempt[c.q].version
      BY <1>4 DEF SawSet
    <3>3. attempt'[c.q].version >= attempt[c.q].version
      BY <3>1 DEF Follows
    <3>4. c.saw.version > 1 => c.saw.version <= attempt'[c.q].version
      BY <3>1, <3>2, <3>3
    <3>5. ASSUME c.saw.version = attempt'[c.q].version, attempt'[c.q].pending # None
          PROVE  /\ c.op \in Transitions[attempt'[c.q].state]
                 /\ c.op \in RecordedBy[attempt'[c.q].pending]
                 /\ IF c.op = "applied" THEN c.saw.applied # None
                    ELSE c.saw.applied = attempt'[c.q].applied
                 /\ c.saw.applied # None =>
                      IsPatched(c.saw.applied, c.saw.torn, attempt'[c.q].base)
      <4>1. c.saw.version = attempt[c.q].version
        BY <3>1, <3>2, <3>3, <3>5
      <4>2. /\ attempt'[c.q].state = attempt[c.q].state
            /\ attempt'[c.q].applied = attempt[c.q].applied
            /\ attempt'[c.q].pending = attempt[c.q].pending
            /\ attempt'[c.q].base = attempt[c.q].base
        BY <3>1, <3>5, <4>1 DEF Follows
      <4> QED BY <1>4, <3>1, <3>5, <4>1, <4>2 DEF SawSet
    <3>6. SawSet(c)'
      BY <2>2, <3>2, <3>4, <3>5 DEF SawSet, IsPatched
    <3> QED BY <1>1, <1>4, <3>6 DEF CallHolds
  <2> QED BY <2>1, <2>2
<1>5. CASE c.op = "digest" /\ SawDigest(c)
  <2>1. /\ attempt[c.q].version \in Nat /\ attempt'[c.q].version \in Nat
        /\ Follows(attempt'[c.q], attempt[c.q]) /\ Exists(c.q)'
    BY <1>1, <1>5, VersionAssumption DEF SawDigest, Row
  <2>2. /\ c.saw.version <= attempt'[c.q].version
        /\ c.saw.version = attempt'[c.q].version => c.saw.version = attempt[c.q].version
    BY <1>5, <2>1 DEF SawDigest, Follows
  <2>3. SawDigest(c)'
    BY <1>5, <2>1, <2>2 DEF SawDigest, Follows
  <2> QED BY <1>1, <1>5, <2>3 DEF CallHolds
<1> QED BY <1>2, <1>3, <1>4, <1>5 DEF CallHolds

\* The calls that are still there after a step.
LEMMA CallsFollow ==
  ASSUME RemediationInv, DOMAIN call' = Callers,
         \A p \in Callers : call'[p] \in {call[p], None},
         \A q \in Requests : Exists(q) =>
           /\ Exists(q)' /\ attempt'[q] \in Row /\ Follows(attempt'[q], attempt[q]),
         \A p \in Callers : call'[p] # None /\ call[p].op \in SetStates =>
           (Exists(call[p].q)' => Exists(call[p].q)),
         UNCHANGED content
  PROVE  CallsHold'
<1> SUFFICES ASSUME NEW p \in Callers, call'[p] # None PROVE CallHolds(call[p])'
  BY DEF CallsHold
<1>1. PICK c : c = call[p]
  OBVIOUS
<1>2. call'[p] = c /\ CallHolds(c)
  BY <1>1 DEF RemediationInv, CallsHold
<1>3. CallHolds(c)'
  <2>1. c.q \in Requests /\ (Exists(c.q) => attempt[c.q] \in Row)
    BY <1>2, RowsAre DEF CallHolds
  <2>2. c.op \in SetStates => (Exists(c.q)' => Exists(c.q))
    BY <1>1
  <2> QED BY <1>2, <2>1, <2>2, CallFollows
<1> QED BY <1>2, <1>3

\* A step in which one row moves on.
LEMMA RowMoves ==
  ASSUME RemediationInv, NEW q \in Requests, Exists(q), NEW r \in Row,
         RowHolds(r), Follows(r, attempt[q]), IsLive(r) => IsLive(attempt[q]),
         closed /\ r.pending # None => r.state = "failed",
         attempt' = [attempt EXCEPT ![q] = r], UNCHANGED <<order, closed, content>>,
         DOMAIN call' = Callers, \A p \in Callers : call'[p] \in {call[p], None}
  PROVE  RemediationInv'
<1>1. r # None
  BY RowAssumption
<1>2. attempt'[q] = r /\ \A t \in Requests \ {q} : attempt'[t] = attempt[t]
  BY DEF RemediationInv, TypeOK
<1>3. \A t \in Requests : Exists(t)' <=> Exists(t)
  BY <1>1, <1>2 DEF Exists
<1>4. TypeOK'
  BY DEF RemediationInv, TypeOK
<1>5. OrderHolds' /\ Latest' = Latest
  BY <1>3 DEF RemediationInv, OrderHolds, Latest
<1>6. RowsHold'
  <2> SUFFICES ASSUME NEW t \in Requests, Exists(t)
               PROVE  /\ RowHolds(attempt'[t]) /\ (IsLive(attempt'[t]) => t = Latest)
                      /\ closed /\ attempt'[t].pending # None => attempt'[t].state = "failed"
    BY <1>3, <1>5 DEF RowsHold
  <2>1. /\ RowHolds(attempt[t]) /\ (IsLive(attempt[t]) => t = Latest)
        /\ closed /\ attempt[t].pending # None => attempt[t].state = "failed"
    BY DEF RemediationInv, RowsHold
  <2>2. CASE t = q
    BY <1>2, <2>1, <2>2
  <2>3. CASE t # q
    BY <1>2, <2>1, <2>3
  <2> QED BY <2>2, <2>3
<1>7. CallsHold'
  <2>1. \A t \in Requests : Exists(t) => attempt[t] \in Row
    BY RowsAre
  <2>2. \A t \in Requests : Exists(t) =>
          /\ Exists(t)' /\ attempt'[t] \in Row /\ Follows(attempt'[t], attempt[t])
    <3> SUFFICES ASSUME NEW t \in Requests, Exists(t)
                 PROVE  attempt'[t] \in Row /\ Follows(attempt'[t], attempt[t])
      BY <1>3
    <3>1. CASE t = q
      BY <1>2, <3>1
    <3>2. CASE t # q
      BY <1>2, <2>1, <3>2, VersionAssumption DEF Row, Follows
    <3> QED BY <3>1, <3>2
  <2>3. \A p \in Callers : call'[p] # None /\ call[p].op \in SetStates =>
          (Exists(call[p].q)' => Exists(call[p].q))
    <3> SUFFICES ASSUME NEW p \in Callers, call'[p] # None
                 PROVE  Exists(call[p].q)' => Exists(call[p].q)
      OBVIOUS
    <3>1. call[p].q \in Requests
      BY DEF RemediationInv, CallsHold, CallHolds
    <3> QED BY <1>3, <3>1
  <2> QED BY <2>2, <2>3, CallsFollow
<1> QED BY <1>4, <1>5, <1>6, <1>7 DEF RemediationInv

\* A step that only takes the calls further.
LEMMA OnlyCalls ==
  ASSUME RemediationInv, UNCHANGED <<attempt, order, closed, content>>,
         NEW p \in Callers, NEW c, call' = [call EXCEPT ![p] = c], c # None => CallHolds(c)
  PROVE  RemediationInv'
<1>1. DOMAIN call' = Callers
  BY DEF RemediationInv
<1>2. TypeOK' /\ OrderHolds' /\ RowsHold'
  BY DEF RemediationInv, TypeOK, OrderHolds, RowsHold, Exists, Latest
<1>3. \A t : CallHolds(t) => CallHolds(t)'
  BY DEF CallHolds, SawAction, SawSet, SawDigest, IsPatched, Exists
<1>4. CallsHold'
  <2> SUFFICES ASSUME NEW o \in Callers, call'[o] # None PROVE CallHolds(call[o])'
    BY DEF CallsHold
  <2>1. PICK t : t = call'[o]
    OBVIOUS
  <2>2. CallHolds(t)
    BY <2>1 DEF RemediationInv, CallsHold
  <2>3. CallHolds(t)'
    BY <1>3, <2>2
  <2> QED BY <2>1, <2>3
<1> QED BY <1>1, <1>2, <1>4 DEF RemediationInv

-----------------------------------------------------------------------------
(* The calls that inspect *)

LEMMA ReadRequestKeeps ==
  ASSUME RemediationInv, NEW p \in Callers, NEW q \in Requests, NEW t \in Tokens,
         ReadRequest(p, q, t)
  PROVE  RemediationInv'
<1>1. PICK c : c = [op |-> "request", q |-> q, token |-> t, saw |-> [base |-> content]]
  OBVIOUS
<1>2. content \in Contents
  BY DEF RemediationInv, TypeOK
<1>3. CallHolds(c)
  BY <1>1, <1>2 DEF CallHolds
<1>4. call' = [call EXCEPT ![p] = c] /\ UNCHANGED <<attempt, order, closed, content>>
  BY <1>1 DEF ReadRequest, Reads
<1> QED BY <1>3, <1>4, OnlyCalls

LEMMA ReadActionKeeps ==
  ASSUME RemediationInv, NEW p \in Callers, NEW q \in Requests, NEW t \in Tokens,
         NEW action \in {"apply", "verify"}, ReadAction(p, q, t, action)
  PROVE  RemediationInv'
<1>1. PICK c : c = [op |-> action, q |-> q, token |-> t, saw |-> [version |-> attempt[q].version]]
  OBVIOUS
<1>2. Exists(q) /\ attempt[q].state = ActionFrom[action]
  BY DEF ReadAction
<1>3. attempt[q].version \in Nat \ {0} /\ RowHolds(attempt[q])
  BY <1>2, RowsAre, VersionAssumption DEF Row
<1>4. attempt[q].version > 1
  <2>1. attempt[q].state # "requested"
    BY <1>2 DEF ActionFrom
  <2> QED BY <1>3, <2>1 DEF RowHolds
<1>5. CallHolds(c)
  BY <1>1, <1>2, <1>3, <1>4 DEF CallHolds, SawAction
<1>6. call' = [call EXCEPT ![p] = c] /\ UNCHANGED <<attempt, order, closed, content>>
  BY <1>1 DEF ReadAction, Reads
<1> QED BY <1>5, <1>6, OnlyCalls

LEMMA ReadSetKeeps ==
  ASSUME RemediationInv, NEW p \in Callers, NEW q \in Requests, NEW t \in Tokens,
         NEW to \in SetStates \ {"applied"}, ReadSet(p, q, t, to)
  PROVE  RemediationInv'
<1> DEFINE row == attempt[q]
<1>1. PICK c : c = [op |-> to, q |-> q, token |-> t,
                    saw |-> [version |-> row.version, applied |-> row.applied,
                             torn |-> row.torn]]
  OBVIOUS
<1>2. /\ Exists(q) /\ row.token = t /\ to \in Transitions[row.state]
      /\ to \in RecordedBy[row.pending]
  BY DEF ReadSet, MayRecord
<1>3. row \in Row /\ RowHolds(row)
  BY <1>2, RowsAre
<1>4. /\ row.version \in Nat \ {0} /\ row.applied \in Contents \cup {None}
      /\ row.torn \in BOOLEAN
      /\ row.applied # None => IsPatched(row.applied, row.torn, row.base)
  BY <1>3, VersionAssumption DEF Row, RowHolds
<1>5. row.version = 1 => to \in {"generated", "failed"} /\ row.applied = None
  BY <1>2, <1>3 DEF RowHolds, Transitions, RecordedBy
<1> HIDE DEF row
<1>6. row = attempt[q]
  BY DEF row
<1>7. SawSet(c)
  BY <1>1, <1>2, <1>4, <1>5, <1>6 DEF SawSet
<1>8. CallHolds(c)
  BY <1>1, <1>7 DEF CallHolds
<1>9. call' = [call EXCEPT ![p] = c] /\ UNCHANGED <<attempt, order, closed, content>>
  BY <1>1, <1>6 DEF ReadSet, Reads
<1> QED BY <1>8, <1>9, OnlyCalls

LEMMA ReadDigestKeeps ==
  ASSUME RemediationInv, NEW p \in Callers, NEW q \in Requests, NEW t \in Tokens,
         ReadDigest(p, q, t)
  PROVE  RemediationInv'
<1> DEFINE row == attempt[q]
<1>1. PICK c : c = [op |-> "digest", q |-> q, token |-> t,
                    saw |-> [version |-> row.version, base |-> row.base,
                             applied |-> content, torn |-> FALSE]]
  OBVIOUS
<1>2. /\ Exists(q) /\ "applied" \in Transitions[row.state]
      /\ "applied" \in RecordedBy[row.pending] /\ content # row.base
  BY DEF ReadDigest, MayRecord
<1>3. row \in Row /\ RowHolds(row) /\ content \in Contents
  BY <1>2, RowsAre DEF RemediationInv, TypeOK
<1>4. row.version \in Nat /\ row.version > 1
  <2>1. row.state # "requested"
    BY <1>2 DEF Transitions
  <2> QED BY <1>3, <2>1, VersionAssumption DEF Row, RowHolds
<1> HIDE DEF row
<1>5. row = attempt[q]
  BY DEF row
<1>6. SawDigest(c)
  <2>1. /\ c.op = "digest" /\ c.q = q /\ c.token = t
        /\ c.saw = [version |-> row.version, base |-> row.base, applied |-> content,
                    torn |-> FALSE]
        /\ c.saw.version = row.version /\ c.saw.base = row.base
        /\ c.saw.applied = content /\ c.saw.torn = FALSE
    BY <1>1
  <2>2. /\ c = [op |-> "digest", q |-> c.q, token |-> c.token, saw |-> c.saw]
        /\ c.saw = [version |-> c.saw.version, base |-> c.saw.base,
                    applied |-> c.saw.applied, torn |-> c.saw.torn]
    BY <1>1, <2>1, Zenon
  <2> QED BY <1>2, <1>3, <1>4, <1>5, <2>1, <2>2 DEF SawDigest
<1>7. CallHolds(c)
  BY <1>1, <1>6 DEF CallHolds
<1>8. call' = [call EXCEPT ![p] = c] /\ UNCHANGED <<attempt, order, closed, content>>
  BY <1>1, <1>5 DEF ReadDigest, Reads
<1> QED BY <1>7, <1>8, OnlyCalls

\* What the copy shows of the digest taken before it.
LEMMA CopyCheckoutKeeps ==
  ASSUME RemediationInv, NEW p \in Callers, CopyCheckout(p)
  PROVE  RemediationInv'
<1>1. PICK c : c = call[p]
  OBVIOUS
<1>2. /\ c # None /\ c.op = "digest" /\ content = Apply[c.saw.base]
      /\ call' = [call EXCEPT ![p] = [c EXCEPT !.op = "applied"]]
      /\ UNCHANGED <<attempt, order, closed, content>>
  BY <1>1 DEF CopyCheckout
<1>3. SawDigest(c) /\ c.q \in Requests /\ c.token \in Tokens
  BY <1>1, <1>2 DEF RemediationInv, CallsHold, CallHolds, SetStates
<1>4. PICK d : d = [op |-> "applied", q |-> c.q, token |-> c.token, saw |-> c.saw]
  OBVIOUS
<1>5. [c EXCEPT !.op = "applied"] = d
  <2>1. c = [op |-> "digest", q |-> c.q, token |-> c.token, saw |-> c.saw]
    BY <1>3 DEF SawDigest
  <2> QED BY <1>4, <2>1
<1>6. /\ d.op = "applied" /\ d.q = c.q /\ d.token = c.token /\ d.saw = c.saw
  BY <1>4
<1>7. c.saw.applied # None /\ IsPatched(c.saw.applied, c.saw.torn, c.saw.base)
  BY <1>2, <1>3, NoneAssumption DEF SawDigest, IsPatched
<1>8. SawSet(d)
  BY <1>3, <1>6, <1>7 DEF SawSet, SawDigest
<1>9. CallHolds(d)
  BY <1>3, <1>6, <1>8 DEF CallHolds, SetStates
<1>10. call' = [call EXCEPT ![p] = d]
  BY <1>2, <1>5
<1> QED BY <1>2, <1>9, <1>10, OnlyCalls

-----------------------------------------------------------------------------
(* The calls that commit to a row *)

LEMMA ActionRow ==
  ASSUME NEW row \in Row, NEW op, NEW t
  PROVE  Claimed(Bumped([row EXCEPT !.pending = op]), t) =
           [state |-> row.state, version |-> row.version + 1, base |-> row.base,
            applied |-> row.applied, pending |-> op, token |-> t, stale |-> FALSE,
            torn |-> row.torn]
<1> DEFINE x == [row EXCEPT !.pending = op]
           y == [row EXCEPT !.pending = op, !.version = row.version + 1]
<1>1. x.version = row.version /\ Bumped(x) = y
  BY DEF Bumped, Row
<1>2. Claimed(y, t) = [row EXCEPT !.pending = op, !.version = row.version + 1,
                                  !.token = t, !.stale = FALSE]
  BY DEF Claimed, Row
<1> QED BY <1>1, <1>2 DEF Row

LEMMA CommitActionKeeps ==
  ASSUME RemediationInv, NEW p \in Callers, CommitAction(p)
  PROVE  RemediationInv'
<1> DEFINE q == call[p].q
           row == attempt[q]
           r == [state |-> row.state, version |-> row.version + 1, base |-> row.base,
                 applied |-> row.applied, pending |-> call[p].op, token |-> call[p].token,
                 stale |-> FALSE, torn |-> row.torn]
<1>1. /\ call[p] # None /\ call[p].op \in {"apply", "verify"} /\ ~closed /\ Exists(q)
      /\ row.version = call[p].saw.version /\ row.pending = None /\ row.version < MaxVersion
      /\ Ends(p) /\ Stays
  BY DEF CommitAction, MayBump
<1>2. q \in Requests /\ call[p].token \in Tokens /\ row.state = ActionFrom[call[p].op]
  BY <1>1 DEF RemediationInv, CallsHold, CallHolds, SawAction, SetStates
<1>3. row \in Row /\ RowHolds(row)
  BY <1>1, <1>2, RowsAre
<1>4. attempt' = [attempt EXCEPT ![q] = r]
  <2>1. attempt' = [attempt EXCEPT ![q] = Claimed(Bumped([row EXCEPT !.pending = call[p].op]),
                                                  call[p].token)]
    BY DEF CommitAction
  <2>2. Claimed(Bumped([row EXCEPT !.pending = call[p].op]), call[p].token) = r
    BY <1>3, ActionRow
  <2> QED BY <2>1, <2>2
<1>5. r \in Row
  <2>1. row.version + 1 \in 1..MaxVersion
    BY <1>1, <1>3, VersionAssumption DEF Row
  <2> QED BY <1>1, <1>2, <1>3, <2>1 DEF Row
<1>6. /\ r.state = row.state /\ r.base = row.base /\ r.applied = row.applied
      /\ r.version = row.version + 1 /\ r.pending = call[p].op /\ row.version \in Nat \ {0}
      /\ r.torn = row.torn
  BY <1>3, VersionAssumption DEF Row
<1>7. RowHolds(r)
  BY <1>1, <1>2, <1>3, <1>6, NoneAssumption DEF RowHolds, ActionFrom
<1>8. Follows(r, row) /\ IsLive(row)
  BY <1>1, <1>2, <1>6 DEF Follows, IsLive, ActionFrom
<1>9. DOMAIN call' = Callers /\ \A o \in Callers : call'[o] \in {call[o], None}
  BY <1>1 DEF Ends, RemediationInv
<1> HIDE DEF q, r, row
<1>10. row = attempt[q]
  BY DEF row
<1> QED BY <1>1, <1>2, <1>4, <1>5, <1>7, <1>8, <1>9, <1>10, RowMoves DEF Stays

\* What a result makes of the row its call saw.
LEMMA RecordedHolds ==
  ASSUME NEW row \in Row, RowHolds(row), row.version < MaxVersion, row.pending # None,
         NEW to \in SetStates, NEW saw, saw.applied \in Contents \cup {None},
         saw.torn \in BOOLEAN,
         to \in Transitions[row.state], to \in RecordedBy[row.pending],
         IF to = "applied" THEN saw.applied # None ELSE saw.applied = row.applied,
         saw.applied # None => IsPatched(saw.applied, saw.torn, row.base)
  PROVE  LET r == Recorded(row, saw, to)
         IN /\ r \in Row /\ RowHolds(r) /\ Follows(r, row)
            /\ r.pending # None => r.state = to
<1> DEFINE r == Recorded(row, saw, to)
           pending == IF to \in {"verifying", "failed"} THEN row.pending ELSE None
           token == IF to = "verifying" THEN row.token ELSE None
           stale == IF to = "verifying" THEN row.stale ELSE FALSE
<1>1. r = [state |-> to, version |-> row.version + 1, base |-> row.base, applied |-> saw.applied,
           pending |-> pending, token |-> token, stale |-> stale, torn |-> saw.torn]
  BY DEF Recorded, Bumped, Settled, Unclaimed, Row, SetStates
<1>2. row.version \in Nat \ {0} /\ row.version + 1 \in 1..MaxVersion
  BY VersionAssumption DEF Row
<1>3. /\ pending \in {"generate", "apply", "verify", None} /\ token \in Tokens \cup {None}
      /\ stale \in BOOLEAN
  BY DEF Row
<1>4. r \in Row
  <2> HIDE DEF pending, token, stale, r
  <2>1. to \in {"requested", "generated", "applied", "verifying", "verified", "failed", "superseded"}
    BY DEF SetStates
  <2>2. row.base \in Contents
    BY DEF Row
  <2> QED BY <1>1, <1>2, <1>3, <2>1, <2>2 DEF Row
<1>5. Follows(r, row)
  BY <1>1, <1>2 DEF Follows
<1>6. row.pending \in {"generate", "apply", "verify"}
  BY DEF Row
<1>7. RowHolds(r)
  <2>1. token # None => pending # None
    OBVIOUS
  <2>2. to # "requested" /\ row.version + 1 # 1
    BY <1>2 DEF SetStates
  <2>6. /\ row.pending = "generate" => to \in {"generated", "failed"}
        /\ row.pending = "apply" => to \in {"applied", "failed"}
        /\ row.pending = "verify" => to \in {"verifying", "verified", "failed"}
    BY DEF RecordedBy
  <2>3. to = "generated" \/ pending \in {"generate", "apply"} => saw.applied = None
    BY <1>6, <2>6, NoneAssumption DEF RowHolds
  <2>4. to \in {"applied", "verifying", "verified"} \/ pending = "verify"
          => saw.applied # None
    BY <1>6, <2>6, NoneAssumption DEF RowHolds
  <2> HIDE DEF pending, token, stale, r
  <2> QED BY <1>1, <2>1, <2>2, <2>3, <2>4 DEF RowHolds
<1> QED BY <1>1, <1>4, <1>5, <1>7

LEMMA CommitSetKeeps ==
  ASSUME RemediationInv, NEW p \in Callers, CommitSet(p)
  PROVE  RemediationInv'
<1>1. PICK c : c = call[p]
  OBVIOUS
<1> DEFINE q == c.q
           row == attempt[q]
           r == Recorded(row, c.saw, c.op)
<1>2. /\ c # None /\ c.op \in SetStates /\ ~closed /\ Exists(q) /\ row.version < MaxVersion
      /\ row.version = c.saw.version /\ row.token = c.token /\ Ends(p) /\ Stays
      /\ attempt' = [attempt EXCEPT ![q] = r]
  BY <1>1 DEF CommitSet, MayBump, RecordedBy, SetStates
<1>3. q \in Requests /\ c.token \in Tokens /\ SawSet(c)
  BY <1>1, <1>2 DEF RemediationInv, CallsHold, CallHolds, SetStates
<1>4. row \in Row /\ RowHolds(row) /\ row.pending # None
  BY <1>2, <1>3, RowsAre, NoneAssumption DEF RowHolds
<1>5. /\ c.saw.applied \in Contents \cup {None} /\ c.saw.torn \in BOOLEAN
      /\ c.op \in Transitions[row.state] /\ c.op \in RecordedBy[row.pending]
      /\ IF c.op = "applied" THEN c.saw.applied # None ELSE c.saw.applied = row.applied
      /\ c.saw.applied # None => IsPatched(c.saw.applied, c.saw.torn, row.base)
  BY <1>2, <1>3, <1>4 DEF SawSet
<1>6. r \in Row /\ RowHolds(r) /\ Follows(r, row)
  BY <1>2, <1>4, <1>5, RecordedHolds
<1>7. DOMAIN call' = Callers /\ \A o \in Callers : call'[o] \in {call[o], None}
  BY <1>2 DEF Ends, RemediationInv
<1>8. IsLive(row)
  BY <1>4 DEF IsLive
<1> HIDE DEF r
<1> QED BY <1>2, <1>3, <1>6, <1>7, <1>8, RowMoves DEF Stays

\* A call that ends without a commit.
LEMMA GiveUpKeeps ==
  ASSUME RemediationInv, NEW p \in Callers, GiveUp(p)
  PROVE  RemediationInv'
<1>1. call' = [call EXCEPT ![p] = None] /\ UNCHANGED <<attempt, order, closed, content>>
  BY DEF GiveUp, Ends
<1> QED BY <1>1, OnlyCalls

-----------------------------------------------------------------------------
(* The steps of one claim *)

LEMMA ClaimMoves ==
  ASSUME RemediationInv, NEW q \in Requests, Exists(q), NEW r \in Row,
         r.state = attempt[q].state, r.version = attempt[q].version,
         r.base = attempt[q].base, r.applied = attempt[q].applied, r.torn = attempt[q].torn,
         r.pending = attempt[q].pending, r.token # None => r.pending # None,
         attempt' = [attempt EXCEPT ![q] = r], Stays, UNCHANGED call
  PROVE  RemediationInv'
<1> DEFINE row == attempt[q]
<1>1. row \in Row /\ RowHolds(row) /\ row.version \in Nat
  BY RowsAre, VersionAssumption DEF Row
<1>2. RowHolds(r) /\ Follows(r, row) /\ (IsLive(r) => IsLive(row))
  BY <1>1 DEF RowHolds, Follows, IsLive
<1>3. closed /\ r.pending # None => r.state = "failed"
  BY DEF RemediationInv, RowsHold
<1>4. DOMAIN call' = Callers /\ \A o \in Callers : call'[o] \in {call[o], None}
  BY DEF RemediationInv
<1> HIDE DEF row
<1>5. row = attempt[q]
  BY DEF row
<1> QED BY <1>2, <1>3, <1>4, <1>5, RowMoves DEF Stays

LEMMA ClaimsKeep ==
  ASSUME RemediationInv, NEW q \in Requests, NEW t \in Tokens,
         \/ ClaimExpires(q) \/ Resend(q, t) \/ MarkDelivered(q, t)
         \/ Release(q, t) \/ CancelRetry(q, t)
  PROVE  RemediationInv'
<1> DEFINE row == attempt[q]
<1>1. Exists(q) /\ Stays /\ UNCHANGED call
  BY DEF ClaimExpires, Resend, MarkDelivered, Release, CancelRetry, OwnsClaim
<1>2. row \in Row /\ (row.token # None => row.pending # None)
  BY <1>1, RowsAre DEF RowHolds
<1>3. CASE ClaimExpires(q)
  <2> DEFINE r == [row EXCEPT !.stale = TRUE]
  <2>1. /\ r \in Row /\ r.state = row.state /\ r.version = row.version /\ r.base = row.base
        /\ r.applied = row.applied /\ r.pending = row.pending /\ r.token = row.token
        /\ r.torn = row.torn
    BY <1>2 DEF Row
  <2>2. attempt' = [attempt EXCEPT ![q] = r]
    BY <1>3 DEF ClaimExpires
  <2> HIDE DEF r
  <2> QED BY <1>1, <1>2, <2>1, <2>2, ClaimMoves
<1>4. CASE MarkDelivered(q, t)
  <2> DEFINE r == [row EXCEPT !.stale = FALSE]
  <2>1. /\ r \in Row /\ r.state = row.state /\ r.version = row.version /\ r.base = row.base
        /\ r.applied = row.applied /\ r.pending = row.pending /\ r.token = row.token
        /\ r.torn = row.torn
    BY <1>2 DEF Row
  <2>2. attempt' = [attempt EXCEPT ![q] = r]
    BY <1>4 DEF MarkDelivered
  <2> HIDE DEF r
  <2> QED BY <1>1, <1>2, <2>1, <2>2, ClaimMoves
<1>5. CASE Resend(q, t)
  <2> DEFINE r == [row EXCEPT !.token = t, !.stale = FALSE]
  <2>1. /\ r \in Row /\ r.state = row.state /\ r.version = row.version /\ r.base = row.base
        /\ r.applied = row.applied /\ r.pending = row.pending /\ r.torn = row.torn
    BY <1>2 DEF Row
  <2>2. attempt' = [attempt EXCEPT ![q] = r] /\ row.pending # None
    BY <1>5 DEF Resend, Claimed
  <2> HIDE DEF r
  <2> QED BY <1>1, <1>2, <2>1, <2>2, ClaimMoves
<1>6. CASE Release(q, t) \/ CancelRetry(q, t)
  <2> DEFINE r == [row EXCEPT !.token = None, !.stale = FALSE]
  <2>1. /\ r \in Row /\ r.state = row.state /\ r.version = row.version /\ r.base = row.base
        /\ r.applied = row.applied /\ r.pending = row.pending /\ r.token = None
        /\ r.torn = row.torn
    BY <1>2 DEF Row
  <2>2. attempt' = [attempt EXCEPT ![q] = r]
    BY <1>6 DEF Release, CancelRetry, Unclaimed
  <2> HIDE DEF r
  <2> QED BY <1>1, <1>2, <2>1, <2>2, ClaimMoves
<1> QED BY <1>3, <1>4, <1>5, <1>6

LEMMA SettledRow ==
  ASSUME NEW row \in Row
  PROVE  Settled(row) = [state |-> row.state, version |-> row.version, base |-> row.base,
                         applied |-> row.applied, pending |-> None, token |-> None,
                         stale |-> FALSE, torn |-> row.torn]
<1>1. Unclaimed(row) = [row EXCEPT !.token = None, !.stale = FALSE]
  BY DEF Unclaimed
<1>2. Settled(row) = [row EXCEPT !.token = None, !.stale = FALSE, !.pending = None]
  BY <1>1 DEF Settled, Row
<1> QED BY <1>2 DEF Row

LEMMA BumpedRow ==
  ASSUME NEW row \in Row
  PROVE  Bumped(Settled(row)) =
           [state |-> row.state, version |-> row.version + 1, base |-> row.base,
            applied |-> row.applied, pending |-> None, token |-> None, stale |-> FALSE,
            torn |-> row.torn]
<1> DEFINE x == [row EXCEPT !.token = None, !.stale = FALSE, !.pending = None]
<1>1. x.version = row.version
  BY DEF Row
<1>2. Settled(row) = x
  BY DEF Settled, Unclaimed, Row
<1>3. Bumped(x) = [row EXCEPT !.token = None, !.stale = FALSE, !.pending = None,
                             !.version = row.version + 1]
  BY <1>1 DEF Bumped, Row
<1> QED BY <1>2, <1>3 DEF Row

LEMMA CancelActionKeeps ==
  ASSUME RemediationInv, NEW q \in Requests, NEW t \in Tokens, CancelAction(q, t)
  PROVE  RemediationInv'
<1> DEFINE row == attempt[q]
           r == [state |-> row.state, version |-> row.version + 1, base |-> row.base,
                 applied |-> row.applied, pending |-> None, token |-> None, stale |-> FALSE,
                 torn |-> row.torn]
<1>1. /\ Exists(q) /\ row.pending # None /\ row.pending # "generate" /\ row.version < MaxVersion
      /\ attempt' = [attempt EXCEPT ![q] = Bumped(Settled(row))] /\ Stays /\ UNCHANGED call
  BY DEF CancelAction, OwnsClaim, MayBump
<1>2. row \in Row /\ RowHolds(row)
  BY <1>1, RowsAre
<1>3. Bumped(Settled(row)) = r
  BY <1>2, BumpedRow
<1>4. row.version \in Nat \ {0} /\ row.version + 1 \in 1..MaxVersion
  BY <1>1, <1>2, VersionAssumption DEF Row
<1>5. r \in Row /\ RowHolds(r)
  BY <1>1, <1>2, <1>4, NoneAssumption DEF Row, RowHolds
<1>6. Follows(r, row) /\ IsLive(row)
  BY <1>1, <1>4 DEF Follows, IsLive
<1>7. DOMAIN call' = Callers /\ \A o \in Callers : call'[o] \in {call[o], None}
  BY <1>1 DEF RemediationInv
<1>8. r.pending = None
  OBVIOUS
<1> HIDE DEF r
<1> QED BY <1>1, <1>3, <1>5, <1>6, <1>7, <1>8, RowMoves DEF Stays

-----------------------------------------------------------------------------
(* The finding and its checkout *)

LEMMA TriageKeeps ==
  ASSUME RemediationInv, UNCHANGED <<attempt, order, content, call>>, closed' \in BOOLEAN,
         closed' /\ ~closed /\ Latest # None =>
           (attempt[Latest].pending # None => attempt[Latest].state = "failed")
  PROVE  RemediationInv'
<1>1. TypeOK' /\ OrderHolds' /\ DOMAIN call' = Callers
  BY DEF RemediationInv, TypeOK, OrderHolds, Exists
<1>2. CallsHold'
  BY DEF RemediationInv, CallsHold, CallHolds, SawAction, SawSet, SawDigest, IsPatched, Exists
<1>3. RowsHold'
  <2> SUFFICES ASSUME NEW q \in Requests, Exists(q)
               PROVE  /\ RowHolds(attempt[q]) /\ (IsLive(attempt[q]) => q = Latest)
                      /\ closed' /\ attempt[q].pending # None => attempt[q].state = "failed"
    BY DEF RowsHold, Exists, Latest
  <2>1. /\ RowHolds(attempt[q]) /\ (IsLive(attempt[q]) => q = Latest)
        /\ closed /\ attempt[q].pending # None => attempt[q].state = "failed"
    BY DEF RemediationInv, RowsHold
  <2>2. q # None
    BY NoneAssumption
  <2> QED BY <2>1, <2>2 DEF IsLive
<1> QED BY <1>1, <1>2, <1>3 DEF RemediationInv

\* An edit leaves the rows and is marked on the calls between their readings.
LEMMA EditCheckoutKeeps ==
  ASSUME RemediationInv, EditCheckout
  PROVE  RemediationInv'
<1>1. /\ content' \in Contents /\ UNCHANGED <<attempt, order, closed>>
      /\ call' = [p \in Callers |-> IF call[p] # None /\ call[p].op = "digest"
                                    THEN Overtaken(call[p]) ELSE call[p]]
  BY DEF EditCheckout
<1>2. TypeOK' /\ OrderHolds' /\ RowsHold' /\ DOMAIN call' = Callers
  BY <1>1 DEF RemediationInv, TypeOK, OrderHolds, RowsHold, Exists, Latest
<1>3. CallsHold'
  <2> SUFFICES ASSUME NEW p \in Callers, call'[p] # None PROVE CallHolds(call[p])'
    BY DEF CallsHold
  <2>1. PICK c : c = call[p]
    OBVIOUS
  <2>2. PICK d : d = call'[p]
    OBVIOUS
  <2>3. /\ c # None /\ CallHolds(c)
        /\ d = IF c.op = "digest" THEN Overtaken(c) ELSE c
    BY <1>1, <2>1, <2>2 DEF RemediationInv, CallsHold
  <2>4. CASE c.op = "digest"
    <3>1. SawDigest(c) /\ c.q \in Requests /\ c.token \in Tokens
      BY <2>3, <2>4 DEF CallHolds, SetStates
    <3>2. PICK saw : saw = [version |-> c.saw.version, base |-> c.saw.base,
                            applied |-> c.saw.applied, torn |-> TRUE]
      OBVIOUS
    <3>3. d = [op |-> "digest", q |-> c.q, token |-> c.token, saw |-> saw]
      <4>1. c = [op |-> "digest", q |-> c.q, token |-> c.token, saw |-> c.saw]
        BY <3>1 DEF SawDigest
      <4>2. d = [c EXCEPT !.saw = saw]
        BY <2>3, <2>4, <3>2 DEF Overtaken
      <4> QED BY <4>1, <4>2
    <3>4. /\ d.op = "digest" /\ d.q = c.q /\ d.token = c.token /\ d.saw = saw
          /\ saw.version = c.saw.version /\ saw.base = c.saw.base
          /\ saw.applied = c.saw.applied /\ saw.torn = TRUE
      BY <3>2, <3>3
    <3>5. SawDigest(d)'
      BY <1>1, <3>1, <3>2, <3>3, <3>4 DEF SawDigest, Exists
    <3> QED BY <2>2, <3>1, <3>4, <3>5 DEF CallHolds
  <2>5. CASE c.op # "digest"
    <3>1. d = c
      BY <2>3, <2>5
    <3>2. CallHolds(c)'
      BY <1>1, <2>3, <2>5 DEF CallHolds, SawAction, SawSet, IsPatched, Exists
    <3> QED BY <2>2, <3>1, <3>2
  <2> QED BY <2>4, <2>5
<1> QED BY <1>2, <1>3 DEF RemediationInv

-----------------------------------------------------------------------------
(* A new attempt, and one that is taken back *)

LEMMA RemoveLast ==
  ASSUME NEW S, NEW s \in Seq(S), s # <<>>
  PROVE  /\ Len(s) \in Nat \ {0}
         /\ RemoveAt(s, Len(s)) \in Seq(S) /\ Len(RemoveAt(s, Len(s))) = Len(s) - 1
         /\ \A i \in 1..Len(s) - 1 : RemoveAt(s, Len(s))[i] = s[i]
<1>1. PICK n \in Nat : n = Len(s) - 1 /\ Len(s) = n + 1 /\ \A i \in 1..n : s[i] \in S
  OBVIOUS
<1>2. PICK t : t = SubSeq(s, 1, n)
  OBVIOUS
<1>3. /\ t \in Seq(S) /\ Len(t) = (IF 1 <= n THEN n - 1 + 1 ELSE 0)
      /\ \A i \in 1..n - 1 + 1 : t[i] = s[1 + i - 1]
  BY <1>1, <1>2, SubSeqProperties
<1>4. \A i \in 1..n : t[i] = s[i]
  <2> TAKE i \in 1..n
  <2>1. i \in 1..n - 1 + 1 /\ 1 + i - 1 = i
    OBVIOUS
  <2> QED BY <1>3, <2>1
<1>5. Len(t) = n
  BY <1>3
<1>6. SubSeq(s, Len(s) + 1, Len(s)) = <<>>
  BY <1>1, SubSeqEmpty
<1>7. RemoveAt(s, Len(s)) = t
  BY <1>1, <1>2, <1>3, <1>6, ConcatEmptySeq DEF RemoveAt
<1> QED BY <1>1, <1>3, <1>4, <1>5, <1>7

\* The latest attempt is there, and is the last of the order.
LEMMA LatestIs ==
  ASSUME RemediationInv
  PROVE  /\ order = <<>> => Latest = None /\ \A q \in Requests : ~Exists(q)
         /\ order # <<>> => /\ Len(order) \in 1..Len(order) /\ Latest = order[Len(order)]
                            /\ Latest \in Requests /\ Exists(Latest)
<1>1. CASE order = <<>>
  BY <1>1 DEF RemediationInv, OrderHolds, Latest
<1>2. CASE order # <<>>
  <2>1. order \in Seq(Requests) /\ Len(order) \in 1..Len(order)
    BY <1>2 DEF RemediationInv, OrderHolds
  <2>2. Latest = order[Len(order)] /\ order[Len(order)] \in Requests
    BY <1>2, <2>1 DEF Latest, Last
  <2>3. Exists(Latest)
    BY <2>1, <2>2 DEF RemediationInv, OrderHolds
  <2> QED BY <1>2, <2>1, <2>2, <2>3
<1> QED BY <1>1, <1>2

LEMMA SupersededHolds ==
  ASSUME NEW row \in Row, RowHolds(row), ~AtWork(row),
         row.state \in {"generated", "applied"} => row.version < MaxVersion
  PROVE  /\ Superseded(row) \in Row /\ RowHolds(Superseded(row))
         /\ Follows(Superseded(row), row) /\ ~IsLive(Superseded(row))
         /\ Superseded(row).pending = None
<1>1. /\ row.version \in Nat \ {0}
      /\ row.state \in {"generated", "applied"} => row.version + 1 \in 1..MaxVersion
  BY VersionAssumption DEF Row
<1>2. CASE row.state = "failed"
  <2>1. Superseded(row) =
          [state |-> row.state, version |-> row.version, base |-> row.base,
           applied |-> row.applied, pending |-> None, token |-> None, stale |-> FALSE,
           torn |-> row.torn]
    BY <1>2, SettledRow DEF Superseded
  <2>2. Superseded(row) \in Row
    BY <2>1 DEF Row
  <2> QED BY <1>1, <1>2, <2>1, <2>2, NoneAssumption DEF RowHolds, Follows, IsLive
<1>3. CASE row.state \in {"generated", "applied"}
  <2>1. PICK x : x = Bumped(Settled(row))
    OBVIOUS
  <2>2. x = [state |-> row.state, version |-> row.version + 1, base |-> row.base,
             applied |-> row.applied, pending |-> None, token |-> None, stale |-> FALSE,
             torn |-> row.torn]
    BY <2>1, BumpedRow
  <2>3. Superseded(row) = [x EXCEPT !.state = "superseded"]
    BY <1>3, <2>1 DEF Superseded
  <2>4. Superseded(row) =
          [state |-> "superseded", version |-> row.version + 1, base |-> row.base,
           applied |-> row.applied, pending |-> None, token |-> None, stale |-> FALSE,
           torn |-> row.torn]
    BY <2>2, <2>3
  <2>5. Superseded(row) \in Row
    BY <1>1, <1>3, <2>4 DEF Row
  <2> QED BY <1>1, <1>3, <2>4, <2>5, NoneAssumption DEF RowHolds, Follows, IsLive
<1>4. CASE row.state \notin {"failed", "generated", "applied"}
  <2>1. Superseded(row) = row
    BY <1>4 DEF Superseded
  <2>2. row.pending = None /\ row.state \notin {"requested", "verifying"}
    BY <1>4 DEF AtWork
  <2> QED BY <1>1, <1>4, <2>1, <2>2 DEF Follows, IsLive
<1> QED BY <1>2, <1>3, <1>4

\* Which rows a new request leaves, and the order they are in.
LEMMA Appended ==
  ASSUME OrderHolds, NEW q \in Requests, ~Exists(q), order' = Append(order, q),
         \A r \in Requests : Exists(r)' <=> (Exists(r) \/ r = q)
  PROVE  OrderHolds' /\ Latest' = q
<1>1. order \in Seq(Requests) /\ Len(order) \in Nat
  BY DEF OrderHolds
<1>2. /\ order' \in Seq(Requests) /\ order' # <<>> /\ Len(order') = Len(order) + 1
      /\ \A i \in 1..Len(order) : order'[i] = order[i]
      /\ order'[Len(order) + 1] = q
  BY <1>1, AppendProperties
<1>3. \A i \in 1..Len(order) : order[i] # q
  BY DEF OrderHolds
<1>4. ASSUME NEW r \in Requests PROVE Exists(r)' <=> \E i \in 1..Len(order') : order'[i] = r
  BY <1>1, <1>2, <1>3 DEF OrderHolds
<1>5. ASSUME NEW i \in 1..Len(order'), NEW j \in 1..Len(order'), order'[i] = order'[j]
      PROVE  i = j
  <2>1. CASE i \in 1..Len(order) /\ j \in 1..Len(order)
    BY <1>2, <1>5, <2>1 DEF OrderHolds
  <2>2. CASE i \notin 1..Len(order) \/ j \notin 1..Len(order)
    BY <1>1, <1>2, <1>3, <1>5, <2>2
  <2> QED BY <2>1, <2>2
<1> QED BY <1>2, <1>4, <1>5 DEF OrderHolds, Latest, Last

LEMMA CommitRequestKeeps ==
  ASSUME RemediationInv, NEW p \in Callers, CommitRequest(p)
  PROVE  RemediationInv'
<1>1. PICK c : c = call[p]
  OBVIOUS
<1> DEFINE q == c.q
           new == [state |-> "requested", version |-> 1, base |-> c.saw.base, applied |-> None,
                   pending |-> "generate", token |-> c.token, stale |-> FALSE,
                   torn |-> FALSE]
<1>2. /\ c # None /\ c.op = "request" /\ ~closed /\ ~Exists(q) /\ Ends(p)
      /\ Latest # None =>
           /\ ~AtWork(attempt[Latest])
           /\ attempt[Latest].state \in {"generated", "applied"}
                => attempt[Latest].version < MaxVersion
      /\ attempt' = [r \in Requests |-> IF r = q THEN new
                                        ELSE IF r = Latest THEN Superseded(attempt[r])
                                        ELSE attempt[r]]
      /\ order' = Append(order, q) /\ UNCHANGED <<closed, content>>
  BY <1>1 DEF CommitRequest, MayBump
<1>3. q \in Requests /\ c.token \in Tokens /\ c.saw.base \in Contents
  BY <1>1, <1>2 DEF RemediationInv, CallsHold, CallHolds, SetStates
<1>4. \A r \in Requests : Exists(r) => attempt[r] \in Row /\ RowHolds(attempt[r])
  BY RowsAre
<1>5. PICK w : w = new
  OBVIOUS
<1>6. w \in Row /\ RowHolds(w) /\ w # None /\ w.state = "requested" /\ w.pending = "generate"
      /\ w.version = 1 /\ w.applied = None
  <2>1. 1 \in 1..MaxVersion
    BY VersionAssumption
  <2>2. w \in Row
    BY <1>3, <1>5, <2>1 DEF Row
  <2> QED BY <1>5, <2>2, RowAssumption, NoneAssumption DEF RowHolds
<1>7. /\ attempt'[q] = w
      /\ \A r \in Requests \ {q} :
           attempt'[r] = IF r = Latest THEN Superseded(attempt[r]) ELSE attempt[r]
  BY <1>2, <1>3, <1>5
<1> HIDE DEF new, q
<1>8. \A r \in Requests : Exists(r) => r # q
  BY <1>2
<1>9. ASSUME NEW r \in Requests \ {q}, r # Latest
      PROVE  /\ attempt'[r] = attempt[r]
             /\ Exists(r) => ~IsLive(attempt[r]) /\ attempt[r].pending = None
  BY <1>7, <1>9 DEF RemediationInv, RowsHold, IsLive
<1>10. ASSUME Latest # None
       PROVE  /\ Latest \in Requests \ {q} /\ Exists(Latest)
              /\ attempt'[Latest] \in Row /\ RowHolds(attempt'[Latest])
              /\ Follows(attempt'[Latest], attempt[Latest])
              /\ ~IsLive(attempt'[Latest]) /\ attempt'[Latest].pending = None
  <2>1. Latest \in Requests /\ Exists(Latest)
    BY <1>10, LatestIs
  <2>2. attempt[Latest] \in Row /\ RowHolds(attempt[Latest])
    BY <1>4, <2>1
  <2>3. Latest \in Requests \ {q}
    BY <1>8, <2>1
  <2>4. attempt'[Latest] = Superseded(attempt[Latest])
    BY <1>7, <2>3
  <2> QED BY <1>2, <1>10, <2>1, <2>2, <2>3, <2>4, SupersededHolds
<1>11. ASSUME NEW r \in Requests, Exists(r)
       PROVE  /\ r # q /\ attempt'[r] \in Row /\ RowHolds(attempt'[r])
              /\ Follows(attempt'[r], attempt[r])
              /\ ~IsLive(attempt'[r]) /\ attempt'[r].pending = None
  <2>1. r # q /\ r # None /\ attempt[r] \in Row /\ RowHolds(attempt[r])
    BY <1>4, <1>8, <1>11, NoneAssumption
  <2>2. CASE r = Latest
    BY <1>10, <2>1, <2>2
  <2>3. CASE r # Latest
    <3>1. Follows(attempt[r], attempt[r])
      BY <2>1, VersionAssumption DEF Follows, Row
    <3> QED BY <1>9, <1>11, <2>1, <2>3, <3>1
  <2> QED BY <2>2, <2>3
<1>12. ASSUME NEW r \in Requests PROVE Exists(r)' <=> (Exists(r) \/ r = q)
  <2>1. CASE r = q
    BY <1>6, <1>7, <2>1 DEF Exists
  <2>2. CASE r # q /\ Exists(r)
    BY <1>11, <2>2, RowAssumption DEF Exists
  <2>3. CASE r # q /\ ~Exists(r)
    <3>1. r # Latest
      BY <2>3, LatestIs, NoneAssumption
    <3> QED BY <1>9, <2>3, <3>1 DEF Exists
  <2> QED BY <2>1, <2>2, <2>3
<1>13. OrderHolds' /\ Latest' = q
  BY <1>2, <1>3, <1>12, Appended DEF RemediationInv
<1>14. TypeOK'
  <2>1. \A r \in Requests : attempt'[r] \in Row \cup {None}
    BY <1>6, <1>7, <1>9, <1>11, <1>12 DEF Exists
  <2>2. attempt' = [r \in Requests |-> attempt'[r]]
    BY <1>2
  <2> QED BY <1>2, <1>13, <2>1, <2>2 DEF TypeOK, OrderHolds, RemediationInv
<1>15. RowsHold'
  <2> SUFFICES ASSUME NEW r \in Requests, Exists(r)'
               PROVE  /\ RowHolds(attempt'[r]) /\ (IsLive(attempt'[r]) => r = q)
                      /\ closed' /\ attempt'[r].pending # None => attempt'[r].state = "failed"
    BY <1>13 DEF RowsHold
  <2>1. CASE r = q
    BY <1>2, <1>6, <1>7, <2>1
  <2>2. CASE r # q
    BY <1>11, <1>12, <2>2
  <2> QED BY <2>1, <2>2
<1>16. DOMAIN call' = Callers /\ \A o \in Callers : call'[o] \in {call[o], None}
  BY <1>2 DEF Ends, RemediationInv
<1>17. CallsHold'
  <2> SUFFICES ASSUME NEW o \in Callers, call'[o] # None PROVE CallHolds(call[o])'
    BY DEF CallsHold
  <2>1. PICK k : k = call[o]
    OBVIOUS
  <2>2. call'[o] = k /\ CallHolds(k) /\ k.q \in Requests
    BY <1>16, <2>1 DEF RemediationInv, CallsHold, CallHolds
  <2>3. CASE k.q # q
    <3>1. Exists(k.q) => /\ Exists(k.q)' /\ attempt[k.q] \in Row /\ attempt'[k.q] \in Row
                         /\ Follows(attempt'[k.q], attempt[k.q])
      BY <1>4, <1>11, <1>12, <2>2
    <3>2. Exists(k.q)' => Exists(k.q)
      BY <1>12, <2>2, <2>3
    <3>3. CallHolds(k)'
      BY <1>2, <2>2, <3>1, <3>2, CallFollows
    <3> QED BY <2>2, <3>3
  <2>4. CASE k.q = q
    <3>1. ~Exists(k.q)
      BY <1>2, <2>4 DEF q
    <3>2. CASE k.op = "request"
      <4>1. CallHolds(k)'
        BY <2>2, <3>2 DEF CallHolds, SetStates
      <4> QED BY <2>2, <4>1
    <3>3. CASE k.op # "request"
      <4>1. k.op \in SetStates /\ SawSet(k) /\ k.token \in Tokens
        BY <2>2, <3>1, <3>3 DEF CallHolds, SawAction, SawDigest
      <4>2. k.saw.version = 1 /\ k.op \in {"generated", "failed"} /\ k.saw.applied = None
        BY <3>1, <4>1 DEF SawSet
      <4>3. attempt'[k.q] = w
        BY <1>7, <2>4
      <4>4. /\ k.op \in Transitions[w.state] /\ k.op \in RecordedBy[w.pending]
            /\ k.op # "applied" /\ k.saw.torn \in BOOLEAN
        BY <1>6, <4>1, <4>2 DEF SawSet, Transitions, RecordedBy
      <4>6. SawSet(k)'
        BY <1>6, <4>2, <4>3, <4>4 DEF SawSet
      <4>5. CallHolds(k)'
        BY <2>2, <4>1, <4>6 DEF CallHolds
      <4> QED BY <2>2, <4>5
    <3> QED BY <3>2, <3>3
  <2> QED BY <2>3, <2>4
<1> QED BY <1>13, <1>14, <1>15, <1>16, <1>17 DEF RemediationInv

\* What taking an attempt back makes of the one before it.
LEMMA RestoredHolds ==
  ASSUME NEW row \in Row, RowHolds(row), row.version < MaxVersion
  PROVE  /\ Restored(row) \in Row /\ RowHolds(Restored(row)) /\ Follows(Restored(row), row)
         /\ row.pending = None => Restored(row).pending = None
<1>1. row.version \in Nat \ {0} /\ row.version + 1 \in 1..MaxVersion
  BY VersionAssumption DEF Row
<1>2. CASE row.state = "superseded"
  <2> DEFINE to == IF row.applied # None THEN "applied" ELSE "generated"
  <2>1. PICK x : x = [state |-> to, version |-> row.version + 1, base |-> row.base,
                      applied |-> row.applied, pending |-> row.pending,
                      token |-> row.token, stale |-> row.stale, torn |-> row.torn]
    OBVIOUS
  <2>2. Restored(row) = x
    <3>1. Bumped(row) = [row EXCEPT !.version = row.version + 1]
      BY DEF Bumped
    <3>2. Restored(row) = [row EXCEPT !.version = row.version + 1, !.state = to]
      BY <1>2, <3>1, RowAssumption DEF Restored, Row
    <3> QED BY <2>1, <3>2 DEF Row
  <2>3. x \in Row
    BY <1>1, <2>1 DEF Row
  <2>4. /\ x.state = to /\ x.version = row.version + 1 /\ x.base = row.base
        /\ x.applied = row.applied /\ x.pending = row.pending /\ x.token = row.token
        /\ x.torn = row.torn
    BY <2>1
  <2>5. RowHolds(x)
    BY <1>1, <1>2, <2>4 DEF RowHolds
  <2>6. Follows(x, row)
    BY <1>1, <2>4 DEF Follows
  <2> QED BY <2>2, <2>3, <2>4, <2>5, <2>6
<1>3. CASE row.state # "superseded"
  <2>1. Restored(row) = row
    BY <1>3 DEF Restored
  <2> QED BY <1>1, <2>1 DEF Follows
<1> QED BY <1>2, <1>3

\* Which rows are left, and in which order, when the last is taken back.
LEMMA TakenBack ==
  ASSUME OrderHolds, order # <<>>, NEW q \in Requests, q = order[Len(order)],
         order' = RemoveAt(order, Len(order)),
         \A r \in Requests : Exists(r)' <=> (Exists(r) /\ r # q)
  PROVE  OrderHolds'
<1>1. PICK n \in Nat : n = Len(order) - 1 /\ Len(order) = n + 1
  BY RemoveLast DEF OrderHolds
<1>2. /\ order' \in Seq(Requests) /\ Len(order') = n
      /\ \A i \in 1..n : order'[i] = order[i]
  BY <1>1, RemoveLast DEF OrderHolds
<1>3. \A i \in 1..n : order[i] # q
  BY <1>1 DEF OrderHolds
<1>4. ASSUME NEW r \in Requests PROVE Exists(r)' <=> \E i \in 1..Len(order') : order'[i] = r
  <2>1. Exists(r) <=> \E i \in 1..n + 1 : order[i] = r
    BY <1>1 DEF OrderHolds
  <2>2. order[n + 1] = q
    BY <1>1
  <2> QED BY <1>2, <1>3, <2>1, <2>2
<1>5. ASSUME NEW i \in 1..Len(order'), NEW j \in 1..Len(order'), order'[i] = order'[j]
      PROVE  i = j
  BY <1>1, <1>2, <1>5 DEF OrderHolds
<1> QED BY <1>2, <1>4, <1>5 DEF OrderHolds

LEMMA CancelGenerationKeeps ==
  ASSUME RemediationInv, NEW q \in Requests, NEW t \in Tokens, CancelGeneration(q, t)
  PROVE  RemediationInv'
<1>a. PICK rest : rest = RemoveAt(order, CHOOSE i \in DOMAIN order : order[i] = q)
  OBVIOUS
<1>b. PICK previous : previous = IF rest = <<>> THEN None ELSE Last(rest)
  OBVIOUS
<1>1. /\ Exists(q) /\ attempt[q].state = "requested"
      /\ previous # None => attempt[previous].version < MaxVersion
      /\ attempt' = [r \in Requests |-> IF r = q THEN None
                                        ELSE IF r = previous THEN Restored(attempt[r])
                                        ELSE attempt[r]]
      /\ order' = rest /\ UNCHANGED <<closed, content, call>>
  BY <1>a, <1>b DEF CancelGeneration, OwnsClaim, MayBump
<1>2. \A r \in Requests : Exists(r) => attempt[r] \in Row /\ RowHolds(attempt[r])
  BY RowsAre
<1>3. q = Latest /\ order # <<>> /\ q = order[Len(order)] /\ Len(order) \in 1..Len(order)
  <2>1. q = Latest
    BY <1>1 DEF RemediationInv, RowsHold, IsLive
  <2> QED BY <1>1, <2>1, LatestIs
<1>4. rest = RemoveAt(order, Len(order))
  <2>1. \A i \in DOMAIN order : order[i] = q => i = Len(order)
    BY <1>3 DEF RemediationInv, OrderHolds
  <2>2. DOMAIN order = 1..Len(order)
    BY DEF RemediationInv, OrderHolds
  <2>3. (CHOOSE i \in DOMAIN order : order[i] = q) = Len(order)
    BY <1>3, <2>1, <2>2
  <2> QED BY <1>a, <2>3
<1>5. /\ rest \in Seq(Requests) /\ Latest' = previous
      /\ previous # None => /\ previous \in Requests \ {q} /\ Exists(previous)
  <2>1. order \in Seq(Requests) /\ Len(rest) = Len(order) - 1 /\ rest \in Seq(Requests)
        /\ \A i \in 1..Len(order) - 1 : rest[i] = order[i]
    BY <1>3, <1>4, RemoveLast DEF RemediationInv, OrderHolds
  <2>2. Latest' = previous
    BY <1>1, <1>b DEF Latest
  <2>3. ASSUME previous # None PROVE previous \in Requests \ {q} /\ Exists(previous)
    <3>1. rest # <<>> /\ previous = rest[Len(rest)] /\ Len(rest) \in 1..Len(order) - 1
      BY <1>b, <1>3, <2>1, <2>3 DEF Last
    <3>2. previous = order[Len(rest)] /\ Len(rest) # Len(order) /\ Len(rest) \in 1..Len(order)
      BY <2>1, <3>1
    <3>3. previous \in Requests /\ previous # q
      BY <1>3, <2>1, <3>2 DEF RemediationInv, OrderHolds
    <3> QED BY <3>2, <3>3 DEF RemediationInv, OrderHolds
  <2> QED BY <2>1, <2>2, <2>3
<1>6. /\ attempt'[q] = None
      /\ \A r \in Requests \ {q} :
           attempt'[r] = IF r = previous THEN Restored(attempt[r]) ELSE attempt[r]
  BY <1>1
<1>7. ASSUME NEW r \in Requests \ {q}, Exists(r)
      PROVE  /\ attempt'[r] \in Row /\ RowHolds(attempt'[r])
             /\ Follows(attempt'[r], attempt[r])
             /\ attempt'[r].pending = None
             /\ r # previous => ~IsLive(attempt'[r])
  <2>1. attempt[r] \in Row /\ RowHolds(attempt[r]) /\ ~IsLive(attempt[r])
    BY <1>2, <1>3, <1>7 DEF RemediationInv, RowsHold
  <2>2. attempt[r].pending = None
    BY <2>1 DEF IsLive
  <2>3. CASE r = previous
    <3>1. r # None
      BY NoneAssumption
    <3> QED BY <1>1, <1>6, <2>1, <2>2, <2>3, <3>1, RestoredHolds
  <2>4. CASE r # previous
    <3>1. attempt'[r] = attempt[r]
      BY <1>6, <2>4
    <3>2. Follows(attempt[r], attempt[r])
      BY <2>1, VersionAssumption DEF Follows, Row
    <3> QED BY <2>1, <2>2, <3>1, <3>2
  <2> QED BY <2>3, <2>4
<1>8. ASSUME NEW r \in Requests PROVE Exists(r)' <=> (Exists(r) /\ r # q)
  <2>1. CASE r = q
    BY <1>6, <2>1 DEF Exists
  <2>2. CASE r # q /\ Exists(r)
    BY <1>7, <2>2, RowAssumption DEF Exists
  <2>3. CASE r # q /\ ~Exists(r)
    <3>1. r # previous
      BY <1>5, <2>3, NoneAssumption
    <3> QED BY <1>6, <2>3, <3>1 DEF Exists
  <2> QED BY <2>1, <2>2, <2>3
<1>9. OrderHolds'
  BY <1>1, <1>3, <1>4, <1>8, TakenBack DEF RemediationInv
<1>10. TypeOK'
  <2>1. \A r \in Requests : attempt'[r] \in Row \cup {None}
    BY <1>6, <1>7, <1>8 DEF Exists
  <2>2. attempt' = [r \in Requests |-> attempt'[r]]
    BY <1>1
  <2> QED BY <1>1, <1>9, <2>1, <2>2 DEF TypeOK, OrderHolds, RemediationInv
<1>11. RowsHold'
  <2> SUFFICES ASSUME NEW r \in Requests, Exists(r)'
               PROVE  /\ RowHolds(attempt'[r]) /\ (IsLive(attempt'[r]) => r = previous)
                      /\ closed' /\ attempt'[r].pending # None => attempt'[r].state = "failed"
    BY <1>5 DEF RowsHold
  <2> QED BY <1>7, <1>8
<1>12. DOMAIN call' = Callers /\ \A o \in Callers : call'[o] = call[o]
  BY <1>1 DEF RemediationInv
<1>13. CallsHold'
  <2> SUFFICES ASSUME NEW o \in Callers, call'[o] # None PROVE CallHolds(call[o])'
    BY DEF CallsHold
  <2>1. PICK k : k = call[o]
    OBVIOUS
  <2>2. call'[o] = k /\ CallHolds(k) /\ k.q \in Requests
    BY <1>12, <2>1 DEF RemediationInv, CallsHold, CallHolds
  <2>3. CASE k.q # q
    <3>1. Exists(k.q) => /\ Exists(k.q)' /\ attempt[k.q] \in Row /\ attempt'[k.q] \in Row
                         /\ Follows(attempt'[k.q], attempt[k.q])
      BY <1>2, <1>7, <1>8, <2>2, <2>3
    <3>2. Exists(k.q)' => Exists(k.q)
      BY <1>8, <2>2
    <3>3. CallHolds(k)'
      BY <1>1, <2>2, <3>1, <3>2, CallFollows
    <3> QED BY <2>2, <3>3
  <2>4. CASE k.q = q
    <3>1. attempt[k.q].version = 1 /\ ~Exists(k.q)'
      BY <1>1, <1>2, <1>8, <2>2, <2>4 DEF RowHolds
    <3>2. CASE k.op = "request"
      <4>1. CallHolds(k)'
        BY <2>2, <3>2 DEF CallHolds, SetStates
      <4> QED BY <2>2, <4>1
    <3>3. CASE k.op # "request"
      <4>1. ~SawAction(k) /\ ~SawDigest(k)
        BY <3>1 DEF SawAction, SawDigest
      <4>2. k.op \in SetStates /\ SawSet(k) /\ k.token \in Tokens
        BY <2>2, <3>3, <4>1 DEF CallHolds
      <4>3. k.saw.version = 1
        BY <3>1, <4>2 DEF SawSet
      <4>4. SawSet(k)'
        BY <3>1, <4>2, <4>3 DEF SawSet
      <4>5. CallHolds(k)'
        BY <2>2, <4>2, <4>4 DEF CallHolds
      <4> QED BY <2>2, <4>5
    <3> QED BY <3>2, <3>3
  <2> QED BY <2>3, <2>4
<1> QED BY <1>9, <1>10, <1>11, <1>12, <1>13 DEF RemediationInv

-----------------------------------------------------------------------------
(* The invariant, and what follows from it *)

LEMMA CommittingKeeps ==
  ASSUME RemediationInv, Committing PROVE RemediationInv'
<1>1. PICK p \in Callers : CommitRequest(p) \/ CommitAction(p) \/ CommitSet(p) \/ GiveUp(p)
  BY DEF Committing
<1> QED BY <1>1, CommitRequestKeeps, CommitActionKeeps, CommitSetKeeps, GiveUpKeeps

LEMMA InspectingKeeps ==
  ASSUME RemediationInv, Inspecting PROVE RemediationInv'
<1>1. PICK p \in Callers, q \in Requests, t \in Tokens :
        \/ ReadRequest(p, q, t)
        \/ \E action \in {"apply", "verify"} : ReadAction(p, q, t, action)
        \/ \E to \in SetStates \ {"applied"} : ReadSet(p, q, t, to)
        \/ ReadDigest(p, q, t) \/ CopyCheckout(p)
  BY DEF Inspecting, SetStates
<1> QED BY <1>1, ReadRequestKeeps, ReadActionKeeps, ReadSetKeeps, ReadDigestKeeps,
           CopyCheckoutKeeps

LEMMA ClaimingKeeps ==
  ASSUME RemediationInv, Claiming PROVE RemediationInv'
<1>1. PICK q \in Requests :
        \/ ClaimExpires(q)
        \/ \E t \in Tokens :
             \/ Resend(q, t) \/ MarkDelivered(q, t) \/ Release(q, t)
             \/ CancelGeneration(q, t) \/ CancelAction(q, t) \/ CancelRetry(q, t)
  BY DEF Claiming
<1>2. CASE ClaimExpires(q)
  <2>1. CASE Tokens = {}
    <3>1. attempt[q].token = None
      BY <1>2, <2>1, RowsAre DEF ClaimExpires, Row
    <3> QED BY <1>2, <3>1 DEF ClaimExpires, ClaimIsActive
  <2>2. CASE Tokens # {}
    BY <1>2, <2>2, ClaimsKeep
  <2> QED BY <2>1, <2>2
<1>3. ASSUME NEW t \in Tokens,
             \/ Resend(q, t) \/ MarkDelivered(q, t) \/ Release(q, t)
             \/ CancelGeneration(q, t) \/ CancelAction(q, t) \/ CancelRetry(q, t)
      PROVE  RemediationInv'
  BY <1>3, ClaimsKeep, CancelGenerationKeeps, CancelActionKeeps
<1> QED BY <1>1, <1>2, <1>3

LEMMA TriagingKeeps ==
  ASSUME RemediationInv, Triaging \/ UNCHANGED vars PROVE RemediationInv'
<1>1. closed \in BOOLEAN
  BY DEF RemediationInv, TypeOK
<1>2. /\ UNCHANGED <<attempt, order, content, call>> /\ closed' \in BOOLEAN
      /\ closed' /\ ~closed /\ Latest # None =>
           (attempt[Latest].pending # None => attempt[Latest].state = "failed")
  <2>1. CASE Triaging /\ \E fixed \in BOOLEAN : CloseFinding(fixed)
    BY <1>1, <2>1 DEF CloseFinding
  <2>2. CASE ReopenFinding
    BY <1>1, <2>2 DEF ReopenFinding
  <2>3. CASE UNCHANGED vars
    BY <1>1, <2>3 DEF vars
  <2> QED BY <2>1, <2>2, <2>3 DEF Triaging
<1> QED BY <1>2, TriageKeeps

LEMMA RemediationStep ==
  ASSUME RemediationInv, [Next]_vars PROVE RemediationInv'
BY CommittingKeeps, InspectingKeeps, ClaimingKeeps, TriagingKeeps, EditCheckoutKeeps DEF Next

THEOREM RemediationInvariant == Spec => []RemediationInv
<1>1. Init => RemediationInv
  BY InitRemediation
<1>2. RemediationInv /\ [Next]_vars => RemediationInv'
  BY RemediationStep
<1> QED BY <1>1, <1>2, PTL DEF Spec

\* The rows of every state have their types.
THEOREM RemediationTypes == Spec => []TypeOK
<1>1. RemediationInv => TypeOK
  BY DEF RemediationInv
<1> QED BY <1>1, RemediationInvariant, PTL

\* However long ago the calls that commit were checked, and whatever was
\* canceled and restored meanwhile, one attempt of the finding may still move.
THEOREM OneAttemptMoves == Spec => []OneLiveAttempt
<1>1. RemediationInv => OneLiveAttempt
  BY DEF RemediationInv, RowsHold, RowHolds, IsLive, OneLiveAttempt
<1> QED BY <1>1, RemediationInvariant, PTL

\* What counts as applied or verified is not the attempt's base, and is its
\* patched form unless the checkout was edited between the two readings of the
\* call that recorded it.
THEOREM VerifiedIsPatched == Spec => []VerifiedWasApplied
<1>1. RemediationInv => VerifiedWasApplied
  BY NoneAssumption DEF RemediationInv, RowsHold, RowHolds, IsPatched, VerifiedWasApplied
<1> QED BY <1>1, RemediationInvariant, PTL

\* No call checked before a finding was closed moves an attempt of it.
THEOREM ClosedFindingIsQuiet == Spec => ClosedIsQuiet
<1> DEFINE Kept == /\ order' = order
                   /\ \A q \in Requests : Exists(q) =>
                        attempt'[q].state = attempt[q].state /\ attempt'[q].version = attempt[q].version
<1>1. ASSUME RemediationInv, [Next]_vars, closed PROVE Kept
  <2>1. CASE UNCHANGED <<attempt, order>>
    BY <2>1
  <2>2. CASE Claiming
    <3>1. PICK q \in Requests :
            \/ ClaimExpires(q)
            \/ \E t \in Tokens :
                 \/ Resend(q, t) \/ MarkDelivered(q, t) \/ Release(q, t)
                 \/ CancelGeneration(q, t) \/ CancelAction(q, t) \/ CancelRetry(q, t)
      BY <2>2 DEF Claiming
    <3>2. Exists(q) /\ attempt[q].pending # None => attempt[q].state = "failed"
      BY <1>1 DEF RemediationInv, RowsHold
    <3>3. \A t \in Tokens : ~Resend(q, t) /\ ~CancelGeneration(q, t) /\ ~CancelAction(q, t)
      BY <1>1, <3>2 DEF Resend, CancelGeneration, CancelAction, OwnsClaim
    <3>4. /\ Exists(q) /\ order' = order
          /\ \/ attempt' = [attempt EXCEPT ![q] = [attempt[q] EXCEPT !.stale = TRUE]]
             \/ attempt' = [attempt EXCEPT ![q] = [attempt[q] EXCEPT !.stale = FALSE]]
             \/ attempt' = [attempt EXCEPT ![q] = [attempt[q] EXCEPT !.token = None, !.stale = FALSE]]
      BY <3>1, <3>3 DEF ClaimExpires, MarkDelivered, Release, CancelRetry, OwnsClaim, Unclaimed, Stays
    <3>5. attempt[q] \in Row
      BY <1>1, <3>4, RowsAre
    <3>6. attempt'[q].state = attempt[q].state /\ attempt'[q].version = attempt[q].version
      <4>1. \/ attempt'[q] = [attempt[q] EXCEPT !.stale = TRUE]
            \/ attempt'[q] = [attempt[q] EXCEPT !.stale = FALSE]
            \/ attempt'[q] = [attempt[q] EXCEPT !.token = None, !.stale = FALSE]
        BY <1>1, <3>4 DEF RemediationInv, TypeOK
      <4>2. PICK row \in Row : row = attempt[q]
        BY <3>5
      <4>3. CASE attempt'[q] = [row EXCEPT !.stale = TRUE]
        BY <4>2, <4>3 DEF Row
      <4>4. CASE attempt'[q] = [row EXCEPT !.stale = FALSE]
        BY <4>2, <4>4 DEF Row
      <4>5. CASE attempt'[q] = [row EXCEPT !.token = None, !.stale = FALSE]
        BY <4>2, <4>5 DEF Row
      <4> QED BY <4>1, <4>2, <4>3, <4>4, <4>5
    <3>7. \A r \in Requests \ {q} : attempt'[r] = attempt[r]
      BY <1>1, <3>4 DEF RemediationInv, TypeOK
    <3> QED BY <3>4, <3>6, <3>7
  <2>3. Inspecting => UNCHANGED <<attempt, order>>
    BY DEF Inspecting, ReadRequest, ReadAction, ReadSet, ReadDigest, CopyCheckout
  <2>5. Triaging \/ EditCheckout \/ UNCHANGED vars => UNCHANGED <<attempt, order>>
    BY DEF Triaging, EditCheckout, vars, CloseFinding, ReopenFinding
  <2>4. Committing => UNCHANGED <<attempt, order>>
    BY <1>1 DEF Committing, CommitRequest, CommitAction, CommitSet, GiveUp
  <2> QED BY <1>1, <2>1, <2>2, <2>3, <2>4, <2>5 DEF Next
<1>2. RemediationInv /\ [Next]_vars => [closed => Kept]_vars
  BY <1>1
<1> QED BY <1>2, RemediationInvariant, PTL DEF Spec, ClosedIsQuiet

=============================================================================
