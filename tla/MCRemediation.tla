---------------------------- MODULE MCRemediation ----------------------------
(***************************************************************************)
(* Two small instances of Remediation in one: two attempts, over a checkout*)
(* to which the patch is applied or taken back; and one attempt at a time  *)
(* of a finding that stays open, whose claims have one token, over a       *)
(* checkout edited in other ways too.                                      *)
(***************************************************************************)
EXTENDS Remediation, TLC

CONSTANTS q1, q2, t1, t2, p1, p2, clean, patched, other, otherPatched

VARIABLE instance  \* which of the two

MCRequests == {q1, q2}
MCTokens == {t1, t2}
MCCallers == {p1, p2}
MCContents == {clean, patched, other, otherPatched}
\* a patch and its reverse, which is also an exchange that leaves itself as it is
MCApply == (clean :> patched) @@ (patched :> clean)
             @@ (other :> otherPatched) @@ (otherPatched :> other)

\* bound: the versions of two attempts together
MCTogether == 8
Versions(q) == IF Exists(q) THEN attempt[q].version ELSE 0

InstanceInit ==
  /\ Init
  /\ \/ instance = "attempts" /\ content \in {clean, patched}
     \/ instance = "files"

InstanceNext ==
  /\ Next /\ UNCHANGED instance
  /\ instance = "attempts" =>
       /\ content' \in {clean, patched}
       /\ Versions(q1)' + Versions(q2)' <= MCTogether
  /\ instance = "files" =>
       /\ ~closed' /\ Len(order') <= 1
       /\ order # <<>> => \A p \in Callers : call'[p] # None /\ call'[p].op = "request"
                                              => call'[p] = call[p]
       /\ \E t \in Tokens :
            /\ \A p \in Callers : call'[p] # None => call'[p].token = t
            /\ \A q \in Requests : attempt'[q] # None => attempt'[q].token \in {t, None}

InstanceSpec == InstanceInit /\ [][InstanceNext]_<<vars, instance>>

MCSymmetry ==
  Permutations(MCTokens) \cup Permutations(MCCallers) \cup Permutations(MCRequests)
    \cup {MCApply}

=============================================================================
