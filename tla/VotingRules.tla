------------------------------ MODULE VotingRules ------------------------------
(***************************************************************************)
(* The pure part of SafetyRules: what a vote or a timeout requires of the  *)
(* persisted SafetyData, and how it changes it.  A SafetyData is a record  *)
(* with (at least) the fields last_voted_round, preferred_round,           *)
(* one_chain_round and last_vote.  Rounds are naturals: next_round() fails *)
(* at u64::MAX, which no run of the protocol reaches.                      *)
(***************************************************************************)
EXTENDS Naturals

MaxOf(a, b) == IF a >= b THEN a ELSE b

\* Record what the QC of a proposal shows: the highest certified round seen and
\* the highest round seen that is the parent of a certified block.
observe_qc(sd, one_chain, two_chain) ==
    [sd EXCEPT !.one_chain_round = MaxOf(@, one_chain),
               !.preferred_round = MaxOf(@, two_chain)]

\* Mutant: the first voting rule is not checked.
verify_last_vote_round_Mutant(sd, r) == TRUE

\* First voting rule: the round of a new vote exceeds every round signed before.
verify_last_vote_round(sd, r) == r > sd.last_voted_round

\* Mutant: the second voting rule is not checked.
verify_preferred_round_Mutant(sd, one_chain) == TRUE

\* Second voting rule of the 3-chain protocol.
verify_preferred_round(sd, one_chain) == one_chain >= sd.preferred_round

\* A timeout certificate as the rules read it; an absent one reads as zeroes.
NoTC == [round |-> 0, hqc_round |-> 0]

\* Mutant: the QC of the proposal is not compared with those of the timeouts.
safe_to_vote_Mutant(r, one_chain, tc) == r = one_chain + 1 \/ r = tc.round + 1

\* Second voting rule of the 2-chain protocol.
safe_to_vote(r, one_chain, tc) ==
    \/ r = one_chain + 1
    \/ r = tc.round + 1 /\ one_chain >= tc.hqc_round

\* Mutant: the QC of the timeout is not compared with those voted on.
safe_to_timeout_Mutant(sd, r, hqc, tc) == r = hqc + 1 \/ r = tc.round + 1

\* Timeout rule of the 2-chain protocol.
safe_to_timeout(sd, r, hqc, tc) ==
    /\ r = hqc + 1 \/ r = tc.round + 1
    /\ hqc >= sd.one_chain_round

\* Signing a timeout moves last_voted_round up and never down.
record_timeout(sd, r) == [sd EXCEPT !.last_voted_round = MaxOf(@, r)]

\* Timeout rule of the 3-chain protocol.
safe_to_sign_timeout(sd, r) == r > sd.preferred_round

\* Does a vote on a block of round r commit the parent (2-chain) or the
\* grandparent (3-chain) it certifies?
commits_2chain(r, one_chain) == r = one_chain + 1

commits_3chain(r, one_chain, two_chain) ==
    one_chain = two_chain + 1 /\ r = one_chain + 1
================================================================================
