----------------------------- MODULE TwoChainBFT ------------------------------
(***************************************************************************)
(* One epoch of DiemBFT under the 2-chain rules: every honest validator    *)
(* signs votes and timeouts only through its SafetyRules.  Leaders and     *)
(* round timers are left open: a proposal is any well-formed block on a    *)
(* certified parent, and a local timeout may come at any time.             *)
(***************************************************************************)
EXTENDS Voting

VARIABLE timeouts     \* timeouts sent by honest validators

vars == <<safety, votes, timeouts>>

Timeout == [author : Honest, round : Nat, hqc_round : Nat]

Init == InitVoting /\ timeouts = {}
--------------------------------------------------------------------------------
\* Certificates.

CertifiedRounds == {round(b) : b \in Certified}

\* TwoChainTimeoutCertificate::verify, signatures: a quorum signed timeouts of
\* this round, each over its own hqc_round, and the highest of those is the
\* certificate's.
IsSignedTC(tc) ==
    \E Q \in Quorum :
        /\ \A v \in Q \ Faulty : \E t \in timeouts :
            t.author = v /\ t.round = tc.round /\ t.hqc_round <= tc.hqc_round
        /\ \/ Q \cap Faulty # {}
           \/ \E v \in Q, t \in timeouts :
                t.author = v /\ t.round = tc.round /\ t.hqc_round = tc.hqc_round

\* The certificates that pass TwoChainTimeoutCertificate::verify (the QC they
\* carry is of a lower round than theirs), and the absence of one.
TimeoutCerts == {NoTC} \cup
    {tc \in [round : {t.round : t \in timeouts}, hqc_round : CertifiedRounds] :
        tc.hqc_round < tc.round /\ IsSignedTC(tc)}

\* The proposals that, with some timeout certificate that passes verify_tc, pass
\* safe_to_vote.
SafeProposals ==
    LET certs == TimeoutCerts
    IN  {b \in Proposals : \E tc \in certs : safe_to_vote(round(b), qc_round(b), tc)}
--------------------------------------------------------------------------------
\* The steps of an honest validator v.

SendTimeout(v, r, hqc) ==
    \/ timeouts' = timeouts \cup {[author |-> v, round |-> r, hqc_round |-> hqc]}
    \/ <<v, r>> \in Crashes /\ timeouts' = timeouts

\* construct_and_sign_vote_two_chain when SafetyRules has not voted in the round.
VoteTwoChain(v, b) ==
    /\ round(safety[v].last_vote) # round(b)
    /\ verify_last_vote_round(safety[v], round(b))
    /\ RecordVote(v, b)
    /\ UNCHANGED timeouts

\* construct_and_sign_vote_two_chain when it has.
ResendVote(v) == ReturnLastVote(v) /\ UNCHANGED timeouts

\* process_local_timeout and sign_timeout_with_qc with a QC of round hqc; the
\* round that times out is above the validator's highest QC.
SignTimeoutWithQC(v, r, hqc) ==
    LET sd == safety[v]
    IN  /\ hqc < r
        /\ r >= sd.last_voted_round
        /\ \E tc \in TimeoutCerts : safe_to_timeout(sd, r, hqc, tc)
        /\ safety' = [safety EXCEPT ![v] = record_timeout(sd, r)]
        /\ SendTimeout(v, r, hqc)
        /\ UNCHANGED votes

Next ==
    \/ \E b \in SafeProposals, v \in Honest : VoteTwoChain(v, b)
    \/ \E v \in Honest : ResendVote(v)
    \/ \E hqc \in CertifiedRounds, r \in 1..(MaxRound - 1), v \in Honest :
          SignTimeoutWithQC(v, r, hqc)

Spec == Init /\ [][Next]_vars
--------------------------------------------------------------------------------
\* SafetyData, votes and timeouts keep the Rust types' shape.
TypeOK == VotingTypeOK /\ timeouts \subseteq Timeout

\* The timeout of a validator carries a QC at least as high as the one in any
\* block it voted for up to the round it times out of, whichever of the two
\* messages was signed first and whatever was persisted but not sent in between.
TimeoutCoversVotes ==
    \A m \in votes, t \in timeouts :
        m.author = t.author /\ round(m.block) <= t.round => qc_round(m.block) <= t.hqc_round

\* A block committed by the 2-chain rule is an ancestor of every block certified
\* in its round or later.
CommittedIsLocked ==
    \A b, c \in Certified :
        b # Genesis /\ commits_2chain(round(b), qc_round(b)) /\ round(c) >= qc_round(b)
            => IsAncestor(parent(b), c)
================================================================================
