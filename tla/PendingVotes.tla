----------------------------- MODULE PendingVotes ------------------------------
(***************************************************************************)
(* The votes a validator has received for its current round and the        *)
(* certificates they make up.                                              *)
(*                                                                         *)
(* A vote is its author, the block voted for and, in "timeout", the round  *)
(* of the highest QC of its author if the vote also signs a timeout (0 in  *)
(* the 3-chain protocol, whose timeouts carry no QC); the set is empty if  *)
(* it does not.  The votes of one author in author_to_vote name one block, *)
(* so the signatures under a ledger info (li_digest_to_votes) are those of *)
(* the votes for its block.  An epoch has one kind of timeout, and         *)
(* partial_tc is the partial certificate of that kind.                     *)
(***************************************************************************)
EXTENDS Chain

CONSTANT Quorum   \* sets of validators with quorum voting power

NewPendingVotes == [author_to_vote |-> {}, partial_tc |-> {}]

is_timeout(v) == v.timeout # {}

\* ValidatorVerifier::check_voting_power of the authors of a set of votes.
check_voting_power(S) == \E Q \in Quorum : Q \subseteq {v.author : v \in S}

previously_seen(p, v) == {w \in p.author_to_vote : w.author = v.author}

EquivocateVote(p, v) == \E w \in previously_seen(p, v) : w.block # v.block

\* The same vote again, unless it is the first one to sign the timeout.
DuplicateVote(p, v) ==
    \E w \in previously_seen(p, v) : w.block = v.block /\ (is_timeout(v) => is_timeout(w))

\* The votes after v has been added to them.
Stored(p, v) == (p.author_to_vote \ previously_seen(p, v)) \cup {v}

NewQuorumCertificate(p, v) ==
    check_voting_power({w \in Stored(p, v) : w.block = v.block})

\* Mutant: every vote counts as a timeout.
Signed_Mutant(p, v) == Stored(p, v)

\* The timeouts after that of v, if it has one, has been added to them.
Signed(p, v) == p.partial_tc \cup (IF is_timeout(v) THEN {v} ELSE {})

NewTimeoutCertificate(p, v) == is_timeout(v) /\ check_voting_power(Signed(p, v))

\* insert_vote on a vote that is neither an equivocation nor a duplicate: a QC is
\* returned before the timeout of the vote is looked at.
AfterInsert(p, v) ==
    [author_to_vote |-> Stored(p, v),
     partial_tc |-> IF NewQuorumCertificate(p, v) THEN p.partial_tc ELSE Signed(p, v)]

\* The certificate over a quorum of timeouts carries the highest of their QCs.
TimeoutCertificate(S, r) ==
    LET hqcs == UNION {v.timeout : v \in S}
    IN  [round |-> r, hqc_round |-> CHOOSE h \in hqcs : \A g \in hqcs : g <= h]
================================================================================
