-------------------------------- MODULE Voting ---------------------------------
(***************************************************************************)
(* The voters of one epoch and what their votes certify: the part that the *)
(* 2-chain and the 3-chain protocol share.                                 *)
(*                                                                         *)
(* Signed messages are never forgotten and reach anybody, in any order and *)
(* any number of times, or nobody: they are growing sets, and a step may   *)
(* use any certificate that can be assembled from them.  Faulty validators *)
(* are taken to have signed everything.                                    *)
(*                                                                         *)
(* safety[v] is the SafetyData in v's persistent storage.  A crash loses   *)
(* nothing of it; what a crash (or a failed answer of the storage) can     *)
(* lose is the signature that was about to be returned, so a signing step  *)
(* may end without its message being sent.                                 *)
(***************************************************************************)
EXTENDS Chain, VotingRules

CONSTANTS
    Validator,   \* the validators of the epoch
    Faulty,      \* those that need not follow the protocol
    Quorum,      \* sets of validators with quorum voting power
    Crashes,     \* <<v, r>>: v may fail between persisting a signature of round r and sending it
    MaxRound     \* bound: no proposal beyond this round, no timeout in it

Honest == Validator \ Faulty

ASSUME FaultyAssumption == Faulty \subseteq Validator /\ Crashes \subseteq Honest \X Nat

\* What ValidatorVerifier's threshold (more than 2/3 of the voting power) gives
\* when less than 1/3 of the voting power is faulty.
ASSUME QuorumAssumption ==
    /\ Quorum \subseteq SUBSET Validator
    /\ \A Q1, Q2 \in Quorum : Q1 \cap Q2 \cap Honest # {}

ASSUME MaxRoundAssumption == MaxRound \in Nat

VARIABLES
    safety,      \* [Honest -> SafetyData]
    votes        \* votes sent by honest validators

\* last_vote is the block voted for; Genesis stands for None.
SafetyData == [last_voted_round : Nat, preferred_round : Nat,
               one_chain_round : Nat, last_vote : Block]

Vote == [author : Honest, block : Block]

\* SafetyData::new of a new epoch, and no vote sent.
InitVoting ==
    /\ safety = [v \in Honest |-> [last_voted_round |-> 0, preferred_round |-> 0,
                                   one_chain_round |-> 0, last_vote |-> Genesis]]
    /\ votes = {}

VotingTypeOK == safety \in [Honest -> SafetyData] /\ votes \subseteq Vote

\* QuorumCert::verify: genesis needs no signature, any other block those of a quorum.
IsCertified(b) ==
    \E Q \in Quorum : \A v \in Q \ Faulty : [author |-> v, block |-> b] \in votes

Certified == {Genesis} \cup {b \in {m.block : m \in votes} : IsCertified(b)}

\* The proposals that pass verify_proposal: a certified parent of a lower round.
Proposals == UNION {Children(p, (round(p) + 1)..MaxRound) : p \in Certified}

\* The signature is returned and sent, or lost after the data was persisted.
SendVote(v, b) ==
    \/ votes' = votes \cup {[author |-> v, block |-> b]}
    \/ <<v, round(b)>> \in Crashes /\ votes' = votes

\* The end of construct_and_sign_vote and of its 2-chain form: the round and the
\* QC of the proposal are recorded with the vote, persisted, and the vote returned.
RecordVote(v, b) ==
    LET sd == [safety[v] EXCEPT !.last_voted_round = round(b)]
    IN  /\ safety' = [safety EXCEPT ![v] =
                [observe_qc(sd, qc_round(b), qc_parent_round(b)) EXCEPT !.last_vote = b]]
        /\ SendVote(v, b)

\* construct_and_sign_vote, in both forms, when SafetyRules has voted in the
\* round: the stored vote is returned, whichever block of that round is proposed
\* now.  The block of the stored vote is itself such a block, so the step is
\* always possible.
ReturnLastVote(v) ==
    /\ safety[v].last_vote # Genesis
    /\ SendVote(v, safety[v].last_vote)
    /\ UNCHANGED safety

\* The block store keeps one QC per round ("Safety invariant: For any two quorum
\* certificates qc1, qc2 in the block store, qc1 == qc2 || qc1.round != qc2.round"):
\* two certified blocks of a round are the same block.
OneCertifiedPerRound ==
    \A b, c \in Certified : round(b) = round(c) => b = c
================================================================================
