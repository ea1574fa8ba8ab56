------------------------------- MODULE VoterData -------------------------------
(***************************************************************************)
(* The SafetyData of a validator and the rules by which the protocol of an *)
(* epoch reads and writes it.                                              *)
(*                                                                         *)
(* A proposal is known by its epoch and round and by the rounds of the     *)
(* block its QC certifies and of the parent of that block; a vote is the   *)
(* proposal voted for.                                                     *)
(***************************************************************************)
EXTENDS VotingRules

CONSTANTS
    MaxEpoch,     \* bound on the epochs
    TwoChain,     \* [1..MaxEpoch -> BOOLEAN]: the on-chain ConsensusConfig::two_chain
    Proposals,    \* proposals it may be asked to vote for
    Timeouts,     \* timeouts it may be asked to sign
    TimeoutCerts  \* timeout certificates it may be shown

Epoch == 1..MaxEpoch

Proposal == [epoch : Nat, round : Nat, qc_round : Nat, qc_parent_round : Nat]

\* A timeout; of the 3-chain kind if it carries no QC (hqc_round is 0 then).
Timeout == [epoch : Nat, round : Nat, hqc_round : Nat]

\* The proposals pass Block::verify_well_formed; a local timeout is for the current
\* round, above the round of the highest QC; the certificates pass verify.
ASSUME InputAssumption ==
    /\ MaxEpoch \in Nat \ {0}
    /\ TwoChain \in [Epoch -> BOOLEAN]
    /\ Proposals \subseteq {p \in Proposal :
           p.epoch \in Epoch /\ p.qc_round < p.round /\ p.qc_parent_round <= p.qc_round}
    /\ Timeouts \subseteq {t \in Timeout : t.epoch \in Epoch /\ t.hqc_round < t.round}
    /\ TimeoutCerts \subseteq {tc \in [round : Nat, hqc_round : Nat] :
           tc = NoTC \/ tc.hqc_round < tc.round}

NoVote == [epoch |-> 0, round |-> 0, qc_round |-> 0, qc_parent_round |-> 0]

\* SafetyData::new(epoch, 0, 0, 0, None).
NewSafetyData(e) == [epoch |-> e, last_voted_round |-> 0, preferred_round |-> 0,
                     one_chain_round |-> 0, last_vote |-> NoVote]

SafetyData == [epoch : Nat, last_voted_round : Nat, preferred_round : Nat,
               one_chain_round : Nat, last_vote : Proposal]

\* The voting rules of the protocol of the epoch.
MayVote(sd, p, tc) ==
    /\ p.epoch = sd.epoch
    /\ sd.last_vote.round # p.round
    /\ IF TwoChain[p.epoch] THEN safe_to_vote(p.round, p.qc_round, tc)
                            ELSE verify_preferred_round(sd, p.qc_round)
    /\ verify_last_vote_round(sd, p.round)

\* The data recorded with a vote.
AfterVote(sd, p) ==
    [observe_qc([sd EXCEPT !.last_voted_round = p.round], p.qc_round, p.qc_parent_round)
        EXCEPT !.last_vote = p]

\* The timeout rules of the protocol of the epoch.
MayTimeout(sd, t, tc) ==
    /\ t.epoch = sd.epoch
    /\ IF TwoChain[t.epoch] THEN safe_to_timeout(sd, t.round, t.hqc_round, tc)
                            ELSE t.hqc_round = 0 /\ safe_to_sign_timeout(sd, t.round)
    /\ t.round >= sd.last_voted_round
================================================================================
