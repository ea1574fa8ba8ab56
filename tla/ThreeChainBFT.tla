---------------------------- MODULE ThreeChainBFT -----------------------------
(***************************************************************************)
(* One epoch of DiemBFT under the 3-chain rules, the default of            *)
(* ConsensusConfig.  Timeouts here carry only a round: all they do to      *)
(* safety is to use up rounds, so the messages themselves are not kept.    *)
(***************************************************************************)
EXTENDS Voting

vars3Chain == <<safety, votes>>

Init3Chain == InitVoting

\* construct_and_sign_vote when SafetyRules has not voted in the round.
VoteThreeChain(v, b) ==
    /\ round(safety[v].last_vote) # round(b)
    /\ verify_preferred_round(safety[v], qc_round(b))
    /\ verify_last_vote_round(safety[v], round(b))
    /\ RecordVote(v, b)

\* sign_timeout.
SignTimeout(v, r) ==
    /\ safe_to_sign_timeout(safety[v], r)
    /\ r >= safety[v].last_voted_round
    /\ safety' = [safety EXCEPT ![v] = record_timeout(safety[v], r)]
    /\ UNCHANGED votes

Next3Chain ==
    \/ \E b \in Proposals, v \in Honest : VoteThreeChain(v, b)
    \/ \E v \in Honest : ReturnLastVote(v)
    \/ \E v \in Honest, r \in 1..(MaxRound - 1) : SignTimeout(v, r)

Spec3Chain == Init3Chain /\ [][Next3Chain]_vars3Chain
--------------------------------------------------------------------------------
\* SafetyData and votes keep the Rust types' shape.
TypeOK3Chain == VotingTypeOK

\* A validator that voted for a block keeps to branches at least as high as the
\* parent of the block's QC in all its later votes, also across votes that were
\* persisted and sent only later.
PreferredRoundIsKept ==
    \A m, n \in votes :
        m.author = n.author /\ round(m.block) < round(n.block)
            => qc_parent_round(m.block) <= qc_round(n.block)

\* A block committed by the 3-chain rule is an ancestor of every block certified
\* in its round or later.
CommittedIsLocked3Chain ==
    \A b, c \in Certified :
        commits_3chain(round(b), qc_round(b), qc_parent_round(b))
                /\ round(c) >= qc_parent_round(b)
            => IsAncestor(parent(parent(b)), c)
================================================================================
