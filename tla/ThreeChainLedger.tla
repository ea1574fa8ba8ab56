---------------------------- MODULE ThreeChainLedger ----------------------------
(***************************************************************************)
(* The 3-chain protocol with the block stores that commit on its           *)
(* certificates.                                                           *)
(***************************************************************************)
EXTENDS ThreeChainBFT, CommitLog

\* The blocks that the ledger info signed in some certificate commits.
CommitProofs3Chain ==
    {parent(parent(b)) : b \in {c \in Certified :
        commits_3chain(round(c), qc_round(c), qc_parent_round(c))}}

LInit3Chain == Init3Chain /\ InitCommit

LNext3Chain ==
    \/ Next3Chain /\ UNCHANGED committed
    \/ \E n \in Node, b \in CommitProofs3Chain : Commit(n, b) /\ UNCHANGED vars3Chain

LSpec3Chain == LInit3Chain /\ [][LNext3Chain]_<<vars3Chain, committed>>
================================================================================
