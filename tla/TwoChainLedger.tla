---------------------------- MODULE TwoChainLedger -----------------------------
(***************************************************************************)
(* The 2-chain protocol with the block stores that commit on its           *)
(* certificates.                                                           *)
(***************************************************************************)
EXTENDS TwoChainBFT, CommitLog

\* The blocks that the ledger info signed in some certificate commits.
CommitProofs ==
    {parent(b) : b \in {c \in Certified \ {Genesis} : commits_2chain(round(c), qc_round(c))}}

LInit == Init /\ InitCommit

LNext ==
    \/ Next /\ UNCHANGED committed
    \/ \E n \in Node, b \in CommitProofs : Commit(n, b) /\ UNCHANGED vars

LSpec == LInit /\ [][LNext]_<<vars, committed>>
================================================================================
