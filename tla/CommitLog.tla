------------------------------- MODULE CommitLog -------------------------------
(***************************************************************************)
(* BlockStore::commit at every node that follows the protocol: validators  *)
(* and full nodes alike hold a block store fed with the same certificates. *)
(***************************************************************************)
EXTENDS Chain

CONSTANT Node

VARIABLE committed     \* [Node -> Block]: the root of the node's block store

InitCommit == committed = [n \in Node |-> Genesis]

\* Mutant: commit does not look at the round of its root.
Commit_Mutant(n, b) == committed' = [committed EXCEPT ![n] = b]

\* A proof that b is committed reaches node n; only a higher round is news.
Commit(n, b) ==
    /\ round(b) > round(committed[n])
    /\ committed' = [committed EXCEPT ![n] = b]

L == INSTANCE Ledger WITH log <- committed

\* The node logs grow at the end only (the path BlockStore::commit looks for from
\* its root to the committed block exists, and its assert holds) and never diverge.
LedgerSpec == L!Spec
================================================================================
