-------------------------------- MODULE Ledger ---------------------------------
(***************************************************************************)
(* What consensus promises to the rest of a node: each node holds a log of *)
(* committed blocks that only ever grows at its end, and the logs of any   *)
(* two nodes never diverge.                                                *)
(***************************************************************************)
EXTENDS Chain

CONSTANT Node

VARIABLE log     \* [Node -> Block]: the last committed block, hence the path to it

Init == log = [n \in Node |-> Genesis]

Extend(n) ==
    /\ IsAncestor(log[n], log'[n])
    /\ \A m \in Node \ {n} : log'[m] = log[m] /\ ~Conflict(log'[n], log[m])

Next == log' \in [Node -> Block] /\ \E n \in Node : Extend(n)

Spec == Init /\ [][Next]_log
================================================================================
