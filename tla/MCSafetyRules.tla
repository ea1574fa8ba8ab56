----------------------------- MODULE MCSafetyRules -----------------------------
(***************************************************************************)
(* SafetyRules on two epochs: the first runs the 3-chain protocol, the     *)
(* second the 2-chain protocol, and the consensus key is rotated between.  *)
(***************************************************************************)
EXTENDS SafetyRules

CONSTANTS k1, k2

P(e, r, qc, qp) == [epoch |-> e, round |-> r, qc_round |-> qc, qc_parent_round |-> qp]

MCTwoChain == <<FALSE, TRUE>>
MCProposals == {P(1, 1, 0, 0), P(1, 3, 2, 1), P(1, 4, 0, 0), P(1, 4, 3, 2),
                P(2, 1, 0, 0), P(2, 2, 0, 0), P(2, 2, 1, 0)}
MCTimeouts == [epoch : {1}, round : {2, 4}, hqc_round : {0}]
    \cup [epoch : {2}, round : {1, 2}, hqc_round : {0}]
    \cup [epoch : {2}, round : {2}, hqc_round : {1}]
MCTimeoutCerts == {NoTC} \cup [round : {1}, hqc_round : {0}]
MCExpectedKey == <<k1, k2>>
MCHeldKeys == {k1, k2}
================================================================================
