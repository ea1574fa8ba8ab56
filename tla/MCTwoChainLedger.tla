--------------------------- MODULE MCTwoChainLedger ----------------------------
(***************************************************************************)
(* Instances of the 2-chain protocol with its block stores: four          *)
(* validators of equal voting power, one of them faulty, so that a quorum   *)
(* is any three (ValidatorVerifier: total * 2 / 3 + 1).                    *)
(***************************************************************************)
EXTENDS TwoChainLedger, TLC

CONSTANT h1

\* A crash in the first round leaves two rounds for what follows from it.
MCCrashes == {<<h1, 1>>}

Symmetry == Permutations({v \in Honest : \A c \in Crashes : c[1] # v})
                \cup Permutations(Payload) \cup Permutations(Node)
================================================================================
