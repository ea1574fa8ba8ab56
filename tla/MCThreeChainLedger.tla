-------------------------- MODULE MCThreeChainLedger ---------------------------
(***************************************************************************)
(* Instances of the 3-chain protocol with its block stores: four          *)
(* validators of equal voting power, one of them faulty, so that a quorum   *)
(* is any three (ValidatorVerifier: total * 2 / 3 + 1).                    *)
(***************************************************************************)
EXTENDS ThreeChainLedger, TLC

Symmetry == Permutations(Honest)
                \cup Permutations(Payload) \cup Permutations(Node)
================================================================================
