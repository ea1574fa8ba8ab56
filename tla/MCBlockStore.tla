----------------------------- MODULE MCBlockStore ------------------------------
(***************************************************************************)
(* The block store under the 2-chain rule.  B(<<1, 2>>) is the block of    *)
(* round 2 on the block of round 1.                                        *)
(***************************************************************************)
EXTENDS BlockStore

CONSTANT p

B(rounds) == [i \in DOMAIN rounds |-> [round |-> rounds[i], payload |-> p]]

\* 1 commits genesis.  2 commits 1, but its QC is lost and 3 is on 1; 4 commits 3;
\* round 5 times out; 7 commits 6.
MCCerts == {B(<< >>), B(<<1>>), B(<<1, 2>>), B(<<1, 3>>), B(<<1, 3, 4>>),
            B(<<1, 3, 4, 6>>), B(<<1, 3, 4, 6, 7>>)}
\* With a proposal of round 5 that was not certified.
MCBlocks == MCCerts \cup {B(<<1, 3, 5>>)}

\* The QC that commits 2 is not on the path to the QC that commits 4.
ForkCerts == {B(<< >>), B(<<2>>), B(<<2, 3>>), B(<<2, 4>>), B(<<2, 4, 5>>)}

\* 3 commits 2, 6 commits 5.
LateCerts == {B(<< >>), B(<<2>>), B(<<2, 3>>), B(<<2, 3, 5>>), B(<<2, 3, 5, 6>>)}

\* Block 1 is certified in the round after genesis, and round 5 times out.
FirstCerts == {B(<< >>), B(<<1>>), B(<<1, 3>>), B(<<1, 3, 4>>), B(<<1, 3, 4, 6>>),
               B(<<1, 3, 4, 6, 7>>)}
================================================================================
