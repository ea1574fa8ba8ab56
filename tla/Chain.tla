--------------------------------- MODULE Chain ---------------------------------
(***************************************************************************)
(* Blocks and the parent relation.                                         *)
(*                                                                         *)
(* The id of a block hashes its BlockData, and the BlockData carries the   *)
(* quorum certificate of the parent, so an id determines the whole path to *)
(* genesis.  A block is therefore modelled as that path: the sequence of   *)
(* the <<round, payload>> entries from the first block after genesis to    *)
(* the block itself.  The payload stands for everything else that is       *)
(* hashed: transactions, author, timestamp, signatures inside the QC.      *)
(***************************************************************************)
EXTENDS Naturals, Sequences

CONSTANT Payload

Entry == [round : Nat \ {0}, payload : Payload]

Block == Seq(Entry)

Genesis == << >>

\* Block::round(); genesis has round 0.
round(b) == IF b = Genesis THEN 0 ELSE b[Len(b)].round

\* The block certified by block.quorum_cert(); genesis certifies itself.
parent(b) == SubSeq(b, 1, Len(b) - 1)

\* block.quorum_cert().certified_block().round()
qc_round(b) == round(parent(b))

\* block.quorum_cert().parent_block().round()
qc_parent_round(b) == round(parent(parent(b)))

\* The blocks a proposer can build on p in rounds R.
Children(p, R) == {Append(p, e) : e \in [round : R, payload : Payload]}

\* a is b or one of its ancestors.
IsAncestor(a, b) == Len(a) <= Len(b) /\ SubSeq(b, 1, Len(a)) = a

Conflict(a, b) == ~IsAncestor(a, b) /\ ~IsAncestor(b, a)
================================================================================
