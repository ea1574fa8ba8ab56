--------------------------- MODULE BlockStoreProofs ----------------------------
(***************************************************************************)
(* Proofs about BlockStore for any certificates that agree with the voting *)
(* rules, under either commit rule: pruning, syncs and recovery leave the  *)
(* roots and the paths between them in the tree.  The proofs work with     *)
(* rounds: of two committed blocks the one of the lower round is an        *)
(* ancestor of the other.                                                  *)
(***************************************************************************)
EXTENDS BlockStore, SequenceTheorems, WellFoundedInduction, TLAPS

\* Chains.

\* A non-empty set of naturals has a least element.
LEMMA NatMinimum ==
    ASSUME NEW T \in SUBSET Nat, T # {}
    PROVE  \E x \in T : \A y \in T : x <= y
<1> DEFINE R == OpToRel(<, Nat)
<1>1. IsWellFoundedOn(R, Nat)
  BY Zenon, NatLessThanWellFounded
<1>2. PICK x \in T : \A y \in T : ~(<<y, x>> \in R)
  <2> HIDE DEF R
  <2> QED BY Zenon, <1>1, WFMin
<1>3. \A y \in T : ~(y < x)
  BY Zenon, <1>2 DEF OpToRel
<1> QED BY <1>3

\* The first blocks of a chain.
LEMMA Prefix ==
    ASSUME NEW c \in Block, NEW k \in 0..Len(c)
    PROVE  /\ SubSeq(c, 1, k) \in Block
           /\ Len(SubSeq(c, 1, k)) = k
           /\ \A i \in 1..k : SubSeq(c, 1, k)[i] = c[i]
<1>1. c \in Seq(Entry) /\ Len(c) \in Nat
  BY DEF Block
<1> QED BY <1>1 DEF Block

\* A prefix of a block's prefix is a prefix of the block.
LEMMA PrefixOfPrefix ==
    ASSUME NEW c \in Block, NEW n \in 0..Len(c), NEW k \in 0..n
    PROVE  SubSeq(SubSeq(c, 1, n), 1, k) = SubSeq(c, 1, k)
<1> DEFINE d == SubSeq(c, 1, n)
<1>1. Len(c) \in Nat /\ k \in 0..Len(c)
  BY DEF Block
<1>2. d \in Block /\ Len(d) = n /\ \A i \in 1..n : d[i] = c[i]
  BY Prefix
<1> HIDE DEF d
<1>3. /\ SubSeq(d, 1, k) \in Block /\ Len(SubSeq(d, 1, k)) = k
      /\ \A i \in 1..k : SubSeq(d, 1, k)[i] = d[i]
  BY <1>2, Prefix
<1>4. /\ SubSeq(c, 1, k) \in Block /\ Len(SubSeq(c, 1, k)) = k
      /\ \A i \in 1..k : SubSeq(c, 1, k)[i] = c[i]
  BY <1>1, Prefix
<1>5. \A i \in 1..k : SubSeq(d, 1, k)[i] = SubSeq(c, 1, k)[i]
  BY <1>2, <1>3, <1>4
<1>6. SubSeq(d, 1, k) = SubSeq(c, 1, k)
  BY <1>3, <1>4, <1>5, SeqEqual DEF Block
<1> QED BY <1>6 DEF d

\* A block is its own longest prefix.
LEMMA Whole == ASSUME NEW c \in Block PROVE Len(c) \in Nat /\ SubSeq(c, 1, Len(c)) = c
<1>1. c \in Seq(Entry) /\ Len(c) \in Nat
  BY DEF Block
<1>2. /\ SubSeq(c, 1, Len(c)) \in Block /\ Len(SubSeq(c, 1, Len(c))) = Len(c)
      /\ \A i \in 1..Len(c) : SubSeq(c, 1, Len(c))[i] = c[i]
  BY <1>1, Prefix
<1> QED BY <1>1, <1>2, SeqEqual DEF Block

\* Every block is on its own branch.
LEMMA SelfAncestor == ASSUME NEW a \in Block PROVE IsAncestor(a, a) /\ Path(a, a) = {}
BY Whole DEF IsAncestor, Path

\* An ancestor is no longer than its descendant, and of its length only the block itself.
LEMMA AncestorLength ==
    ASSUME NEW a \in Block, NEW b \in Block, IsAncestor(a, b)
    PROVE  /\ Len(a) \in Nat /\ Len(b) \in Nat /\ Len(a) <= Len(b) /\ a = SubSeq(b, 1, Len(a))
           /\ Len(a) = Len(b) => a = b
BY Whole DEF IsAncestor

\* Ancestors of ancestors are ancestors: parent links chain up.
LEMMA AncestorTransitive ==
    ASSUME NEW a \in Block, NEW b \in Block, NEW c \in Block, IsAncestor(a, b), IsAncestor(b, c)
    PROVE  IsAncestor(a, c)
<1>1. /\ Len(a) \in Nat /\ Len(b) \in Nat /\ Len(c) \in Nat /\ Len(a) <= Len(b) /\ Len(b) <= Len(c)
      /\ a = SubSeq(b, 1, Len(a)) /\ b = SubSeq(c, 1, Len(b))
  BY AncestorLength
<1>2. SubSeq(SubSeq(c, 1, Len(b)), 1, Len(a)) = SubSeq(c, 1, Len(a))
  BY <1>1, PrefixOfPrefix
<1> QED BY <1>1, <1>2 DEF IsAncestor

\* The blocks on the way from a to b.
LEMMA PathMember ==
    ASSUME NEW a \in Block, NEW b \in Block, IsAncestor(a, b), NEW x \in Path(a, b)
    PROVE  /\ x \in Block /\ x # a
           /\ IsAncestor(a, x) /\ IsAncestor(x, b)
           /\ Path(a, x) \subseteq Path(a, b)
<1>1. Len(a) \in Nat /\ Len(b) \in Nat /\ Len(a) <= Len(b) /\ a = SubSeq(b, 1, Len(a))
  BY AncestorLength
<1>2. PICK k \in (Len(a) + 1)..Len(b) : x = SubSeq(b, 1, k)
  BY DEF Path
<1>3. k \in 0..Len(b) /\ Len(a) \in 0..k
  BY <1>1, <1>2
<1>4. x \in Block /\ Len(x) = k
  BY <1>2, <1>3, Prefix
<1>5. \A j \in 0..k : SubSeq(x, 1, j) = SubSeq(b, 1, j)
  BY Zenon, <1>2, <1>3, PrefixOfPrefix
<1>6. IsAncestor(a, x) /\ IsAncestor(x, b) /\ x # a
  <2>1. SubSeq(x, 1, Len(a)) = a
    BY <1>1, <1>3, <1>5
  <2>2. Len(a) <= k /\ k <= Len(b) /\ k # Len(a)
    <3>1. Len(a) \in Nat /\ Len(b) \in Nat
      BY <1>1
    <3> QED BY <3>1
  <2> QED BY Zenon, <1>2, <1>4, <2>1, <2>2 DEF IsAncestor
<1>7. ASSUME NEW y \in Path(a, x) PROVE y \in Path(a, b)
  <2>1. PICK j \in (Len(a) + 1)..Len(x) : y = SubSeq(x, 1, j)
    BY DEF Path
  <2>2. j \in 0..k /\ j \in (Len(a) + 1)..Len(b)
    BY <1>1, <1>2, <1>4, <2>1
  <2>3. y = SubSeq(b, 1, j)
    BY Zenon, <1>5, <2>1, <2>2
  <2> QED BY <2>2, <2>3 DEF Path
<1> QED BY <1>4, <1>6, <1>7

\* A block between a and c.
LEMMA PathOn ==
    ASSUME NEW a \in Block, NEW b \in Block, NEW c \in Block, IsAncestor(a, b), IsAncestor(b, c)
    PROVE  /\ Path(b, c) \subseteq Path(a, c)
           /\ b = a \/ b \in Path(a, c)
<1>1. /\ Len(a) \in Nat /\ Len(b) \in Nat /\ Len(c) \in Nat /\ Len(a) <= Len(b) /\ Len(b) <= Len(c)
      /\ Len(a) = Len(b) => a = b
      /\ b = SubSeq(c, 1, Len(b))
  BY AncestorLength
<1>2. (Len(b) + 1)..Len(c) \subseteq (Len(a) + 1)..Len(c)
  BY <1>1
<1>3. Path(b, c) \subseteq Path(a, c)
  BY <1>2 DEF Path
<1>4. Len(b) # Len(a) => Len(b) \in (Len(a) + 1)..Len(c)
  BY <1>1
<1> QED BY Zenon, <1>1, <1>3, <1>4 DEF Path

\* A number of a path that is not its last one.
LEMMA NotTheLast == \A m, n \in Nat : \A k \in (m + 1)..n :
    k # n => k \in (m + 1)..(n - 1) /\ k \in 0..(n - 1)
OBVIOUS

\* A queue that is not empty has a head.
LEMMA HeadIsFirst ==
    ASSUME NEW S, NEW q \in Seq(S), q # << >>
    PROVE  1 \in 1..Len(q) /\ Head(q) = q[1]
BY HeadTailProperties, LenProperties, EmptySeq

\* A new block extends the path to its parent.
LEMMA PathToChild ==
    ASSUME NEW a \in Block, NEW b \in Block, b # Genesis, IsAncestor(a, parent(b))
    PROVE  /\ IsAncestor(a, b) /\ b # a
           /\ Path(a, b) \subseteq Path(a, parent(b)) \cup {b}
<1>1. Len(b) \in Nat /\ Len(b) # 0 /\ SubSeq(b, 1, Len(b)) = b
  BY Whole, EmptySeq DEF Genesis, Block
<1>2. Len(b) - 1 \in 0..Len(b)
  BY <1>1
<1>3. parent(b) \in Block /\ Len(parent(b)) = Len(b) - 1
  BY Zenon, <1>2, Prefix DEF parent
<1>4. \A k \in 0..(Len(b) - 1) : SubSeq(parent(b), 1, k) = SubSeq(b, 1, k)
  BY <1>2, PrefixOfPrefix DEF parent
<1>5. Len(a) \in Nat /\ Len(a) <= Len(b) - 1 /\ a = SubSeq(parent(b), 1, Len(a))
  BY <1>3, AncestorLength
<1>6. IsAncestor(a, b) /\ b # a
  BY <1>1, <1>4, <1>5 DEF IsAncestor
<1>7. ASSUME NEW x \in Path(a, b), x # b PROVE x \in Path(a, parent(b))
  <2>1. PICK k \in (Len(a) + 1)..Len(b) : x = SubSeq(b, 1, k)
    BY DEF Path
  <2>2. k \in (Len(a) + 1)..(Len(b) - 1) /\ k \in 0..(Len(b) - 1)
    <3>1. k # Len(b)
      BY Zenon, <1>1, <1>7, <2>1
    <3>2. Len(a) \in Nat /\ Len(b) \in Nat
      BY <1>1, <1>5
    <3> QED BY Zenon, <3>1, <3>2, NotTheLast
  <2>3. x = SubSeq(parent(b), 1, k)
    BY <1>4, <2>1, <2>2
  <2> QED BY <1>3, <2>2, <2>3 DEF Path
<1> QED BY <1>6, <1>7
--------------------------------------------------------------------------------
\* Certificates.

\* Rounds are naturals.
LEMMA RoundIsNat == ASSUME NEW b \in Block PROVE round(b) \in Nat
<1>1. CASE b = << >>
  BY <1>1 DEF round, Genesis
<1>2. CASE b # << >>
  <2>1. Len(b) \in 1..Len(b)
    BY <1>2 DEF Block
  <2>2. b[Len(b)] \in Entry
    BY <2>1, ElementOfSeq DEF Block
  <2> QED BY <1>2, <2>2 DEF Entry, round, Genesis
<1> QED BY <1>1, <1>2

\* The certified blocks are among the blocks, genesis is one, and rounds are naturals.
LEMMA CertFacts ==
    /\ Genesis \in Certs /\ Certs \subseteq Block /\ Blocks \subseteq Block /\ Certs \subseteq Blocks
    /\ \A b \in Blocks : b \in Block /\ round(b) \in Nat
    /\ \A b \in Certs : b \in Block /\ b \in Blocks /\ round(b) \in Nat
    /\ round(Genesis) = 0
<1>1. Blocks \subseteq Block
  BY CertsAssumption, BlocksAssumption
<1> QED BY <1>1, CertsAssumption, BlocksAssumption, RoundIsNat DEF round

\* The certified blocks are closed under ancestors.
LEMMA CertPrefix ==
    ASSUME NEW c \in Certs, NEW k \in 0..Len(c)
    PROVE  SubSeq(c, 1, k) \in Certs
<1> DEFINE T == {j \in 0..Len(c) : SubSeq(c, 1, Len(c) - j) \notin Certs}
<1>1. c \in Block /\ Len(c) \in Nat /\ SubSeq(c, 1, Len(c)) = c
  BY CertFacts, Whole
<1>2. T = {}
  <2> SUFFICES ASSUME T # {} PROVE FALSE
    OBVIOUS
  <2>1. T \in SUBSET Nat
    BY <1>1
  <2>2. PICK j \in T : \A i \in T : j <= i
    <3> HIDE DEF T
    <3> QED BY Zenon, <2>1, NatMinimum
  <2> DEFINE n == Len(c) - j + 1
             d == SubSeq(c, 1, n)
  <2>3. j \in 1..Len(c)
    <3>1. Len(c) - 0 = Len(c)
      BY <1>1
    <3>2. j # 0
      BY Zenon, <1>1, <2>2, <3>1
    <3> QED BY <1>1, <2>2, <3>2
  <2>4. j - 1 \in 0..Len(c) /\ j - 1 \notin T /\ Len(c) - (j - 1) = n /\ n \in 1..Len(c)
    BY <1>1, <2>2, <2>3
  <2>5. d \in Certs
    BY <2>4
  <2>6. d \in Block /\ Len(d) = n
    BY <1>1, <2>4, Prefix
  <2>7. d # Genesis
    <3>1. Len(Genesis) = 0
      BY DEF Genesis
    <3>2. Len(d) # 0
      BY <2>4, <2>6
    <3> QED BY Zenon, <3>1, <3>2
  <2>8. parent(d) \in Certs
    BY Zenon, <2>5, <2>7, CertsAssumption
  <2>9. parent(d) = SubSeq(c, 1, n - 1) /\ n - 1 = Len(c) - j
    <3>1. n - 1 \in 0..n /\ n \in 0..Len(c)
      BY <2>4
    <3>2. SubSeq(d, 1, n - 1) = SubSeq(c, 1, n - 1)
      BY <1>1, <3>1, PrefixOfPrefix
    <3> QED BY <1>1, <2>3, <2>6, <3>2 DEF parent
  <2> QED BY Zenon, <2>2, <2>8, <2>9
<1>3. Len(c) - k \in 0..Len(c) /\ Len(c) - (Len(c) - k) = k
  BY <1>1
<1> QED BY Zenon, <1>2, <1>3

\* Genesis, or what the QC of a certified block commits.
Committed(b) == b = Genesis \/ (b # NoBlock /\ \E c \in Certs : commit_info(c) = b)

\* What a QC commits is certified and not above it.
LEMMA CommitInfo ==
    ASSUME NEW c \in Certs, commit_info(c) # NoBlock
    PROVE  /\ commit_info(c) \in Certs /\ Committed(commit_info(c))
           /\ round(commit_info(c)) \in Nat /\ round(commit_info(c)) <= round(c)
<1>1. Committed(commit_info(c))
  BY DEF Committed
<1>2. commit_info(c) \in Certs /\ round(commit_info(c)) <= round(c)
  <2>1. CASE c = Genesis
    BY <2>1, CertFacts DEF commit_info
  <2>2. CASE c # Genesis
    <3>1. commit_info(c) \in {parent(c), parent(parent(c))}
      BY <2>2 DEF commit_info
    <3>2. parent(c) \in Certs /\ round(parent(c)) < round(c)
      BY <2>2, CertsAssumption DEF qc_round
    <3>3. parent(parent(c)) \in Certs /\ round(parent(parent(c))) <= round(parent(c))
      <4>1. CASE parent(c) = Genesis
        <5>1. parent(Genesis) = Genesis
          BY DEF parent, Genesis
        <5> QED BY <3>2, <4>1, <5>1, CertFacts
      <4>2. CASE parent(c) # Genesis
        BY <3>2, <4>2, CertsAssumption, CertFacts DEF qc_round
      <4> QED BY <4>1, <4>2
    <3> QED BY <3>1, <3>2, <3>3, CertFacts
  <2> QED BY <2>1, <2>2
<1> QED BY <1>1, <1>2, CertFacts

\* BlockInfo::empty() has round 0.
LEMMA NoBlockRound == round(NoBlock) = 0
BY DEF round, NoBlock, Genesis

\* A block that some commit info names is certified.
LEMMA CommittedIsCertified ==
    ASSUME NEW b, Committed(b) PROVE b \in Certs /\ b \in Block /\ round(b) \in Nat
BY CommitInfo, CertFacts DEF Committed

\* A committed block is an ancestor of the blocks certified in its round or later.
LEMMA Locked ==
    ASSUME NEW a, Committed(a), NEW c \in Certs, round(a) <= round(c)
    PROVE  IsAncestor(a, c)
<1>1. CASE a = Genesis
  <2>1. c \in Block /\ Len(c) \in Nat /\ Len(Genesis) = 0
    BY CertFacts, Whole DEF Genesis
  <2>2. SubSeq(c, 1, 0) = << >>
    BY SubSeqEmpty
  <2> QED BY <1>1, <2>1, <2>2 DEF IsAncestor, Genesis
<1>2. CASE a # Genesis
  <2>1. PICK b \in Certs : commit_info(b) = a /\ a # NoBlock
    BY <1>2 DEF Committed
  <2>2. round(c) >= round(a)
    BY CertFacts, CommittedIsCertified
  <2> QED BY <2>1, <2>2, CertsAssumption
<1> QED BY <1>1, <1>2
--------------------------------------------------------------------------------
\* The invariant.

\* Whatever is or becomes a root is a committed block.
CommittedOK ==
    /\ Committed(ledger) /\ Committed(ordered_root) /\ Committed(commit_root)
    /\ \A i \in 1..Len(callbacks) : Committed(callbacks[i])
    /\ \A b \in recommit : Committed(b)
    /\ Committed(sync.target)

\* The roots are in order, below the ledger and the highest QC.
RoundsOK ==
    /\ round(commit_root) <= round(ordered_root) /\ round(ordered_root) <= round(ledger)
    /\ round(ordered_root) <= round(highest_certified)
    /\ \A c \in qcs : round(c) <= round(highest_certified)
    /\ \A b \in recommit :
        round(ordered_root) <= round(b) /\ round(b) <= round(highest_certified)

\* The callbacks go up to the ordered root, from the commit root on if they are of
\* this tree.
CallbacksOK ==
    /\ \A i \in 1..Len(callbacks) :
        /\ round(callbacks[i]) <= round(ordered_root)
        /\ callbacks[i] \in tree => round(commit_root) <= round(callbacks[i])
    /\ \A i, j \in 1..Len(callbacks) : i < j => round(callbacks[i]) <= round(callbacks[j])

\* What descends from the commit root is linked to it and is not pruned.
TreeOK ==
    /\ {commit_root, ordered_root, highest_certified} \subseteq tree
    /\ highest_certified \in qcs
    /\ \A b \in tree : IsAncestor(commit_root, b) => Path(commit_root, b) \subseteq tree
    /\ \A b \in pruned : ~IsAncestor(commit_root, b)

\* Late callbacks can spoil the tree, and nothing else.
StoreInv ==
    /\ TypeOK /\ CommittedOK /\ RoundsOK /\ CallbacksOK
    /\ qcs \subseteq tree
    /\ ~late => TreeOK

\* Of committed blocks, a descendant has the higher round.
LEMMA CommittedRounds ==
    ASSUME NEW a, NEW b, Committed(a), Committed(b), IsAncestor(a, b)
    PROVE  round(a) <= round(b)
<1>1. a \in Certs /\ b \in Certs /\ a \in Block /\ b \in Block /\ round(a) \in Nat /\ round(b) \in Nat
  BY CommittedIsCertified
<1>2. CASE round(b) <= round(a)
  <2>1. IsAncestor(b, a)
    BY <1>1, <1>2, Locked
  <2>2. /\ Len(a) \in Nat /\ Len(b) \in Nat /\ Len(a) <= Len(b) /\ Len(b) <= Len(a)
        /\ Len(a) = Len(b) => a = b
    BY <1>1, <2>1, AncestorLength
  <2>3. a = b
    <3>1. Len(a) = Len(b)
      BY <2>2
    <3> QED BY <2>2, <3>1
  <2> QED BY <1>1, <2>3
<1> QED BY <1>1, <1>2

\* The rounds of what the variables hold.
LEMMA RoundTypes ==
    ASSUME TypeOK
    PROVE  /\ round(ledger) \in Nat /\ round(ordered_root) \in Nat /\ round(commit_root) \in Nat
           /\ round(highest_certified) \in Nat
           /\ \A c \in qcs : round(c) \in Nat
           /\ \A b \in recommit : round(b) \in Nat
           /\ Len(callbacks) \in Nat
           /\ \A i \in 1..Len(callbacks) : callbacks[i] \in Certs /\ round(callbacks[i]) \in Nat
<1>1. Len(callbacks) \in Nat /\ \A i \in 1..Len(callbacks) : callbacks[i] \in Certs
  BY ElementOfSeq, LenProperties DEF TypeOK
<1> QED BY <1>1, CertFacts DEF TypeOK

\* The invariant holds at first.
LEMMA InitStore == Init => StoreInv
<1> SUFFICES ASSUME Init PROVE StoreInv
  OBVIOUS
<1>1. Genesis \in Certs /\ Genesis \in Blocks /\ Genesis \in Block /\ Committed(Genesis)
  BY Zenon, CertFacts DEF Committed
<1>2. TypeOK
  BY Zenon, <1>1, EmptySeq DEF Init, TypeOK, NoSync
<1>3. CommittedOK
  BY <1>1 DEF Init, CommittedOK, NoSync
<1>4. RoundsOK /\ CallbacksOK
  <2>1. 1..Len(callbacks) = {}
    BY DEF Init
  <2>2. RoundsOK
    BY CertFacts DEF Init, RoundsOK
  <2>3. CallbacksOK
    BY Zenon, <2>1 DEF CallbacksOK
  <2> QED BY <2>2, <2>3
<1>5. TreeOK
  BY <1>1, SelfAncestor DEF Init, TreeOK
<1>6. qcs \subseteq tree
  BY DEF Init
<1> QED BY Zenon, <1>2, <1>3, <1>4, <1>5, <1>6 DEF StoreInv

\* commit() moves the ledger and the ordered root up and queues the callback last.
LEMMA CommitKeeps ==
    ASSUME StoreInv, NEW b, Committed(b), commit(b), UNCHANGED <<commit_root, tree>>
    PROVE  /\ ledger' = b /\ ordered_root' = b /\ b \in tree
           /\ round(ordered_root) <= round(b) /\ round(commit_root) <= round(b)
           /\ callbacks' \in Seq(Certs)
           /\ \A i \in 1..Len(callbacks') : Committed(callbacks'[i])
           /\ CallbacksOK'
<1>1. /\ ledger' = b /\ ordered_root' = b /\ b \in tree /\ IsAncestor(ledger, b)
      /\ callbacks' = Append(callbacks, b)
  BY DEF commit
<1>2. b \in Certs /\ round(b) \in Nat
  BY CommittedIsCertified
<1>3. /\ round(ledger) \in Nat /\ round(ordered_root) \in Nat /\ round(commit_root) \in Nat
      /\ Len(callbacks) \in Nat
      /\ \A i \in 1..Len(callbacks) : callbacks[i] \in Certs /\ round(callbacks[i]) \in Nat
  BY RoundTypes DEF StoreInv
<1>4. round(ordered_root) <= round(b) /\ round(commit_root) <= round(b)
  <2>1. round(ledger) <= round(b)
    BY <1>1, CommittedRounds DEF StoreInv, CommittedOK
  <2>2. round(commit_root) <= round(ordered_root) /\ round(ordered_root) <= round(ledger)
    BY DEF StoreInv, RoundsOK
  <2> QED BY <1>2, <1>3, <2>1, <2>2
<1>5. callbacks \in Seq(Certs)
  BY DEF StoreInv, TypeOK
<1>6. /\ callbacks' \in Seq(Certs) /\ Len(callbacks') = Len(callbacks) + 1
      /\ \A i \in 1..Len(callbacks) : callbacks'[i] = callbacks[i]
      /\ callbacks'[Len(callbacks) + 1] = b
  BY <1>1, <1>2, <1>5, AppendProperties
<1>7. \A i \in 1..Len(callbacks') : i \in 1..Len(callbacks) \/ i = Len(callbacks) + 1
  BY <1>3, <1>6
<1>8. \A i \in 1..Len(callbacks') : Committed(callbacks'[i])
  BY <1>6, <1>7 DEF StoreInv, CommittedOK
<1>9. CallbacksOK'
  <2>1. /\ \A i \in 1..Len(callbacks) :
             /\ round(callbacks[i]) <= round(ordered_root)
             /\ callbacks[i] \in tree => round(commit_root) <= round(callbacks[i])
        /\ \A i, j \in 1..Len(callbacks) : i < j => round(callbacks[i]) <= round(callbacks[j])
    BY DEF StoreInv, CallbacksOK
  <2>2. \A i \in 1..Len(callbacks') :
            /\ round(callbacks'[i]) <= round(b)
            /\ callbacks'[i] \in tree => round(commit_root) <= round(callbacks'[i])
    BY <1>2, <1>3, <1>4, <1>6, <1>7, <2>1
  <2>3. ASSUME NEW i \in 1..Len(callbacks'), NEW j \in 1..Len(callbacks'), i < j
        PROVE  round(callbacks'[i]) <= round(callbacks'[j])
    <3>1. i \in 1..Len(callbacks)
      BY <1>3, <1>6, <2>3
    <3>2. CASE j = Len(callbacks) + 1
      BY <1>6, <2>2, <3>2
    <3>3. CASE j \in 1..Len(callbacks)
      BY <1>6, <2>1, <2>3, <3>1, <3>3
    <3> QED BY <1>7, <3>2, <3>3
  <2> QED BY <1>1, <2>2, <2>3 DEF CallbacksOK
<1> QED BY <1>1, <1>4, <1>6, <1>8, <1>9

\* One round of try_commit's loop.
LEMMA TryCommitKeeps == StoreInv /\ TryCommit => StoreInv'
<1> SUFFICES ASSUME StoreInv, TryCommit PROVE StoreInv'
  OBVIOUS
<1>1. PICK b \in recommit : /\ \A c \in recommit : round(b) <= round(c)
                            /\ commit(b)
                            /\ recommit' = recommit \ {b}
  BY DEF TryCommit
<1>2. UNCHANGED <<db_blocks, db_qcs, tree, qcs, commit_root, highest_certified, highest_ordered,
                  pruned, sync, late, unsaved, orphan>>
  BY DEF TryCommit, db, history
<1>3. Committed(b) /\ round(b) <= round(highest_certified)
  BY Zenon, <1>1 DEF StoreInv, CommittedOK, RoundsOK
<1>4. /\ ledger' = b /\ ordered_root' = b /\ b \in tree
      /\ round(commit_root) <= round(b)
      /\ callbacks' \in Seq(Certs)
      /\ \A i \in 1..Len(callbacks') : Committed(callbacks'[i])
      /\ CallbacksOK'
  BY Zenon, <1>1, <1>2, <1>3, CommitKeeps
<1>5. b \in Certs /\ round(b) \in Nat
  BY <1>3, CommittedIsCertified
<1>6. TypeOK'
  BY Zenon, <1>1, <1>2, <1>4, <1>5 DEF StoreInv, TypeOK
<1>7. CommittedOK'
  BY Zenon, <1>1, <1>2, <1>3, <1>4 DEF StoreInv, CommittedOK
<1>8. RoundsOK'
  BY Zenon, <1>1, <1>2, <1>3, <1>4, <1>5 DEF StoreInv, RoundsOK
<1>9. qcs' \subseteq tree' /\ (~late' => TreeOK')
  BY <1>2, <1>4 DEF StoreInv, TreeOK
<1> QED BY <1>4, <1>6, <1>7, <1>8, <1>9 DEF StoreInv

\* execute_and_insert_block puts a block on one that is linked to the commit root.
LEMMA InsertBlockKeeps == ASSUME StoreInv, NEW b \in Blocks, InsertBlock(b) PROVE StoreInv'
<1>1. /\ b \notin tree /\ round(b) > round(ordered_root) /\ parent(b) \in tree /\ parent(b) \in qcs
      /\ IsAncestor(ledger, parent(b))
      /\ db_blocks' = db_blocks \cup {b} /\ tree' = tree \cup {b}
      /\ UNCHANGED <<db_qcs, ledger, qcs, ordered_root, commit_root, highest_certified,
                     highest_ordered, pruned, callbacks, sync, recommit, late, unsaved, orphan>>
  BY DEF InsertBlock, roots, history
<1>2. TypeOK'
  BY Zenon, <1>1 DEF StoreInv, TypeOK
<1>3. CommittedOK' /\ RoundsOK' /\ qcs' \subseteq tree'
  BY <1>1 DEF StoreInv, CommittedOK, RoundsOK
<1>5. CallbacksOK'
  <2>1. \A i \in 1..Len(callbacks) : callbacks[i] # b
    <3>1. round(b) \in Nat /\ round(ordered_root) \in Nat
      BY CertFacts, RoundTypes DEF StoreInv
    <3>2. \A i \in 1..Len(callbacks) :
              round(callbacks[i]) \in Nat /\ round(callbacks[i]) <= round(ordered_root)
      BY RoundTypes DEF StoreInv, CallbacksOK
    <3> QED BY <1>1, <3>1, <3>2
  <2> QED BY Zenon, <1>1, <2>1 DEF StoreInv, CallbacksOK
<1>4. ASSUME ~late' PROVE TreeOK'
  <2>1. b \in Block /\ round(ordered_root) \in Nat /\ round(commit_root) \in Nat /\ round(ledger) \in Nat
    BY CertFacts, RoundTypes DEF StoreInv
  <2>2. b # Genesis
    BY <1>1, <2>1, CertFacts
  <2>3. parent(b) \in Certs /\ parent(b) \in Block
    BY Zenon, <1>1, CertFacts DEF StoreInv, TypeOK
  <2>4. /\ Committed(commit_root) /\ ledger \in Certs /\ ledger \in Block /\ commit_root \in Block
        /\ round(commit_root) <= round(ledger)
    BY <2>1, CertFacts DEF StoreInv, TypeOK, CommittedOK, RoundsOK
  <2>5. IsAncestor(commit_root, parent(b))
    BY Zenon, <1>1, <2>3, <2>4, Locked, AncestorTransitive
  <2>6. Path(commit_root, b) \subseteq Path(commit_root, parent(b)) \cup {b}
    BY Zenon, <2>1, <2>2, <2>4, <2>5, PathToChild
  <2>8. TreeOK
    BY <1>1, <1>4 DEF StoreInv
  <2>7. Path(commit_root, parent(b)) \subseteq tree
    BY <1>1, <2>5, <2>8 DEF TreeOK
  <2>9. \A x \in pruned : ~IsAncestor(commit_root, x)
    BY <2>8 DEF TreeOK
  <2> QED BY <1>1, <2>6, <2>7, <2>8, <2>9 DEF TreeOK
<1> QED BY Zenon, <1>2, <1>3, <1>4, <1>5 DEF StoreInv

\* insert_single_quorum_cert keeps the highest QC the highest.
LEMMA QuorumCertKeeps ==
    ASSUME StoreInv, NEW c \in Certs, insert_single_quorum_cert(c)
    PROVE  /\ db_qcs' \subseteq Certs /\ qcs' \subseteq Certs
           /\ highest_certified' \in Certs /\ highest_ordered' \in Certs
           /\ c \in qcs' /\ highest_certified' \in tree
           /\ highest_certified \in qcs => highest_certified' \in qcs'
           /\ \A q \in qcs' : q \in tree /\ round(q) <= round(highest_certified')
           /\ round(highest_certified) <= round(highest_certified')
<1>1. /\ c \in tree /\ highest_certified \in tree /\ db_qcs' = db_qcs \cup {c} /\ qcs' = qcs \cup {c}
      /\ highest_certified' = IF round(c) > round(highest_certified) THEN c ELSE highest_certified
      /\ highest_ordered' \in {c, highest_ordered}
  BY Zenon DEF insert_single_quorum_cert
<1>2. /\ db_qcs \subseteq Certs /\ qcs \subseteq Certs
      /\ highest_certified \in Certs /\ highest_ordered \in Certs
      /\ qcs \subseteq tree
      /\ \A q \in qcs : round(q) <= round(highest_certified)
  BY DEF StoreInv, TypeOK, RoundsOK
<1>3. round(c) \in Nat /\ round(highest_certified) \in Nat /\ \A q \in qcs : round(q) \in Nat
  BY <1>2, CertFacts
<1>4. CASE round(c) > round(highest_certified)
  BY <1>1, <1>2, <1>3, <1>4
<1>5. CASE ~(round(c) > round(highest_certified))
  BY <1>1, <1>2, <1>3, <1>5
<1> QED BY <1>4, <1>5

\* fetch_quorum_cert's QC.
LEMMA InsertFetchedQCKeeps == ASSUME StoreInv, NEW c \in Certs, InsertFetchedQC(c) PROVE StoreInv'
<1>1. /\ insert_single_quorum_cert(c)
      /\ UNCHANGED <<db_blocks, ledger, tree, ordered_root, commit_root, pruned, callbacks,
                     sync, recommit, late, unsaved, orphan>>
  BY DEF InsertFetchedQC, history
<1>2. /\ db_qcs' \subseteq Certs /\ qcs' \subseteq Certs
      /\ highest_certified' \in Certs /\ highest_ordered' \in Certs
      /\ c \in qcs' /\ highest_certified' \in tree
      /\ highest_certified \in qcs => highest_certified' \in qcs'
      /\ \A q \in qcs' : q \in tree /\ round(q) <= round(highest_certified')
      /\ round(highest_certified) <= round(highest_certified')
  BY Zenon, <1>1, QuorumCertKeeps
<1>3. TypeOK'
  BY Zenon, <1>1, <1>2 DEF StoreInv, TypeOK
<1>4. CommittedOK' /\ CallbacksOK'
  BY Zenon, <1>1 DEF StoreInv, CommittedOK, CallbacksOK
<1>5. RoundsOK'
  <2>1. round(highest_certified') \in Nat
    BY <1>2, CertFacts
  <2>2. /\ round(ordered_root) \in Nat /\ round(highest_certified) \in Nat
        /\ \A b \in recommit : round(b) \in Nat
    BY Zenon, RoundTypes DEF StoreInv
  <2> QED BY <1>1, <1>2, <2>1, <2>2 DEF StoreInv, RoundsOK
<1>6. qcs' \subseteq tree' /\ (~late' => TreeOK')
  BY <1>1, <1>2 DEF StoreInv, TreeOK
<1> QED BY <1>3, <1>4, <1>5, <1>6 DEF StoreInv

\* insert_quorum_cert commits a block below the QC.
LEMMA InsertQuorumCertKeeps == ASSUME StoreInv, NEW c \in Certs, InsertQuorumCert(c) PROVE StoreInv'
<1> DEFINE b == commit_info(c)
<1>1. /\ recommit = {} /\ sync = NoSync
      /\ IF c \in qcs THEN UNCHANGED <<db_qcs, qcs, highest_certified, highest_ordered>>
                      ELSE insert_single_quorum_cert(c)
      /\ round(b) > round(ordered_root) /\ commit(b)
      /\ UNCHANGED <<db_blocks, tree, commit_root, pruned, sync, recommit, late, unsaved, orphan>>
  BY DEF InsertQuorumCert, Idle, history
<1>2. round(ordered_root) \in Nat
  BY RoundTypes DEF StoreInv
<1>3. b # NoBlock
  BY <1>1, <1>2, NoBlockRound
<1>4. b \in Certs /\ Committed(b) /\ round(b) \in Nat /\ round(b) <= round(c)
  BY <1>3, CommitInfo
<1>5. /\ db_qcs' \subseteq Certs /\ qcs' \subseteq Certs
      /\ highest_certified' \in Certs /\ highest_ordered' \in Certs
      /\ c \in qcs'
      /\ ~late => highest_certified' \in qcs' /\ highest_certified' \in tree
      /\ \A q \in qcs' : q \in tree /\ round(q) <= round(highest_certified')
  <2>1. CASE c \in qcs
    <3>1. UNCHANGED <<db_qcs, qcs, highest_certified, highest_ordered>>
      BY <1>1, <2>1
    <3> QED BY <2>1, <3>1 DEF StoreInv, TypeOK, TreeOK, RoundsOK
  <2>2. CASE c \notin qcs
    <3>1. insert_single_quorum_cert(c)
      BY <1>1, <2>2
    <3>2. ~late => highest_certified \in qcs
      BY DEF StoreInv, TreeOK
    <3> QED BY Zenon, <3>1, <3>2, QuorumCertKeeps
  <2> QED BY <2>1, <2>2
<1> HIDE DEF b
<1>6. /\ ledger' = b /\ ordered_root' = b /\ b \in tree
      /\ round(commit_root) <= round(b)
      /\ callbacks' \in Seq(Certs)
      /\ \A i \in 1..Len(callbacks') : Committed(callbacks'[i])
      /\ CallbacksOK'
  BY Zenon, <1>1, <1>4, CommitKeeps
<1>7. TypeOK'
  BY <1>1, <1>4, <1>5, <1>6 DEF StoreInv, TypeOK
<1>8. CommittedOK'
  BY Zenon, <1>1, <1>4, <1>6 DEF StoreInv, CommittedOK
<1>9. RoundsOK'
  <2>1. round(c) \in Nat /\ round(highest_certified') \in Nat /\ round(c) <= round(highest_certified')
    BY Zenon, <1>5, CertFacts
  <2> QED BY <1>1, <1>4, <1>5, <1>6, <2>1 DEF RoundsOK
<1>10. qcs' \subseteq tree' /\ (~late' => TreeOK')
  BY <1>1, <1>5, <1>6 DEF StoreInv, TreeOK
<1> QED BY Zenon, <1>6, <1>7, <1>8, <1>9, <1>10 DEF StoreInv

\* commit_callback leaves everything that descends from the new commit root.
LEMMA CallbackKeeps ==
    ASSUME StoreInv, CommitCallback, ~late'
    PROVE  /\ callbacks # << >> /\ commit_root' = Head(callbacks) /\ Head(callbacks) \in tree
           /\ \A x \in tree : IsAncestor(commit_root', x) => x \in tree'
           /\ \A x \in db_blocks : IsAncestor(commit_root', x) => x \in db_blocks'
           /\ \A x \in db_qcs : IsAncestor(commit_root', x) => x \in db_qcs'
           /\ \A x \in qcs : IsAncestor(commit_root', x) => x \in qcs'
           /\ tree' \subseteq tree /\ qcs' \subseteq qcs /\ qcs' \subseteq tree'
           /\ \A x \in pruned' : x \in Blocks /\ ~IsAncestor(commit_root', x)
           /\ db_blocks' \subseteq db_blocks /\ db_qcs' \subseteq db_qcs
<1> DEFINE b    == Head(callbacks)
           dead == find_blocks_to_prune(b)
<1>1. callbacks # << >>
  BY DEF CommitCallback
<1>2. /\ \/ db_blocks' = db_blocks \ dead /\ db_qcs' = db_qcs \ dead
         \/ db_blocks' = db_blocks /\ db_qcs' = db_qcs
      /\ commit_root' = IF round(b) > round(commit_root) THEN b ELSE commit_root
      /\ ~late /\ b \in tree
  BY Zenon DEF CommitCallback, db
<1>3. PICK gone \in SUBSET (pruned \cup dead) : /\ pruned' = (pruned \cup dead) \ gone
                                                /\ tree' = tree \ gone
                                                /\ qcs' = qcs \ gone
  BY Zenon DEF CommitCallback, kSubset
<1>4. 1 \in 1..Len(callbacks) /\ b = callbacks[1]
  <2>1. callbacks \in Seq(Certs)
    BY Zenon DEF StoreInv, TypeOK
  <2> QED BY Zenon, <1>1, <2>1, HeadIsFirst
<1>5. /\ b \in Certs /\ b \in Block /\ round(b) \in Nat
      /\ Committed(b) /\ round(commit_root) <= round(b)
  BY <1>2, <1>4, CommittedIsCertified DEF StoreInv, CommittedOK, CallbacksOK
<1>6. /\ Committed(commit_root) /\ commit_root \in Certs /\ commit_root \in Block
      /\ round(commit_root) \in Nat
  BY CommittedIsCertified DEF StoreInv, CommittedOK
<1>7. commit_root' = b
  <2>1. CASE round(b) > round(commit_root)
    BY <1>2, <2>1
  <2>2. CASE ~(round(b) > round(commit_root))
    <3>1. round(b) = round(commit_root)
      BY <1>5, <1>6, <2>2
    <3> QED BY Zenon, <1>2, <1>5, <1>6, <2>2, <3>1, CertsAssumption
  <2> QED BY <2>1, <2>2
<1>8. IsAncestor(commit_root, b)
  BY <1>5, <1>6, Locked
<1>9. dead \subseteq tree /\ \A x \in dead : ~IsAncestor(b, x)
  BY <1>8 DEF find_blocks_to_prune
<1>10. pruned \subseteq Blocks /\ tree \subseteq Blocks
  BY DEF StoreInv, TypeOK
<1>11. \A x \in pruned : ~IsAncestor(b, x)
  <2> SUFFICES ASSUME NEW x \in pruned, IsAncestor(b, x) PROVE FALSE
    OBVIOUS
  <2>1. x \in Block
    BY <1>10, CertFacts
  <2>2. IsAncestor(commit_root, x)
    BY <1>5, <1>6, <1>8, <2>1, AncestorTransitive
  <2> QED BY <1>2, <2>2 DEF StoreInv, TreeOK
<1> HIDE DEF dead, b
<1>12. \A x \in pruned \cup dead : x \in Blocks /\ ~IsAncestor(b, x)
  BY <1>9, <1>10, <1>11
<1>13. \A x \in gone : ~IsAncestor(b, x)
  BY <1>3, <1>12
<1>14. qcs \subseteq tree
  BY DEF StoreInv
<1>15. /\ \A x \in db_blocks : IsAncestor(b, x) => x \in db_blocks'
       /\ \A x \in db_qcs : IsAncestor(b, x) => x \in db_qcs'
       /\ db_blocks' \subseteq db_blocks /\ db_qcs' \subseteq db_qcs
  BY <1>2, <1>9
<1>16. /\ \A x \in tree : IsAncestor(b, x) => x \in tree'
       /\ \A x \in qcs : IsAncestor(b, x) => x \in qcs'
       /\ tree' \subseteq tree /\ qcs' \subseteq qcs /\ qcs' \subseteq tree'
       /\ \A x \in pruned' : x \in Blocks /\ ~IsAncestor(b, x)
  BY Zenon, <1>3, <1>12, <1>13, <1>14
<1> QED BY Zenon, <1>1, <1>2, <1>7, <1>15, <1>16 DEF b

\* A commit callback, of this tree or of an earlier one.
LEMMA CommitCallbackKeeps == ASSUME StoreInv, CommitCallback PROVE StoreInv'
<1> DEFINE b == Head(callbacks)
<1>1. /\ callbacks # << >> /\ callbacks' = Tail(callbacks)
      /\ commit_root' = IF round(b) > round(commit_root) THEN b ELSE commit_root
      /\ unsaved' \in {unsaved, unsaved \cup find_blocks_to_prune(b)}
      /\ db_blocks' \subseteq db_blocks /\ db_qcs' \subseteq db_qcs
      /\ UNCHANGED <<ledger, ordered_root, highest_certified, highest_ordered, sync, recommit,
                     orphan>>
  BY DEF CommitCallback, db
<1>2. PICK gone : /\ pruned' \subseteq pruned \cup find_blocks_to_prune(b)
                  /\ tree' = tree \ gone /\ qcs' = qcs \ gone
  BY Zenon DEF CommitCallback
<1>3. callbacks \in Seq(Certs)
  BY DEF StoreInv, TypeOK
<1>4. /\ Len(callbacks) \in Nat /\ Len(callbacks) > 0 /\ b = callbacks[1]
      /\ callbacks' \in Seq(Certs) /\ Len(callbacks') = Len(callbacks) - 1
      /\ \A i \in 1..Len(callbacks') : callbacks'[i] = callbacks[i + 1]
  BY <1>1, <1>3, HeadTailProperties, LenProperties, EmptySeq
<1>5. \A i \in 1..Len(callbacks') : i + 1 \in 1..Len(callbacks) /\ 1 < i + 1
  BY <1>4
<1>6. 1 \in 1..Len(callbacks)
  BY <1>4
<1>7. /\ \A i \in 1..Len(callbacks) :
           /\ round(callbacks[i]) <= round(ordered_root)
           /\ callbacks[i] \in tree => round(commit_root) <= round(callbacks[i])
      /\ \A i, j \in 1..Len(callbacks) : i < j => round(callbacks[i]) <= round(callbacks[j])
  BY DEF StoreInv, CallbacksOK
<1>8. /\ round(ledger) \in Nat /\ round(ordered_root) \in Nat /\ round(commit_root) \in Nat
      /\ round(highest_certified) \in Nat
  BY Zenon, RoundTypes DEF StoreInv
<1>9. /\ Committed(b) /\ b \in Certs /\ b \in Block /\ round(b) \in Nat
      /\ round(b) <= round(ordered_root)
  BY <1>4, <1>6, <1>7, CommittedIsCertified DEF StoreInv, CommittedOK
<1>10. find_blocks_to_prune(b) \subseteq tree /\ late' \in BOOLEAN
  BY DEF find_blocks_to_prune, CommitCallback
<1> HIDE DEF b
<1>11. Committed(commit_root') /\ commit_root' \in Certs /\ round(commit_root') <= round(ordered_root)
  BY <1>1, <1>9 DEF StoreInv, TypeOK, CommittedOK, RoundsOK
<1>12. TypeOK'
  <2>1. pruned' \subseteq Blocks /\ unsaved' \subseteq Blocks /\ tree' \subseteq Blocks /\ qcs' \subseteq Certs
    BY Zenon, <1>1, <1>2, <1>10 DEF StoreInv, TypeOK
  <2> QED BY <1>1, <1>4, <1>10, <1>11, <2>1 DEF StoreInv, TypeOK
<1>13. CommittedOK'
  <2>1. \A i \in 1..Len(callbacks') : Committed(callbacks'[i])
    BY <1>4, <1>5 DEF StoreInv, CommittedOK
  <2> QED BY Zenon, <1>1, <1>11, <2>1 DEF StoreInv, CommittedOK
<1>14. RoundsOK' /\ qcs' \subseteq tree'
  BY Zenon, <1>1, <1>2, <1>11 DEF StoreInv, RoundsOK
<1>15. CallbacksOK'
  <2>1. ASSUME NEW i \in 1..Len(callbacks')
        PROVE  /\ round(callbacks'[i]) <= round(ordered_root)
               /\ callbacks'[i] \in tree' => round(commit_root') <= round(callbacks'[i])
    <3>1. callbacks'[i] = callbacks[i + 1] /\ i + 1 \in 1..Len(callbacks) /\ 1 < i + 1
      BY <1>4, <1>5
    <3>2. round(b) <= round(callbacks[i + 1])
      BY Zenon, <1>4, <1>6, <1>7, <3>1
    <3>3. callbacks[i + 1] \in tree' => round(commit_root) <= round(callbacks[i + 1])
      BY Zenon, <1>2, <1>7, <3>1
    <3> QED BY <1>1, <1>7, <3>1, <3>2, <3>3
  <2>2. ASSUME NEW i \in 1..Len(callbacks'), NEW j \in 1..Len(callbacks'), i < j
        PROVE  round(callbacks'[i]) <= round(callbacks'[j])
    <3>1. i + 1 < j + 1
      BY <1>4, <2>2
    <3> QED BY <1>4, <1>5, <1>7, <3>1
  <2> QED BY Zenon, <1>1, <2>1, <2>2 DEF CallbacksOK
<1>16. ASSUME ~late' PROVE TreeOK'
  <2>0. /\ commit_root' = b /\ b \in tree
        /\ \A x \in tree : IsAncestor(b, x) => x \in tree'
        /\ \A x \in qcs : IsAncestor(b, x) => x \in qcs'
        /\ tree' \subseteq tree /\ qcs' \subseteq qcs /\ qcs' \subseteq tree'
        /\ \A x \in pruned' : x \in Blocks /\ ~IsAncestor(b, x)
    BY <1>16, CallbackKeeps DEF b
  <2>1. ~late /\ TreeOK /\ round(commit_root) <= round(b)
    <3>1. ~late
      BY Zenon, <1>16 DEF CommitCallback
    <3> QED BY <1>4, <1>6, <1>7, <2>0, <3>1 DEF StoreInv
  <2>2. /\ commit_root \in Block /\ Committed(commit_root) /\ commit_root \in tree
        /\ tree \subseteq Blocks
        /\ ordered_root \in Certs /\ ordered_root \in tree /\ ordered_root \in Block
        /\ highest_certified \in Certs /\ highest_certified \in tree /\ highest_certified \in qcs
        /\ round(ordered_root) <= round(highest_certified)
        /\ \A x \in tree : IsAncestor(commit_root, x) => Path(commit_root, x) \subseteq tree
    BY Zenon, <2>1, CertFacts DEF StoreInv, TypeOK, TreeOK, CommittedOK, RoundsOK
  <2>3. IsAncestor(commit_root, b) /\ IsAncestor(b, ordered_root)
    BY Zenon, <1>9, <2>1, <2>2, Locked
  <2>4. IsAncestor(b, highest_certified)
    <3>1. round(b) <= round(highest_certified)
      BY <1>8, <1>9, <2>2
    <3> QED BY Zenon, <1>9, <2>2, <3>1, Locked
  <2>5. b \in tree' /\ ordered_root \in tree' /\ highest_certified \in tree' /\ highest_certified \in qcs'
    BY Zenon, <1>9, <2>0, <2>2, <2>3, <2>4, SelfAncestor
  <2>6. ASSUME NEW x \in tree', IsAncestor(b, x), NEW y \in Path(b, x) PROVE y \in tree'
    <3>1. x \in tree /\ x \in Block
      BY Zenon, <2>0, <2>2, CertFacts
    <3>2. IsAncestor(commit_root, x)
      BY <1>9, <2>2, <2>3, <2>6, <3>1, AncestorTransitive
    <3>3. Path(b, x) \subseteq Path(commit_root, x)
      BY Zenon, <1>9, <2>2, <2>3, <2>6, <3>1, PathOn
    <3>4. y \in tree
      BY Zenon, <2>2, <2>6, <3>1, <3>2, <3>3
    <3>5. IsAncestor(b, y)
      BY Zenon, <1>9, <2>6, <3>1, PathMember
    <3> QED BY Zenon, <2>0, <3>4, <3>5
  <2>7. \A x \in tree' : IsAncestor(b, x) => Path(b, x) \subseteq tree'
    BY <2>6
  <2> QED BY Zenon, <1>1, <2>0, <2>5, <2>7 DEF TreeOK
<1> QED BY ZenonT(30), <1>12, <1>13, <1>14, <1>15, <1>16 DEF StoreInv

\* StorageWriteProxy::start and BlockStore::build link what they keep to the root.
LEMMA RecoverKeeps ==
    ASSUME StoreInv, NEW old, HasRoot(ledger, db_blocks, db_qcs),
           Recover(ledger, db_blocks, db_qcs, old),
           ledger' = ledger, callbacks' \in {callbacks, << >>}, sync' = NoSync
    PROVE  StoreInv'
<1> DEFINE root      == ledger
           kept      == Kept(root, db_blocks)
           certified == (db_qcs \cup {Genesis}) \cap kept
           commits   == {q \in certified : round(commit_info(q)) > round(root)}
           ordering  == IF commits = {}
                        THEN {q \in db_qcs \cup {Genesis} : commit_info(q) = root}
                        ELSE commits
<1>1. /\ db_blocks' = (db_blocks \cap kept) \ old
      /\ db_qcs' = (db_qcs \ (db_blocks \ kept)) \ old
      /\ tree' = kept /\ qcs' = certified
      /\ ordered_root' = root /\ commit_root' = root
      /\ highest_certified' \in certified
      /\ \A r \in certified : round(r) <= round(highest_certified')
      /\ highest_ordered' \in ordering
      /\ pruned' = {}
      /\ recommit' = {commit_info(q) : q \in commits}
      /\ late' = FALSE /\ unsaved' \subseteq kept /\ orphan' \in {NoBlock, highest_ordered'}
  BY DEF Recover
<1>2. /\ Committed(root) /\ root \in Certs /\ root \in Block /\ root \in Blocks /\ round(root) \in Nat
  BY CommittedIsCertified, CertFacts DEF StoreInv, CommittedOK
<1>3. db_blocks \subseteq Blocks /\ db_qcs \subseteq Certs /\ Genesis \in Certs
  BY Zenon, CertFacts DEF StoreInv, TypeOK
<1>4. /\ root \in kept /\ kept \subseteq Blocks
      /\ \A x \in kept : x = root \/ (x \in db_blocks /\ Reaches(root, x, db_blocks))
      /\ \A x \in db_blocks : Reaches(root, x, db_blocks) => x \in kept
  BY <1>2, <1>3 DEF Kept
<1>5. root \in certified
  BY <1>4 DEF HasRoot
<1> HIDE DEF kept
<1>6. certified \subseteq Certs /\ certified \subseteq kept
  BY <1>3
<1>7. ordering \subseteq Certs
  BY Zenon, <1>3
<1>8. \A q \in commits : /\ commit_info(q) \in Certs /\ Committed(commit_info(q))
                         /\ round(root) <= round(commit_info(q))
                         /\ round(commit_info(q)) <= round(highest_certified')
  <2> SUFFICES ASSUME NEW q \in commits
               PROVE  /\ commit_info(q) \in Certs /\ Committed(commit_info(q))
                      /\ round(root) <= round(commit_info(q))
                      /\ round(commit_info(q)) <= round(highest_certified')
    OBVIOUS
  <2>1. q \in certified /\ q \in Certs /\ round(commit_info(q)) > round(root)
    BY <1>6
  <2>2. commit_info(q) # NoBlock
    BY <1>2, <2>1, NoBlockRound
  <2>3. /\ commit_info(q) \in Certs /\ Committed(commit_info(q))
        /\ round(commit_info(q)) \in Nat /\ round(commit_info(q)) <= round(q)
    BY Zenon, <2>1, <2>2, CommitInfo
  <2>4. /\ round(q) \in Nat /\ round(highest_certified') \in Nat
        /\ round(q) <= round(highest_certified')
    BY Zenon, <1>1, <1>6, <2>1, CertFacts
  <2> QED BY <1>2, <2>1, <2>3, <2>4
<1> HIDE DEF certified, commits, ordering
<1>9. TypeOK'
  <2>1. recommit' \subseteq Certs
    BY Zenon, <1>1, <1>8
  <2>2. tree' \subseteq Blocks /\ qcs' \subseteq Certs /\ pruned' \subseteq Blocks
    BY Zenon, <1>1, <1>4, <1>6
  <2>3. db_blocks' \subseteq Blocks /\ db_qcs' \subseteq Certs
    BY <1>1, <1>3
  <2>4. {ledger, ordered_root, commit_root, highest_certified, highest_ordered}' \subseteq Certs
    BY Zenon, <1>1, <1>2, <1>6, <1>7
  <2>5. callbacks' \in Seq(Certs) /\ sync' \in [step : {"none", "saved", "synced"}, target : Certs]
    BY Zenon, <1>3, EmptySeq DEF NoSync, StoreInv, TypeOK
  <2>6. late' \in BOOLEAN /\ unsaved' \subseteq Blocks /\ orphan' \in Certs \cup {NoBlock}
    BY Zenon, <1>1, <1>4, <2>4
  <2> QED BY Zenon, <2>1, <2>2, <2>3, <2>4, <2>5, <2>6 DEF TypeOK
<1>10. CommittedOK'
  <2>1. \A b \in recommit' : Committed(b)
    BY <1>1, <1>8
  <2>2. Committed(sync'.target)
    BY DEF NoSync, Committed
  <2>3. \A i \in 1..Len(callbacks') : Committed(callbacks'[i])
    <3>1. \A i \in 1..Len(callbacks) : Committed(callbacks[i])
      BY DEF StoreInv, CommittedOK
    <3>2. 1..Len(<< >>) = {}
      OBVIOUS
    <3> QED BY Zenon, <3>1, <3>2
  <2> QED BY SMTT(30), <1>1, <1>2, <2>1, <2>2, <2>3 DEF CommittedOK
<1>11. RoundsOK'
  <2>1. \A b \in recommit' :
            round(root) <= round(b) /\ round(b) <= round(highest_certified')
    BY <1>1, <1>8
  <2> QED BY SMTT(30), <1>1, <1>2, <1>5, <2>1 DEF RoundsOK
<1>12. CallbacksOK'
  <2>1. CASE callbacks' = << >>
    BY <2>1 DEF CallbacksOK
  <2>2. CASE callbacks' = callbacks
    <3>1. ASSUME NEW i \in 1..Len(callbacks)
          PROVE  /\ round(callbacks[i]) <= round(root)
                 /\ callbacks[i] \in kept => round(root) <= round(callbacks[i])
      <4>1. /\ Committed(callbacks[i]) /\ round(callbacks[i]) \in Nat /\ round(ordered_root) \in Nat
            /\ round(callbacks[i]) <= round(ordered_root) /\ round(ordered_root) <= round(root)
        BY RoundTypes DEF StoreInv, CommittedOK, CallbacksOK, RoundsOK
      <4>2. ASSUME callbacks[i] \in kept PROVE round(root) <= round(callbacks[i])
        <5>1. IsAncestor(root, callbacks[i])
          BY Zenon, <1>2, <1>4, <4>2, SelfAncestor DEF Reaches
        <5> QED BY Zenon, <1>2, <4>1, <5>1, CommittedRounds
      <4> QED BY <1>2, <4>1, <4>2
    <3>2. \A i, j \in 1..Len(callbacks) : i < j => round(callbacks[i]) <= round(callbacks[j])
      BY DEF StoreInv, CallbacksOK
    <3> QED BY Zenon, <1>1, <2>2, <3>1, <3>2 DEF CallbacksOK
  <2> QED BY <2>1, <2>2
<1>13. TreeOK' /\ qcs' \subseteq tree'
  <2>1. ASSUME NEW x \in kept, IsAncestor(root, x), NEW y \in Path(root, x) PROVE y \in kept
    <3>1. x \in Block
      BY Zenon, <1>4, CertFacts
    <3>2. x # root
      BY Zenon, <1>2, <2>1, SelfAncestor
    <3>3. Path(root, x) \subseteq db_blocks
      BY Zenon, <1>4, <3>2 DEF Reaches
    <3>4. IsAncestor(root, y) /\ Path(root, y) \subseteq Path(root, x)
      BY Zenon, <1>2, <2>1, <3>1, PathMember
    <3>5. y \in db_blocks /\ Reaches(root, y, db_blocks)
      BY <2>1, <3>3, <3>4 DEF Reaches
    <3> QED BY Zenon, <1>4, <3>5
  <2>2. \A x \in kept : IsAncestor(root, x) => Path(root, x) \subseteq kept
    BY Zenon, <2>1
  <2> QED BY <1>1, <1>4, <1>6, <2>2 DEF TreeOK
<1> QED BY ZenonT(30), <1>9, <1>10, <1>11, <1>12, <1>13 DEF StoreInv

\* What a sync saves is certified.
LEMMA StartSyncKeeps == ASSUME StoreInv, NEW i \in SyncInfos, StartSync(i[1], i[2]) PROVE StoreInv'
<1> DEFINE c == i[1]
           l == i[2]
<1>1. /\ c \in Certs /\ l \notin {Genesis, NoBlock} /\ \E q \in Certs : l = commit_info(q)
  BY Zenon DEF SyncInfos
<1>2. /\ Committed(l) /\ l \in Certs /\ l # Genesis
  BY Zenon, <1>1, CommittedIsCertified DEF Committed
<1>3. c \in Block /\ l \in Block /\ parent(l) \in Certs /\ Certs \subseteq Blocks
  BY Zenon, <1>1, <1>2, CertFacts, CertsAssumption
<1>4. Path(l, c) \subseteq Certs
  <2> SUFFICES ASSUME NEW k \in (Len(l) + 1)..Len(c) PROVE SubSeq(c, 1, k) \in Certs
    BY Zenon DEF Path
  <2>1. Len(l) \in Nat /\ Len(c) \in Nat
    BY Zenon, <1>3, Whole
  <2>2. k \in 0..Len(c)
    BY SMTT(30), <2>1
  <2> QED BY Zenon, <1>1, <2>2, CertPrefix
<1> DEFINE fetched == Path(l, c) \cup {l}
           skipped == round(c) - round(l) > Len(c) - Len(l)
<1>5. /\ db_blocks' = db_blocks \cup fetched
      /\ db_qcs' = db_qcs \cup fetched \cup (IF skipped THEN {parent(l)} ELSE {})
      /\ sync' = [step |-> "saved", target |-> l]
      /\ UNCHANGED <<ledger, tree, qcs, ordered_root, commit_root, highest_certified,
                     highest_ordered, pruned, callbacks, recommit, late, unsaved, orphan>>
  BY DEF StartSync, roots, history
<1>6. fetched \subseteq Certs
  BY Zenon, <1>2, <1>4
<1> HIDE DEF fetched, skipped, c, l
<1>7. db_blocks' \subseteq Blocks /\ db_qcs' \subseteq Certs
  BY Zenon, <1>3, <1>5, <1>6 DEF StoreInv, TypeOK
<1>8. sync' \in [step : {"none", "saved", "synced"}, target : Certs] /\ sync'.target = l
  BY <1>2, <1>5
<1>9. TypeOK'
  BY Zenon, <1>5, <1>7, <1>8 DEF StoreInv, TypeOK
<1>10. CommittedOK'
  BY ZenonT(30), <1>2, <1>5, <1>8 DEF StoreInv, CommittedOK
<1>11. RoundsOK' /\ CallbacksOK' /\ qcs' \subseteq tree' /\ (~late' => TreeOK')
  BY <1>5 DEF StoreInv, RoundsOK, CallbacksOK, TreeOK
<1> QED BY Zenon, <1>9, <1>10, <1>11 DEF StoreInv

\* State sync moves the ledger to a committed block.
LEMMA SyncToKeeps == ASSUME StoreInv, SyncTo PROVE StoreInv'
<1>1. /\ \/ IsAncestor(ledger, sync.target) /\ ledger' = sync.target
         \/ ledger' = ledger
      /\ sync' \in {[sync EXCEPT !.step = "synced"], NoSync}
      /\ UNCHANGED <<db_blocks, db_qcs, tree, qcs, ordered_root, commit_root, highest_certified,
                     highest_ordered, pruned, callbacks, recommit, late, unsaved, orphan>>
  BY DEF SyncTo, db, roots, history
<1>2. /\ sync' \in [step : {"none", "saved", "synced"}, target : Certs]
      /\ sync'.target \in {sync.target, Genesis}
  <2>1. sync \in [step : {"none", "saved", "synced"}, target : Certs] /\ Genesis \in Certs
    BY CertFacts DEF StoreInv, TypeOK
  <2>2. CASE sync' = NoSync
    BY <2>1, <2>2 DEF NoSync
  <2>3. CASE sync' = [sync EXCEPT !.step = "synced"]
    BY ZenonT(30), <2>1, <2>3
  <2> QED BY Zenon, <1>1, <2>2, <2>3
<1>3. /\ Committed(ledger) /\ Committed(sync.target) /\ Committed(Genesis)
      /\ round(ordered_root) <= round(ledger)
  BY DEF StoreInv, CommittedOK, RoundsOK, Committed
<1>4. Committed(ledger') /\ ledger' \in Certs /\ round(ledger) <= round(ledger')
  <2>1. CASE IsAncestor(ledger, sync.target) /\ ledger' = sync.target
    BY Zenon, <1>3, <2>1, CommittedIsCertified, CommittedRounds
  <2>2. CASE ledger' = ledger
    BY <1>3, <2>2, CommittedIsCertified
  <2> QED BY Zenon, <1>1, <2>1, <2>2
<1>5. round(ordered_root) <= round(ledger')
  <2>1. round(ordered_root) \in Nat /\ round(ledger) \in Nat /\ round(ledger') \in Nat
    BY <1>4, RoundTypes, CertFacts DEF StoreInv
  <2> QED BY <1>3, <1>4, <2>1
<1>6. TypeOK'
  BY Zenon, <1>1, <1>2, <1>4 DEF StoreInv, TypeOK
<1>7. CommittedOK'
  BY <1>1, <1>2, <1>3, <1>4 DEF StoreInv, CommittedOK
<1>8. RoundsOK' /\ CallbacksOK' /\ qcs' \subseteq tree' /\ (~late' => TreeOK')
  BY <1>1, <1>5 DEF StoreInv, RoundsOK, CallbacksOK, TreeOK
<1> QED BY <1>6, <1>7, <1>8 DEF StoreInv

\* Every step keeps the invariant.
LEMMA NextStore == ASSUME StoreInv, [Next]_vars PROVE StoreInv'
<1>1. CASE UNCHANGED vars
  BY <1>1 DEF vars, db, roots, history, StoreInv, TypeOK, CommittedOK, RoundsOK, CallbacksOK, TreeOK
<1>2. CASE \E b \in Blocks : InsertBlock(b)
  BY <1>2, InsertBlockKeeps
<1>3. CASE \E c \in Certs : InsertFetchedQC(c) \/ InsertQuorumCert(c)
  BY <1>3, InsertFetchedQCKeeps, InsertQuorumCertKeeps
<1>4. CASE TryCommit
  BY Zenon, <1>4, TryCommitKeeps
<1>5. CASE CommitCallback
  BY <1>5, CommitCallbackKeeps
<1>6. CASE Restart
  BY <1>6, RecoverKeeps DEF Restart
<1>7. CASE \E i \in SyncInfos : StartSync(i[1], i[2])
  BY Zenon, <1>7, StartSyncKeeps
<1>8. CASE SyncTo
  BY <1>8, SyncToKeeps
<1>9. CASE Rebuild
  BY <1>9, RecoverKeeps DEF Rebuild
<1> QED BY ZenonT(30), <1>1, <1>2, <1>3, <1>4, <1>5, <1>6, <1>7, <1>8, <1>9 DEF Next

\* The roots and the callbacks stay ordered by round, and until a callback finds a
\* tree that is not its own everything above the commit root stays linked to it.
THEOREM StoreInvariant == Spec => []StoreInv
<1>1. Init => StoreInv
  BY InitStore
<1>2. StoreInv /\ [Next]_vars => StoreInv'
  BY NextStore
<1> QED BY <1>1, <1>2, PTL DEF Spec

\* The fields of BlockTree and BlockStore and the tables of ConsensusDB keep their types.
THEOREM TypeCorrect == Spec => []TypeOK
<1>1. StoreInv => TypeOK
  BY Zenon DEF StoreInv
<1> QED BY <1>1, StoreInvariant, PTL

\* BlockTree's "Root must exist", "Commit root must exist" and "Highest cerfified
\* block must exist", for any certificates and under either commit rule.
THEOREM RootsAlwaysExist == Spec => []RootsExist
<1>1. StoreInv => RootsExist
  <2> SUFFICES ASSUME StoreInv, ~late PROVE RootsExist
    BY Zenon DEF RootsExist
  <2>1. /\ ordered_root \in tree /\ commit_root \in tree /\ highest_certified \in tree
        /\ Committed(commit_root) /\ Committed(ordered_root)
        /\ ordered_root \in Certs /\ highest_certified \in Certs
        /\ ordered_root \in Block /\ highest_certified \in Block /\ commit_root \in Block
        /\ round(commit_root) <= round(ordered_root)
        /\ round(ordered_root) <= round(highest_certified)
        /\ \A b \in tree : IsAncestor(commit_root, b) => Path(commit_root, b) \subseteq tree
    BY Zenon, CertFacts DEF StoreInv, TypeOK, TreeOK, CommittedOK, RoundsOK
  <2>2. IsAncestor(commit_root, ordered_root) /\ IsAncestor(ordered_root, highest_certified)
    BY Zenon, <2>1, Locked
  <2>3. IsAncestor(commit_root, highest_certified)
    BY Zenon, <2>1, <2>2, AncestorTransitive
  <2>4. Path(ordered_root, highest_certified) \subseteq Path(commit_root, highest_certified)
    BY Zenon, <2>1, <2>2, PathOn
  <2> QED BY Zenon, <2>1, <2>2, <2>3, <2>4 DEF RootsExist, Reaches
<1> QED BY <1>1, StoreInvariant, PTL

\* BlockStore::commit's assert!(!blocks_to_commit.is_empty()) and the expect of the
\* path in send_for_execution: what a QC of the tree commits can be reached.
THEOREM CommitPathAlwaysExists == Spec => []CommitPathExists
<1>1. StoreInv => CommitPathExists
  <2> SUFFICES ASSUME StoreInv, ~late, NEW c \in qcs, round(commit_info(c)) > round(ordered_root)
               PROVE  Reaches(ordered_root, commit_info(c), tree)
    BY Zenon DEF CommitPathExists
  <2> DEFINE b == commit_info(c)
  <2>1. /\ c \in Certs /\ c \in Block /\ c \in tree
        /\ Committed(commit_root) /\ Committed(ordered_root)
        /\ ordered_root \in Certs /\ ordered_root \in Block /\ commit_root \in Block
        /\ round(commit_root) <= round(ordered_root)
        /\ \A x \in tree : IsAncestor(commit_root, x) => Path(commit_root, x) \subseteq tree
    BY CertFacts DEF StoreInv, TypeOK, TreeOK, CommittedOK, RoundsOK
  <2>2. round(ordered_root) \in Nat
    BY RoundTypes DEF StoreInv
  <2>3. b # NoBlock
    BY <2>2, NoBlockRound
  <2>4. b \in Certs /\ b \in Block /\ Committed(b) /\ round(b) \in Nat /\ round(b) <= round(c)
    BY Zenon, <2>1, <2>3, CommitInfo, CertFacts
  <2>5. round(ordered_root) <= round(b) /\ b # ordered_root
    BY <2>2, <2>4
  <2> HIDE DEF b
  <2>6. IsAncestor(commit_root, ordered_root) /\ IsAncestor(ordered_root, b) /\ IsAncestor(b, c)
    BY Zenon, <2>1, <2>4, <2>5, Locked
  <2>7. IsAncestor(ordered_root, c)
    BY Zenon, <2>1, <2>4, <2>6, AncestorTransitive
  <2>8. b \in Path(ordered_root, c)
    BY Zenon, <2>1, <2>4, <2>5, <2>6, PathOn
  <2>9. Path(ordered_root, b) \subseteq Path(ordered_root, c)
    BY Zenon, <2>1, <2>7, <2>8, PathMember
  <2>10. IsAncestor(commit_root, c) /\ Path(ordered_root, c) \subseteq Path(commit_root, c)
    BY Zenon, <2>1, <2>6, <2>7, AncestorTransitive, PathOn
  <2>11. Reaches(ordered_root, b, tree)
    BY Zenon, <2>1, <2>6, <2>9, <2>10 DEF Reaches
  <2> QED BY <2>11 DEF b
<1> QED BY <1>1, StoreInvariant, PTL
--------------------------------------------------------------------------------
\* The SyncInfo.

\* The highest ordered cert commits no less than the other QCs of the tree and what
\* try_commit has left, and unless its block was not in the DB it is below the
\* highest QC.
OrderedOK ==
    /\ commit_info(highest_ordered) # NoBlock
    /\ round(ordered_root) <= round(commit_info(highest_ordered))
    /\ \A c \in qcs : round(commit_info(c)) <= round(commit_info(highest_ordered))
    /\ \A b \in recommit : round(b) <= round(commit_info(highest_ordered))
    /\ highest_ordered # orphan => round(highest_ordered) <= round(highest_certified)

\* A QC commits a block of at most its own round.
LEMMA CommitRound ==
    ASSUME NEW c \in Certs
    PROVE  round(commit_info(c)) \in Nat /\ round(commit_info(c)) <= round(c)
<1>1. CASE commit_info(c) = NoBlock
  BY <1>1, NoBlockRound, CertFacts
<1>2. CASE commit_info(c) # NoBlock
  BY Zenon, <1>2, CommitInfo
<1> QED BY <1>1, <1>2

\* insert_single_quorum_cert chooses the ordered cert by what it commits.
LEMMA QuorumCertOrders ==
    ASSUME StoreInv, OrderedOK, NEW c \in Certs, insert_single_quorum_cert(c), orphan' = orphan
    PROVE  /\ commit_info(highest_ordered') # NoBlock
           /\ round(commit_info(highest_ordered)) <= round(commit_info(highest_ordered'))
           /\ \A q \in qcs' : round(commit_info(q)) <= round(commit_info(highest_ordered'))
           /\ highest_ordered' # orphan' => round(highest_ordered') <= round(highest_certified')
<1> DEFINE n(q) == round(commit_info(q))
<1>1. /\ qcs' = qcs \cup {c}
      /\ highest_ordered' = IF n(c) > n(highest_ordered) THEN c ELSE highest_ordered
  BY Zenon DEF insert_single_quorum_cert
<1>2. /\ c \in qcs' /\ \A q \in qcs' : round(q) <= round(highest_certified')
      /\ round(highest_certified) <= round(highest_certified') /\ highest_certified' \in Certs
  BY Zenon, QuorumCertKeeps
<1>3. highest_ordered \in Certs /\ highest_certified \in Certs /\ qcs \subseteq Certs
  BY Zenon DEF StoreInv, TypeOK
<1>4. \A q \in Certs : n(q) \in Nat /\ round(q) \in Nat
  BY Zenon, CommitRound, CertFacts
<1>5. /\ commit_info(highest_ordered) # NoBlock /\ \A q \in qcs : n(q) <= n(highest_ordered)
      /\ highest_ordered # orphan => round(highest_ordered) <= round(highest_certified)
  BY Zenon DEF OrderedOK
<1>6. CASE n(c) > n(highest_ordered)
  <2>1. highest_ordered' = c
    BY Zenon, <1>1, <1>6
  <2>2. commit_info(c) # NoBlock
    BY <1>3, <1>4, <1>6, NoBlockRound
  <2> HIDE DEF n
  <2>3. n(highest_ordered) <= n(c) /\ \A q \in qcs' : n(q) <= n(c)
    BY <1>1, <1>3, <1>4, <1>5, <1>6
  <2> QED BY Zenon, <1>2, <2>1, <2>2, <2>3 DEF n
<1>7. CASE ~(n(c) > n(highest_ordered))
  <2>1. highest_ordered' = highest_ordered
    BY Zenon, <1>1, <1>7
  <2> HIDE DEF n
  <2>2. n(highest_ordered) <= n(highest_ordered) /\ \A q \in qcs' : n(q) <= n(highest_ordered)
    BY <1>1, <1>3, <1>4, <1>5, <1>7
  <2>3. highest_ordered # orphan => round(highest_ordered) <= round(highest_certified')
    BY <1>2, <1>3, <1>4, <1>5
  <2> QED BY Zenon, <1>5, <2>1, <2>2, <2>3 DEF n
<1> QED BY Zenon, <1>6, <1>7

\* Recovery takes the QC that commits most as the ordered cert.
LEMMA RecoverOrders ==
    ASSUME StoreInv, NEW old, Recover(ledger, db_blocks, db_qcs, old)
    PROVE  OrderedOK'
<1> DEFINE n(q)      == round(commit_info(q))
           kept      == Kept(ledger, db_blocks)
           certified == (db_qcs \cup {Genesis}) \cap kept
           commits   == {q \in certified : n(q) > round(ledger)}
           ordering  == IF commits = {} THEN {q \in db_qcs \cup {Genesis} : commit_info(q) = ledger}
                                        ELSE commits
<1>1. /\ ordered_root' = ledger /\ qcs' = certified
      /\ highest_certified' \in certified /\ \A q \in certified : round(q) <= round(highest_certified')
      /\ highest_ordered' \in ordering /\ \A q \in ordering : n(q) <= n(highest_ordered')
      /\ recommit' = {commit_info(q) : q \in commits}
      /\ orphan' = IF highest_ordered' \in kept THEN NoBlock ELSE highest_ordered'
  BY Zenon DEF Recover
<1>2. /\ ledger \in Certs /\ ledger # NoBlock /\ round(ledger) \in Nat
      /\ db_qcs \cup {Genesis} \subseteq Certs
  <2>1. ledger \in Certs /\ db_qcs \subseteq Certs /\ Committed(ledger)
    BY Zenon DEF StoreInv, TypeOK, CommittedOK
  <2>2. ledger # NoBlock
    <3>1. Genesis # NoBlock
      BY DEF Genesis, NoBlock
    <3> QED BY Zenon, <2>1, <3>1 DEF Committed
  <2> QED BY Zenon, <2>1, <2>2, CertFacts
<1>3. \A q \in certified : q \in Certs /\ n(q) \in Nat
  BY Zenon, <1>2, CommitRound
<1> HIDE DEF kept, n
<1>4. highest_ordered' # orphan' => round(highest_ordered') <= round(highest_certified')
  <2>1. highest_ordered' \in db_qcs \cup {Genesis}
    BY Zenon, <1>1
  <2> QED BY Zenon, <1>1, <2>1
<1>5. CASE commits = {}
  <2>1. commit_info(highest_ordered') = ledger
    BY Zenon, <1>1, <1>5
  <2>2. \A q \in certified : n(q) <= round(ledger)
    BY <1>2, <1>3, <1>5
  <2>3. recommit' = {}
    BY Zenon, <1>1, <1>5
  <2>4. round(ledger) <= round(ledger)
    BY <1>2
  <2> QED BY Zenon, <1>1, <1>2, <1>4, <2>1, <2>2, <2>3, <2>4 DEF OrderedOK, n
<1>6. CASE commits # {}
  <2>1. highest_ordered' \in commits /\ \A q \in commits : n(q) <= n(highest_ordered')
    BY Zenon, <1>1, <1>6
  <2>2. n(highest_ordered') > round(ledger) /\ n(highest_ordered') \in Nat
    BY Zenon, <1>3, <2>1
  <2>3. round(ledger) <= n(highest_ordered') /\ n(highest_ordered') # 0
    BY <1>2, <2>2
  <2>4. commit_info(highest_ordered') # NoBlock
    BY Zenon, <2>3, NoBlockRound DEF n
  <2>5. ASSUME NEW q \in certified PROVE n(q) <= n(highest_ordered')
    <3>1. CASE q \in commits
      BY Zenon, <2>1, <3>1
    <3>2. CASE q \notin commits
      BY <1>2, <1>3, <2>2, <3>2
    <3> QED BY Zenon, <3>1, <3>2
  <2>6. \A b \in recommit' : round(b) <= n(highest_ordered')
    BY Zenon, <1>1, <2>1 DEF n
  <2> QED BY Zenon, <1>1, <1>4, <2>3, <2>4, <2>5, <2>6 DEF OrderedOK, n
<1> QED BY Zenon, <1>5, <1>6

\* A step keeps the ordered cert above what is ordered.
LEMMA NextOrdered == ASSUME StoreInv, OrderedOK, [Next]_vars PROVE OrderedOK'
<1> DEFINE n(q) == round(commit_info(q))
<1>0. n(highest_ordered) \in Nat
  BY Zenon, CommitRound DEF StoreInv, TypeOK
<1>1. CASE UNCHANGED vars
  BY Zenon, <1>1 DEF vars, roots, history, OrderedOK
<1>2. ASSUME NEW b \in Blocks, InsertBlock(b) PROVE OrderedOK'
  BY Zenon, <1>2 DEF InsertBlock, roots, history, OrderedOK
<1>3. ASSUME NEW c \in Certs, insert_single_quorum_cert(c), orphan' = orphan
      PROVE  /\ commit_info(highest_ordered') # NoBlock
             /\ \A q \in qcs' : n(q) <= n(highest_ordered')
             /\ \A x : round(x) \in Nat /\ round(x) <= n(highest_ordered)
                          => round(x) <= n(highest_ordered')
             /\ highest_ordered' # orphan' => round(highest_ordered') <= round(highest_certified')
  <2>1. highest_ordered' \in Certs
    BY Zenon, <1>3, QuorumCertKeeps
  <2>2. n(highest_ordered') \in Nat /\ n(highest_ordered) <= n(highest_ordered')
    BY Zenon, <1>3, <2>1, CommitRound, QuorumCertOrders
  <2> HIDE DEF n
  <2>3. \A x : round(x) \in Nat /\ round(x) <= n(highest_ordered) => round(x) <= n(highest_ordered')
    BY <1>0, <2>2
  <2> QED BY Zenon, <1>3, <2>3, QuorumCertOrders DEF n
<1>4. /\ round(ordered_root) \in Nat /\ \A b \in recommit : round(b) \in Nat
  BY Zenon, RoundTypes DEF StoreInv
<1>5. ASSUME NEW c \in Certs, InsertFetchedQC(c) PROVE OrderedOK'
  <2>1. insert_single_quorum_cert(c) /\ UNCHANGED <<ordered_root, recommit, orphan>>
    BY Zenon, <1>5 DEF InsertFetchedQC, history
  <2> QED BY Zenon, <1>3, <1>4, <2>1 DEF OrderedOK
<1>6. ASSUME NEW c \in Certs, InsertQuorumCert(c) PROVE OrderedOK'
  <2>1. /\ ordered_root' = commit_info(c) /\ UNCHANGED <<recommit, orphan>>
        /\ \/ c \in qcs /\ UNCHANGED <<qcs, highest_certified, highest_ordered>>
           \/ insert_single_quorum_cert(c)
    BY Zenon, <1>6 DEF InsertQuorumCert, commit, history
  <2>2. CASE c \in qcs /\ UNCHANGED <<qcs, highest_certified, highest_ordered>>
    BY Zenon, <2>1, <2>2 DEF OrderedOK
  <2>3. CASE insert_single_quorum_cert(c)
    <3>1. c \in qcs'
      BY Zenon, <2>3, QuorumCertKeeps
    <3> QED BY Zenon, <1>3, <1>4, <2>1, <2>3, <3>1 DEF OrderedOK
  <2> QED BY Zenon, <2>1, <2>2, <2>3
<1>7. CASE TryCommit
  <2>1. PICK b \in recommit : commit(b) /\ recommit' = recommit \ {b}
    BY Zenon, <1>7 DEF TryCommit
  <2>2. ordered_root' = b /\ UNCHANGED <<qcs, highest_certified, highest_ordered, orphan>>
    BY Zenon, <1>7, <2>1 DEF TryCommit, commit, history
  <2> QED BY Zenon, <2>1, <2>2 DEF OrderedOK
<1>8. CASE CommitCallback
  <2>1. qcs' \subseteq qcs
    BY Zenon, <1>8 DEF CommitCallback
  <2>2. UNCHANGED <<ordered_root, highest_certified, highest_ordered, recommit, orphan>>
    BY Zenon, <1>8 DEF CommitCallback
  <2> QED BY Zenon, <2>1, <2>2 DEF OrderedOK
<1>9. CASE Restart
  BY Zenon, <1>9, RecoverOrders DEF Restart
<1>10. ASSUME NEW i \in SyncInfos, StartSync(i[1], i[2]) PROVE OrderedOK'
  BY Zenon, <1>10 DEF StartSync, roots, history, OrderedOK
<1>11. CASE SyncTo
  BY Zenon, <1>11 DEF SyncTo, roots, history, OrderedOK
<1>12. CASE Rebuild
  BY Zenon, <1>12, RecoverOrders DEF Rebuild
<1> QED BY ZenonT(30), <1>1, <1>2, <1>5, <1>6, <1>7, <1>8, <1>9, <1>10, <1>11, <1>12 DEF Next

\* Peers accept the SyncInfo that BlockStore::sync_info makes, whatever callbacks,
\* syncs and restarts do, unless its ordered cert was in the DB without the block.
THEOREM SyncInfoStaysValid == Spec => []SyncInfoIsValid
<1>1. Init => StoreInv /\ OrderedOK
  <2> SUFFICES ASSUME Init PROVE OrderedOK
    BY InitStore
  <2>1. commit_info(Genesis) = Genesis /\ round(Genesis) = 0 /\ Genesis # NoBlock
    BY CertFacts DEF commit_info, Genesis, NoBlock
  <2> QED BY <2>1 DEF Init, OrderedOK
<1>2. StoreInv /\ OrderedOK /\ [Next]_vars => (StoreInv /\ OrderedOK)'
  BY Zenon, NextStore, NextOrdered
<1>3. StoreInv /\ OrderedOK => SyncInfoIsValid
  <2> SUFFICES ASSUME StoreInv, OrderedOK, highest_ordered # orphan PROVE SyncInfoAlwaysValid
    BY Zenon DEF SyncInfoIsValid
  <2> DEFINE n == round(commit_info(highest_ordered))
  <2>1. /\ round(commit_root) \in Nat /\ round(ordered_root) \in Nat
        /\ round(highest_certified) \in Nat /\ highest_ordered \in Certs
    BY Zenon, RoundTypes DEF StoreInv, TypeOK
  <2>2. n \in Nat /\ n <= round(highest_ordered) /\ round(highest_ordered) \in Nat
    BY Zenon, <2>1, CommitRound, CertFacts
  <2>3. round(commit_root) <= round(ordered_root) /\ round(ordered_root) <= n
    BY Zenon DEF StoreInv, RoundsOK, OrderedOK
  <2>4. /\ commit_info(highest_ordered) # NoBlock
        /\ round(highest_ordered) <= round(highest_certified)
    BY Zenon DEF OrderedOK
  <2> HIDE DEF n
  <2> QED BY <2>1, <2>2, <2>3, <2>4 DEF SyncInfoAlwaysValid
<1> QED BY <1>1, <1>2, <1>3, PTL DEF Spec
--------------------------------------------------------------------------------
\* The DB.

\* What the tree has above the commit root is in the DB, or known to be lost.
DbOK ==
    /\ \A b \in tree : IsAncestor(commit_root, b) /\ b # commit_root => b \in db_blocks \cup unsaved
    /\ \A c \in qcs : IsAncestor(commit_root, c) /\ c # commit_root => c \in db_qcs \cup unsaved

StoredInv == StoreInv /\ (~late => DbOK)

\* What recovery keeps is still in the DB, unless it was in the old tree.
LEMMA RecoverStores ==
    ASSUME StoreInv, NEW old, Recover(ledger, db_blocks, db_qcs, old)
    PROVE  DbOK'
<1> DEFINE kept      == Kept(ledger, db_blocks)
           certified == (db_qcs \cup {Genesis}) \cap kept
<1>1. /\ db_blocks' = (db_blocks \cap kept) \ old
      /\ db_qcs' = (db_qcs \ (db_blocks \ kept)) \ old
      /\ tree' = kept /\ qcs' = certified /\ commit_root' = ledger
      /\ old \cap kept \subseteq unsaved'
  BY DEF Recover
<1>2. \A x \in kept : x = ledger \/ x \in db_blocks
  BY DEF Kept
<1>3. IsAncestor(ledger, Genesis) => ledger = Genesis
  <2>1. ledger \in Block /\ Genesis \in Block
    BY CertFacts DEF StoreInv, TypeOK
  <2>2. Len(Genesis) = 0
    BY DEF Genesis
  <2> QED BY <2>1, <2>2, AncestorLength
<1> HIDE DEF kept
<1>4. \A x \in tree' : x # commit_root' => x \in db_blocks' \cup unsaved'
  BY Zenon, <1>1, <1>2
<1>5. \A x \in qcs' : IsAncestor(commit_root', x) /\ x # commit_root' => x \in db_qcs' \cup unsaved'
  BY Zenon, <1>1, <1>3
<1> QED BY Zenon, <1>4, <1>5 DEF DbOK

\* A step keeps the tree in the DB.
LEMMA NextStored == ASSUME StoredInv, [Next]_vars PROVE StoredInv'
<1> SUFFICES ASSUME ~late' PROVE DbOK'
  BY NextStore DEF StoredInv
<1>0. StoreInv /\ StoreInv' /\ (~late => DbOK)
  BY Zenon, NextStore DEF StoredInv
<1>1. CASE UNCHANGED vars
  BY Zenon, <1>0, <1>1 DEF vars, db, roots, history, DbOK
<1>2. ASSUME NEW b \in Blocks, InsertBlock(b) PROVE DbOK'
  BY Zenon, <1>0, <1>2 DEF InsertBlock, roots, history, DbOK
<1>3. ASSUME NEW c \in Certs, InsertFetchedQC(c) PROVE DbOK'
  BY Zenon, <1>0, <1>3 DEF InsertFetchedQC, insert_single_quorum_cert, history, DbOK
<1>4. ASSUME NEW c \in Certs, InsertQuorumCert(c) PROVE DbOK'
  <2>1. /\ UNCHANGED <<db_blocks, tree, commit_root, late, unsaved>>
        /\ \/ UNCHANGED <<db_qcs, qcs>>
           \/ db_qcs' = db_qcs \cup {c} /\ qcs' = qcs \cup {c}
    BY Zenon, <1>4 DEF InsertQuorumCert, insert_single_quorum_cert, history
  <2> QED BY Zenon, <1>0, <2>1 DEF DbOK
<1>5. CASE TryCommit
  <2>1. UNCHANGED <<db_blocks, db_qcs, tree, qcs, commit_root, late, unsaved>>
    BY <1>5 DEF TryCommit, db, history
  <2> QED BY Zenon, <1>0, <2>1 DEF DbOK
<1>6. CASE CommitCallback
  <2>1. ~late /\ unsaved \subseteq unsaved'
    BY Zenon, <1>6 DEF CommitCallback
  <2>2. /\ \A x \in db_blocks : IsAncestor(commit_root', x) => x \in db_blocks'
        /\ \A x \in db_qcs : IsAncestor(commit_root', x) => x \in db_qcs'
        /\ tree' \subseteq tree /\ qcs' \subseteq qcs /\ qcs' \subseteq tree'
        /\ commit_root' = Head(callbacks) /\ Head(callbacks) \in tree /\ callbacks # << >>
    BY Zenon, <1>0, <1>6, CallbackKeeps
  <2>3. \A x \in tree' : IsAncestor(commit_root', x) /\ x # commit_root'
            => IsAncestor(commit_root, x) /\ x # commit_root
    <3> SUFFICES ASSUME NEW x \in tree', IsAncestor(commit_root', x), x # commit_root'
                 PROVE  IsAncestor(commit_root, x) /\ x # commit_root
      BY Zenon
    <3>1. callbacks \in Seq(Certs)
      BY <1>0 DEF StoreInv, TypeOK
    <3>2. 1 \in 1..Len(callbacks) /\ commit_root' = callbacks[1]
      BY Zenon, <2>2, <3>1, HeadIsFirst
    <3>3. /\ Committed(commit_root) /\ Committed(commit_root')
          /\ round(commit_root) <= round(commit_root')
      BY Zenon, <1>0, <2>2, <3>2 DEF StoreInv, CommittedOK, CallbacksOK
    <3>4. /\ commit_root \in Block /\ commit_root' \in Block /\ commit_root' \in Certs /\ x \in Block
      BY Zenon, <1>0, <3>3, CommittedIsCertified, CertFacts DEF StoreInv, TypeOK
    <3>5. IsAncestor(commit_root, commit_root')
      BY Zenon, <3>3, <3>4, Locked
    <3>6. IsAncestor(commit_root, x)
      BY <3>4, <3>5, AncestorTransitive
    <3>7. x # commit_root
      <4> SUFFICES ASSUME x = commit_root PROVE FALSE
        OBVIOUS
      <4>1. /\ Len(x) \in Nat /\ Len(commit_root') \in Nat
            /\ Len(x) <= Len(commit_root') /\ Len(commit_root') <= Len(x)
            /\ Len(x) = Len(commit_root') => x = commit_root'
        BY <3>4, <3>5, AncestorLength
      <4>2. Len(x) = Len(commit_root')
        BY <4>1
      <4> QED BY <4>1, <4>2
    <3> QED BY <3>6, <3>7
  <2> QED BY Zenon, <1>0, <2>1, <2>2, <2>3 DEF DbOK
<1>7. CASE Restart
  BY Zenon, <1>0, <1>7, RecoverStores DEF Restart
<1>8. ASSUME NEW i \in SyncInfos, StartSync(i[1], i[2]) PROVE DbOK'
  <2>1. /\ db_blocks \subseteq db_blocks' /\ db_qcs \subseteq db_qcs'
        /\ UNCHANGED <<tree, qcs, commit_root, late, unsaved>>
    BY Zenon, <1>8 DEF StartSync, roots, history
  <2> QED BY Zenon, <1>0, <2>1 DEF DbOK
<1>9. CASE SyncTo
  <2>1. UNCHANGED <<db_blocks, db_qcs, tree, qcs, commit_root, late, unsaved>>
    BY Zenon, <1>9 DEF SyncTo, db, roots, history
  <2> QED BY Zenon, <1>0, <2>1 DEF DbOK
<1>10. CASE Rebuild
  BY Zenon, <1>0, <1>10, RecoverStores DEF Rebuild
<1> QED BY Zenon, <1>1, <1>2, <1>3, <1>4, <1>5, <1>6, <1>7, <1>8, <1>9, <1>10 DEF Next

\* A step that does not rebuild the tree takes no root back.
LEMMA StepForward ==
    ASSUME StoreInv, StoreInv', Next, ~Restart, ~Rebuild
    PROVE  /\ round(highest_certified) <= round(highest_certified')
           /\ round(ordered_root) <= round(ordered_root')
<1>1. round(highest_certified) \in Nat /\ round(ordered_root) \in Nat
  BY RoundTypes DEF StoreInv
<1>2. ASSUME UNCHANGED <<highest_certified, ordered_root>>
      PROVE  /\ round(highest_certified) <= round(highest_certified')
             /\ round(ordered_root) <= round(ordered_root')
  BY <1>1, <1>2
<1>3. ASSUME NEW b \in Blocks, InsertBlock(b) PROVE UNCHANGED <<highest_certified, ordered_root>>
  BY Zenon, <1>3 DEF InsertBlock, roots
<1>4. ASSUME NEW c \in Certs, InsertFetchedQC(c)
      PROVE  /\ round(highest_certified) <= round(highest_certified')
             /\ round(ordered_root) <= round(ordered_root')
  BY <1>1, <1>4, QuorumCertKeeps DEF InsertFetchedQC
<1>5. ASSUME NEW c \in Certs, InsertQuorumCert(c)
      PROVE  /\ round(highest_certified) <= round(highest_certified')
             /\ round(ordered_root) <= round(ordered_root')
  <2>1. /\ UNCHANGED highest_certified \/ insert_single_quorum_cert(c)
        /\ round(commit_info(c)) > round(ordered_root) /\ ordered_root' = commit_info(c)
    BY Zenon, <1>5 DEF InsertQuorumCert, commit
  <2>2. round(highest_certified) <= round(highest_certified')
    BY <1>1, <2>1, QuorumCertKeeps
  <2>3. round(ordered_root') \in Nat
    BY CommittedIsCertified DEF StoreInv, CommittedOK
  <2> QED BY <1>1, <2>1, <2>2, <2>3
<1>6. CASE TryCommit
  <2>1. PICK b \in recommit : commit(b)
    BY Zenon, <1>6 DEF TryCommit
  <2>2. round(ordered_root) <= round(b) /\ ordered_root' = b
    BY Zenon, <2>1 DEF StoreInv, RoundsOK, commit
  <2> QED BY <1>1, <1>6, <2>2 DEF TryCommit
<1>7. CASE CommitCallback
  BY Zenon, <1>2, <1>7 DEF CommitCallback
<1>8. ASSUME NEW i \in SyncInfos, StartSync(i[1], i[2])
      PROVE  UNCHANGED <<highest_certified, ordered_root>>
  BY <1>8 DEF StartSync, roots
<1>9. CASE SyncTo
  BY Zenon, <1>2, <1>9 DEF SyncTo, roots
<1> QED BY Zenon, <1>2, <1>3, <1>4, <1>5, <1>6, <1>7, <1>8, <1>9 DEF Next

\* What a restart or a rebuild finds is no less than the node had.
LEMMA RecoverForward ==
    ASSUME StoredInv, ~late, Saved, NEW old, HasRoot(ledger, db_blocks, db_qcs),
           Recover(ledger, db_blocks, db_qcs, old)
    PROVE  /\ round(highest_certified) <= round(highest_certified')
           /\ round(ordered_root) <= round(ordered_root')
<1> DEFINE kept      == Kept(ledger, db_blocks)
           certified == (db_qcs \cup {Genesis}) \cap kept
<1>0. StoreInv /\ DbOK
  BY Zenon DEF StoredInv
<1>1. /\ ordered_root' = ledger
      /\ highest_certified' \in certified
      /\ \A r \in certified : round(r) <= round(highest_certified')
  BY Zenon DEF Recover
<1>2. /\ round(commit_root) \in Nat /\ round(ordered_root) \in Nat /\ round(ledger) \in Nat
      /\ round(highest_certified) \in Nat
  BY ZenonT(30), <1>0, RoundTypes DEF StoreInv
<1>3. /\ Committed(ledger) /\ Committed(commit_root)
      /\ ledger \in Certs /\ highest_certified \in Certs
      /\ ledger \in Block /\ commit_root \in Block /\ highest_certified \in Block
      /\ highest_certified \in tree /\ highest_certified \in qcs
      /\ round(commit_root) <= round(ordered_root) /\ round(ordered_root) <= round(ledger)
      /\ \A b \in tree : IsAncestor(commit_root, b) => Path(commit_root, b) \subseteq tree
      /\ tree \subseteq Blocks
  BY Zenon, <1>0, CertFacts DEF StoreInv, TypeOK, CommittedOK, RoundsOK, TreeOK
<1>4. ledger \in certified
  BY DEF HasRoot, Kept
<1>5. certified \subseteq Certs
  BY Zenon, <1>0, CertFacts DEF StoreInv, TypeOK
<1>6. round(highest_certified') \in Nat
  BY Zenon, <1>1, <1>5, CertFacts
<1>7. CASE round(highest_certified) <= round(ledger)
  <2>1. round(ledger) <= round(highest_certified')
    BY Zenon, <1>1, <1>4
  <2> QED BY <1>1, <1>2, <1>3, <1>6, <1>7, <2>1
<1>8. CASE round(ledger) < round(highest_certified)
  <2>1. round(commit_root) <= round(ledger) /\ highest_certified # ledger /\ highest_certified # commit_root
    BY <1>2, <1>3, <1>8
  <2>2. IsAncestor(commit_root, ledger)
    BY Zenon, <1>3, <2>1, Locked
  <2>3. IsAncestor(ledger, highest_certified)
    <3>1. round(ledger) <= round(highest_certified)
      BY <1>2, <1>8
    <3> QED BY Zenon, <1>3, <3>1, Locked
  <2>4. IsAncestor(commit_root, highest_certified)
    BY Zenon, <1>3, <2>2, <2>3, AncestorTransitive
  <2>5. Path(ledger, highest_certified) \subseteq Path(commit_root, highest_certified)
    BY Zenon, <1>3, <2>2, <2>3, PathOn
  <2>6. ASSUME NEW x \in Path(ledger, highest_certified) PROVE x \in db_blocks
    <3>1. x \in Path(commit_root, highest_certified)
      BY Zenon, <2>5
    <3>2. x \in tree
      BY Zenon, <1>3, <2>4, <3>1
    <3>3. IsAncestor(commit_root, x) /\ x # commit_root
      BY Zenon, <1>3, <2>4, <3>1, PathMember
    <3>4. IsAncestor(ledger, x)
      BY Zenon, <1>3, <2>3, PathMember
    <3> QED BY Zenon, <1>0, <3>2, <3>3, <3>4 DEF DbOK, Saved
  <2>7. highest_certified \in db_blocks /\ highest_certified \in db_qcs
    BY Zenon, <1>0, <1>3, <2>1, <2>3, <2>4 DEF DbOK, Saved
  <2>8. highest_certified \in certified
    BY <2>3, <2>6, <2>7 DEF Kept, Reaches
  <2> QED BY Zenon, <1>1, <1>3, <2>8
<1> QED BY <1>2, <1>7, <1>8

\* Neither a crash nor a rebuild takes the node back behind its highest QC or off
\* what it had ordered, unless the DB has lost blocks from the ledger's last one up.
THEOREM NothingIsForgotten == Spec => NothingForgotten
<1> DEFINE Forward == ~late /\ Saved => /\ round(highest_certified') >= round(highest_certified)
                                        /\ IsAncestor(ordered_root, ordered_root')
<1>1. Init => StoredInv
  BY InitStore DEF Init, StoredInv, DbOK
<1>2. StoredInv /\ [Next]_vars => StoredInv'
  BY NextStored
<1>3. StoredInv /\ StoredInv' /\ [Next]_vars => [Forward]_vars
  <2> SUFFICES ASSUME StoredInv, StoredInv', Next, ~late, Saved
               PROVE  /\ round(highest_certified') >= round(highest_certified)
                      /\ IsAncestor(ordered_root, ordered_root')
    OBVIOUS
  <2>1. StoreInv /\ StoreInv'
    BY DEF StoredInv
  <2>2. /\ round(highest_certified) <= round(highest_certified')
        /\ round(ordered_root) <= round(ordered_root')
    <3>1. CASE Restart
      BY Zenon, <3>1, RecoverForward DEF Restart
    <3>2. CASE Rebuild
      BY Zenon, <3>2, RecoverForward DEF Rebuild
    <3> QED BY Zenon, <2>1, <3>1, <3>2, StepForward
  <2>3. Committed(ordered_root) /\ ordered_root' \in Certs
    BY Zenon, <2>1, CommittedIsCertified DEF StoreInv, CommittedOK
  <2>4. IsAncestor(ordered_root, ordered_root')
    BY Zenon, <2>2, <2>3, Locked
  <2>5. round(highest_certified) \in Nat /\ round(highest_certified') \in Nat
    BY <2>1, CertFacts DEF StoreInv, TypeOK
  <2> QED BY Zenon, <2>2, <2>4, <2>5
<1> QED BY <1>1, <1>2, <1>3, PTL DEF Spec, NothingForgotten
================================================================================
