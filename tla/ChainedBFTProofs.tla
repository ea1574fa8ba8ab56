--------------------------- MODULE ChainedBFTProofs ----------------------------
(***************************************************************************)
(* Safety of the 2-chain and of the 3-chain rules for every set of         *)
(* validators, every quorum system that meets QuorumAssumption and every   *)
(* bound on the rounds: what both rest on, then each protocol in turn.     *)
(***************************************************************************)
EXTENDS TwoChainLedger, ThreeChainLedger, SequenceTheorems, WellFoundedInduction, TLAPS

\* Facts about naturals and chains of blocks.

\* A non-empty set of naturals has a least element.
LEMMA NatMinimum ==
    ASSUME NEW T \in SUBSET Nat, T # {}
    PROVE  \E x \in T : \A y \in T : x <= y
<1> DEFINE R == OpToRel(<, Nat)
<1>1. IsWellFoundedOn(R, Nat)
  BY Zenon, NatLessThanWellFounded
<1>2. PICK x \in T : \A y \in T : ~(<<y, x>> \in R)
  <2> HIDE DEF R
  <2> QED BY Zenon, <1>1, WFMin
<1>3. \A y \in T : ~(y < x)
  BY Zenon, <1>2 DEF OpToRel
<1> QED BY <1>3

\* A non-empty bounded set of naturals has a greatest element.
LEMMA NatMaximum ==
    ASSUME NEW T \in SUBSET Nat, T # {}, NEW R \in Nat, \A y \in T : y <= R
    PROVE  \E x \in T : \A y \in T : y <= x
<1> DEFINE U == {k \in Nat : \A y \in T : y <= k}
<1>1. U \in SUBSET Nat /\ U # {}
  OBVIOUS
<1>2. PICK x \in U : \A k \in U : x <= k
  BY Zenon, <1>1, NatMinimum
<1>3. x \in T
  <2> SUFFICES ASSUME x \notin T PROVE FALSE
    OBVIOUS
  <2>1. \A y \in T : y \in Nat /\ y < x
    OBVIOUS
  <2>2. PICK z \in T : TRUE
    BY Zenon
  <2>3. x - 1 \in Nat /\ \A y \in T : y <= x - 1
    BY <2>1, <2>2
  <2> QED BY <1>2, <2>3
<1> QED BY <1>3

\* Rounds are naturals.
LEMMA RoundIsNat == ASSUME NEW b \in Block PROVE round(b) \in Nat
<1>1. CASE b = << >>
  BY <1>1 DEF round, Genesis
<1>2. CASE b # << >>
  <2>1. Len(b) \in 1..Len(b)
    BY <1>2 DEF Block
  <2>2. b[Len(b)] \in Entry
    BY <2>1, ElementOfSeq DEF Block
  <2> QED BY <1>2, <2>2 DEF Entry, round, Genesis
<1> QED BY <1>1, <1>2

\* The parent of a block is a block.
LEMMA ParentIsBlock == ASSUME NEW b \in Block PROVE parent(b) \in Block
BY DEF Block, parent

\* What appending an entry to a chain makes.
LEMMA ChildFacts ==
    ASSUME NEW p \in Block, NEW e \in Entry
    PROVE  /\ Append(p, e) \in Block
           /\ Append(p, e) # Genesis
           /\ parent(Append(p, e)) = p
           /\ round(Append(p, e)) = e.round
<1>1. Append(p, e) \in Seq(Entry) /\ Len(Append(p, e)) = Len(p) + 1 /\ Append(p,e)[Len(p)+1] = e
  BY DEF Block
<1>2. SubSeq(Append(p, e), 1, Len(p)) = p
  BY DEF Block
<1> QED BY <1>1, <1>2 DEF Block, Genesis, parent, round

\* Genesis is an ancestor of every block.
LEMMA GenesisIsAncestor == ASSUME NEW b \in Block PROVE IsAncestor(Genesis, b)
<1>1. Len(<< >>) = 0 /\ Len(b) \in Nat
  BY DEF Block
<1>2. SubSeq(b, 1, 0) = << >>
  BY SubSeqEmpty
<1> QED BY <1>1, <1>2 DEF IsAncestor, Genesis

\* An ancestor of the parent is an ancestor.
LEMMA AncestorOfParent ==
    ASSUME NEW a \in Block, NEW b \in Block, IsAncestor(a, parent(b))
    PROVE  IsAncestor(a, b)
<1>1. CASE b = << >>
  BY <1>1 DEF Block, IsAncestor, parent
<1>2. CASE b # << >>
  <2>1. Len(parent(b)) = Len(b) - 1 /\ \A i \in 1..(Len(b) - 1) : parent(b)[i] = b[i]
    <3>1. Len(b) \in Nat \ {0} /\ \A i \in 1..(Len(b) - 1) : b[i] \in Entry
      BY <1>2, EmptySeq, ElementOfSeq DEF Block
    <3> DEFINE n == Len(b) - 1
    <3>2. n \in Nat /\ n <= Len(b)
      BY <3>1
    <3> HIDE DEF n
    <3>3. Len(SubSeq(b, 1, n)) = n
      BY <3>2 DEF Block
    <3>4. \A i \in 1..n : SubSeq(b, 1, n)[i] = b[i]
      BY <3>2 DEF Block
    <3> QED BY <3>3, <3>4 DEF parent, n
  <2>2. Len(a) <= Len(b) - 1
    BY <2>1 DEF IsAncestor
  <2>3. SubSeq(b, 1, Len(a)) \in Seq(Entry) /\ Len(SubSeq(b, 1, Len(a))) = Len(a)
    BY <2>2 DEF Block
  <2>4. \A i \in 1..Len(a) : SubSeq(b, 1, Len(a))[i] = a[i]
    BY <2>1, <2>2 DEF Block, IsAncestor
  <2> QED BY <2>2, <2>3, <2>4, SeqEqual DEF Block, IsAncestor
<1> QED BY <1>1, <1>2

\* Certificates, votes and commits.

\* Certified blocks are blocks.
LEMMA CertifiedAreBlocks ==
    ASSUME VotingTypeOK
    PROVE  Certified \subseteq Block
<1>1. Genesis \in Block
  BY EmptySeq DEF Block, Genesis
<1> QED BY <1>1 DEF Certified, VotingTypeOK, Vote

\* What passes verify_proposal extends a certified block of a lower round.
LEMMA ProposalFacts ==
    ASSUME VotingTypeOK, NEW b \in Proposals
    PROVE  /\ b \in Block /\ b # Genesis
           /\ parent(b) \in Certified /\ parent(b) \in Block
           /\ round(b) \in Nat /\ qc_round(b) \in Nat /\ qc_parent_round(b) \in Nat
           /\ qc_round(b) < round(b)
<1>1. PICK p \in Certified : b \in Children(p, (round(p) + 1)..MaxRound)
  BY DEF Proposals
<1>2. PICK e \in [round : (round(p) + 1)..MaxRound, payload : Payload] : b = Append(p, e)
  BY <1>1 DEF Children
<1>3. p \in Block /\ round(p) \in Nat
  BY CertifiedAreBlocks, RoundIsNat
<1>4. e \in Entry /\ e.round > round(p)
  BY <1>3, MaxRoundAssumption DEF Entry
<1>5. b \in Block /\ b # Genesis /\ parent(b) = p /\ round(b) = e.round
  BY <1>2, <1>3, <1>4, ChildFacts
<1>6. qc_parent_round(b) \in Nat
  BY <1>5, ParentIsBlock, RoundIsNat DEF qc_parent_round
<1> QED BY <1>3, <1>4, <1>5, <1>6, RoundIsNat DEF qc_round

\* Certificates never go away.
LEMMA CertifiedIsStable ==
    ASSUME votes \subseteq votes'
    PROVE  Certified \subseteq Certified' /\ Proposals \subseteq Proposals'
<1>1. Certified \subseteq Certified'
  BY DEF Certified, IsCertified
<1> QED BY <1>1 DEF Proposals

\* What recording a vote in a round above last_voted_round does to the data.
LEMMA RecordedData ==
    ASSUME VotingTypeOK, NEW v \in Honest, NEW b \in Proposals, RecordVote(v, b)
    PROVE  /\ safety' \in [Honest -> SafetyData]
           /\ \A w \in Honest \ {v} : safety'[w] = safety[w]
           /\ safety'[v].last_vote = b
           /\ safety'[v].last_voted_round = round(b)
           /\ safety'[v].one_chain_round >= safety[v].one_chain_round
           /\ safety'[v].one_chain_round >= qc_round(b)
           /\ safety'[v].preferred_round >= safety[v].preferred_round
           /\ safety'[v].preferred_round >= qc_parent_round(b)
<1>1. b \in Block /\ round(b) \in Nat /\ qc_round(b) \in Nat /\ qc_parent_round(b) \in Nat
  BY ProposalFacts
<1>2. safety[v] \in SafetyData
  BY DEF VotingTypeOK
<1> DEFINE sd0 == [safety[v] EXCEPT !.last_voted_round = round(b)]
           sd1 == observe_qc(sd0, qc_round(b), qc_parent_round(b))
           sd2 == [sd1 EXCEPT !.last_vote = b]
<1>3. /\ sd0 \in SafetyData
      /\ sd0.last_voted_round = round(b)
      /\ sd0.one_chain_round = safety[v].one_chain_round
      /\ sd0.preferred_round = safety[v].preferred_round
  BY <1>1, <1>2 DEF SafetyData
<1>4. /\ sd1 \in SafetyData
      /\ sd1.last_voted_round = round(b)
      /\ sd1.one_chain_round >= safety[v].one_chain_round
      /\ sd1.one_chain_round >= qc_round(b)
      /\ sd1.preferred_round >= safety[v].preferred_round
      /\ sd1.preferred_round >= qc_parent_round(b)
  <2> HIDE DEF sd0
  <2> DEFINE one == MaxOf(sd0.one_chain_round, qc_round(b))
             two == MaxOf(sd0.preferred_round, qc_parent_round(b))
  <2>1. /\ one \in Nat /\ one >= sd0.one_chain_round /\ one >= qc_round(b)
        /\ two \in Nat /\ two >= sd0.preferred_round /\ two >= qc_parent_round(b)
    BY <1>1, <1>3 DEF SafetyData, MaxOf
  <2>2. sd1 = [sd0 EXCEPT !.one_chain_round = one, !.preferred_round = two]
    BY DEF observe_qc
  <2> HIDE DEF one, two, sd1
  <2> QED BY Zenon, <1>3, <2>1, <2>2 DEF SafetyData
<1>5. /\ sd2 \in SafetyData
      /\ sd2.last_vote = b
      /\ sd2.last_voted_round = round(b)
      /\ sd2.one_chain_round = sd1.one_chain_round
      /\ sd2.preferred_round = sd1.preferred_round
  <2> HIDE DEF sd1
  <2> QED BY <1>1, <1>4 DEF SafetyData
<1>6. safety' = [safety EXCEPT ![v] = sd2]
  BY DEF RecordVote
<1> HIDE DEF sd1, sd2
<1> QED BY <1>4, <1>5, <1>6 DEF VotingTypeOK

\* What signing a timeout does to the data.
LEMMA TimeoutData ==
    ASSUME VotingTypeOK, NEW v \in Honest, NEW r \in Nat,
           safety' = [safety EXCEPT ![v] = record_timeout(safety[v], r)]
    PROVE  /\ safety' \in [Honest -> SafetyData]
           /\ \A w \in Honest :
                /\ safety'[w].last_vote = safety[w].last_vote
                /\ safety'[w].one_chain_round = safety[w].one_chain_round
                /\ safety'[w].preferred_round = safety[w].preferred_round
                /\ safety'[w].last_voted_round >= safety[w].last_voted_round
           /\ safety'[v].last_voted_round >= r
<1>1. \A w \in Honest : safety[w] \in SafetyData
  BY DEF VotingTypeOK
<1> DEFINE lvr == MaxOf(safety[v].last_voted_round, r)
<1>2. lvr \in Nat /\ lvr >= safety[v].last_voted_round /\ lvr >= r
  BY <1>1 DEF SafetyData, MaxOf
<1>3. safety' = [safety EXCEPT ![v] = [safety[v] EXCEPT !.last_voted_round = lvr]]
  BY DEF record_timeout
<1> HIDE DEF lvr
<1> QED BY <1>1, <1>2, <1>3 DEF VotingTypeOK, SafetyData

\* If honest validators vote once per round, and for proposals only, at most one
\* block is certified in a round.
OneVotePerRound ==
    \A m, n \in votes : m.author = n.author /\ round(m.block) = round(n.block) => m = n

\* Two certified blocks of a round are the same block, by quorum intersection.
LEMMA UniqueCertificates ==
    ASSUME VotingTypeOK, OneVotePerRound, \A m \in votes : m.block \in Proposals
    PROVE  OneCertifiedPerRound
<1> SUFFICES ASSUME NEW b \in Certified, NEW c \in Certified, round(b) = round(c)
             PROVE  b = c
  BY DEF OneCertifiedPerRound
<1>1. round(Genesis) = 0
  BY DEF round, Genesis
<1>2. \A d \in Certified : d # Genesis => d \in Proposals
  BY DEF Certified
<1>3. \A d \in Certified : d # Genesis => round(d) > 0
  BY <1>2, ProposalFacts
<1>4. CASE b = Genesis \/ c = Genesis
  BY <1>1, <1>3, <1>4
<1>5. CASE b # Genesis /\ c # Genesis
  <2>1. PICK Q1 \in Quorum : \A v \in Q1 \ Faulty : [author |-> v, block |-> b] \in votes
    BY <1>5 DEF Certified, IsCertified
  <2>2. PICK Q2 \in Quorum : \A v \in Q2 \ Faulty : [author |-> v, block |-> c] \in votes
    BY <1>5 DEF Certified, IsCertified
  <2>3. PICK v \in Honest : v \in Q1 /\ v \in Q2
    BY QuorumAssumption
  <2>4. [author |-> v, block |-> b] \in votes /\ [author |-> v, block |-> c] \in votes
    BY <2>1, <2>2, <2>3 DEF Honest
  <2>5. [author |-> v, block |-> b] = [author |-> v, block |-> c]
    BY <2>4 DEF OneVotePerRound
  <2> QED BY <2>5
<1> QED BY <1>4, <1>5
--------------------------------------------------------------------------------
\* Commits.

\* The blocks of S lie on one chain, in the order of their rounds.
OneChain(S) == \A a, b \in S : round(a) <= round(b) => IsAncestor(a, b)

\* Every node's log ends in a block of S.
CommittedIn(S) == committed \in [Node -> S]

\* Logs that are all empty are an initial ledger.
LEMMA InitRefines == InitCommit => L!Init
BY DEF InitCommit, L!Init, L!Genesis, Genesis

\* A commit of a block of the chain is a step of the ledger.
LEMMA CommitRefines ==
    ASSUME NEW S \in SUBSET Block, \A a \in S : round(a) \in Nat, OneChain(S), CommittedIn(S),
           NEW n \in Node, NEW b \in S, Commit(n, b)
    PROVE  L!Next
<1>1. committed' \in [Node -> S] /\ committed'[n] = b
        /\ \A m \in Node \ {n} : committed'[m] = committed[m]
  BY DEF CommittedIn, Commit
<1>2. IsAncestor(committed[n], committed'[n])
  BY <1>1 DEF CommittedIn, OneChain, Commit
<1>3. \A m \in Node : ~Conflict(committed'[n], committed[m])
  BY <1>1 DEF CommittedIn, OneChain, Conflict
<1>4. committed' \in [Node -> Block]
  BY <1>1
<1>5. L!Extend(n)
  BY <1>1, <1>2, <1>3 DEF L!Extend, L!IsAncestor, L!Conflict, IsAncestor, Conflict
<1> QED BY Zenon, <1>4, <1>5 DEF L!Next, L!Block, L!Entry, Block, Entry
--------------------------------------------------------------------------------
\* The 2-chain rules.

\* What SafetyRules' persisted data says of the messages a validator sent.
DataCoversMessages ==
    /\ \A m \in votes :
        LET sd == safety[m.author]
        IN  /\ round(m.block) <= sd.last_voted_round
            /\ qc_round(m.block) <= sd.one_chain_round
            /\ round(m.block) <= round(sd.last_vote)
            /\ round(m.block) = round(sd.last_vote) => m.block = sd.last_vote
    /\ \A t \in timeouts : t.round <= safety[t.author].last_voted_round
    /\ \A v \in Honest :
        LET sd == safety[v]
        IN  /\ round(sd.last_vote) <= sd.last_voted_round
            /\ qc_round(sd.last_vote) <= sd.one_chain_round

\* Votes, sent or only persisted, are for proposals that were safe and still are.
VotesAreSafe ==
    /\ \A m \in votes : m.block \in SafeProposals
    /\ \A v \in Honest : safety[v].last_vote \in SafeProposals \cup {Genesis}

\* TimeoutCoversVotes for a vote that is persisted and not yet sent.
TimeoutCoversLastVote ==
    \A t \in timeouts :
        LET b == safety[t.author].last_vote
        IN  round(b) <= t.round => qc_round(b) <= t.hqc_round

IndInv ==
    /\ TypeOK
    /\ DataCoversMessages
    /\ VotesAreSafe
    /\ OneVotePerRound
    /\ TimeoutCoversVotes
    /\ TimeoutCoversLastVote
--------------------------------------------------------------------------------
\* Facts about certificates and proposals.

\* Certificates carry naturals.
LEMMA CertificateTypes ==
    ASSUME TypeOK
    PROVE  CertifiedRounds \subseteq Nat
BY CertifiedAreBlocks, RoundIsNat DEF TypeOK, CertifiedRounds

\* What verify_tc lets through carries a round and a QC round.
LEMMA TimeoutCertType ==
    ASSUME TypeOK, NEW tc \in TimeoutCerts
    PROVE  tc.round \in Nat /\ tc.hqc_round \in Nat
BY CertificateTypes DEF TimeoutCerts, NoTC, TypeOK, Timeout

\* What a proposal that passes safe_to_vote is known to be.
LEMMA SafeProposalFacts ==
    ASSUME TypeOK, NEW b \in SafeProposals
    PROVE  /\ b \in Proposals /\ b \in Block /\ b # Genesis
           /\ parent(b) \in Certified /\ parent(b) \in Block
           /\ round(b) \in Nat /\ qc_round(b) \in Nat
           /\ qc_round(b) < round(b)
           /\ \E tc \in TimeoutCerts : safe_to_vote(round(b), qc_round(b), tc)
BY ProposalFacts DEF SafeProposals, TypeOK

\* Certificates and the proposals they justify never go away.
LEMMA CertificatesAreStable ==
    ASSUME TypeOK, votes \subseteq votes', timeouts \subseteq timeouts'
    PROVE  /\ Certified \subseteq Certified'
           /\ TimeoutCerts \subseteq TimeoutCerts'
           /\ SafeProposals \subseteq SafeProposals'
<1>1. Certified \subseteq Certified' /\ Proposals \subseteq Proposals'
  BY CertifiedIsStable
<1>2. CertifiedRounds \subseteq CertifiedRounds'
  BY <1>1 DEF CertifiedRounds
<1>3. ASSUME NEW tc, IsSignedTC(tc) PROVE IsSignedTC(tc)'
  BY <1>3 DEF IsSignedTC
<1>4. TimeoutCerts \subseteq TimeoutCerts'
  <2> SUFFICES ASSUME NEW tc \in TimeoutCerts, tc # NoTC
               PROVE  tc \in TimeoutCerts'
    BY DEF TimeoutCerts
  <2>1. /\ tc \in [round : {t.round : t \in timeouts}, hqc_round : CertifiedRounds]
        /\ tc.hqc_round < tc.round /\ IsSignedTC(tc)
    BY DEF TimeoutCerts
  <2>2. tc \in [round : {t.round : t \in timeouts'}, hqc_round : CertifiedRounds']
    BY <2>1, <1>2
  <2> QED BY <2>1, <2>2, <1>3 DEF TimeoutCerts
<1>5. SafeProposals \subseteq SafeProposals'
  BY <1>1, <1>4 DEF SafeProposals
<1> QED BY <1>1, <1>4, <1>5
--------------------------------------------------------------------------------
\* Votes and timeouts carry the type invariant and the facts of IndInv forward.

\* Initially nothing has been signed.
LEMMA InitEstablishes == Init => IndInv
<1> SUFFICES ASSUME Init PROVE IndInv
  OBVIOUS
<1>1. Genesis \in Block /\ parent(Genesis) = Genesis /\ round(Genesis) = 0
  BY EmptySeq, SubSeqEmpty DEF Block, Genesis, parent, round
<1>2. TypeOK
  BY <1>1 DEF Init, InitVoting, TypeOK, VotingTypeOK, SafetyData, Vote, Timeout
<1>3. DataCoversMessages
  BY <1>1 DEF Init, InitVoting, DataCoversMessages, qc_round
<1> QED BY <1>2, <1>3 DEF Init, InitVoting, IndInv, VotesAreSafe, OneVotePerRound,
            TimeoutCoversVotes, TimeoutCoversLastVote

\* A first vote in a round preserves the invariant.
LEMMA VoteStep ==
    ASSUME IndInv, NEW v \in Honest, NEW b \in SafeProposals, VoteTwoChain(v, b)
    PROVE  IndInv'
<1> DEFINE m0 == [author |-> v, block |-> b]
<1>1. TypeOK /\ DataCoversMessages /\ VotesAreSafe /\ OneVotePerRound
        /\ TimeoutCoversVotes /\ TimeoutCoversLastVote
  BY DEF IndInv
<1>2. /\ votes \subseteq votes' /\ votes' \subseteq votes \cup {m0}
      /\ timeouts' = timeouts
  BY DEF VoteTwoChain, RecordVote, SendVote
<1>3. /\ safety' \in [Honest -> SafetyData]
      /\ \A w \in Honest \ {v} : safety'[w] = safety[w]
      /\ safety'[v].last_vote = b
      /\ safety'[v].last_voted_round = round(b)
      /\ round(b) > safety[v].last_voted_round
      /\ safety'[v].one_chain_round >= safety[v].one_chain_round
      /\ safety'[v].one_chain_round >= qc_round(b)
  <2>1. RecordVote(v, b) /\ round(b) > safety[v].last_voted_round
    BY DEF VoteTwoChain, verify_last_vote_round
  <2>2. b \in Proposals
    BY DEF SafeProposals
  <2> QED BY <2>1, <2>2, <1>1, RecordedData DEF TypeOK, VotingTypeOK
<1>4. b \in Block /\ round(b) \in Nat /\ qc_round(b) \in Nat
  BY <1>1, SafeProposalFacts
<1>5. /\ safety[v] \in SafetyData
      /\ \A m \in votes : m \in Vote /\ m.author \in Honest /\ m.block \in Block
                            /\ round(m.block) \in Nat /\ qc_round(m.block) \in Nat
      /\ \A t \in timeouts : t.author \in Honest /\ t.round \in Nat /\ t.hqc_round \in Nat
  BY <1>1, RoundIsNat, ParentIsBlock DEF TypeOK, VotingTypeOK, Vote, Timeout, qc_round
<1>6. TypeOK'
  BY <1>1, <1>2, <1>3, <1>4 DEF TypeOK, VotingTypeOK, Vote
<1>7. \A m \in votes : m.author = v => round(m.block) < round(b)
  BY <1>1, <1>3, <1>4, <1>5 DEF DataCoversMessages, SafetyData
<1>8. \A t \in timeouts : t.author = v => t.round < round(b)
  BY <1>1, <1>3, <1>4, <1>5 DEF DataCoversMessages, SafetyData
<1>9. DataCoversMessages'
  <2>1. ASSUME NEW m \in votes'
        PROVE  /\ round(m.block) <= safety'[m.author].last_voted_round
               /\ qc_round(m.block) <= safety'[m.author].one_chain_round
               /\ round(m.block) <= round(safety'[m.author].last_vote)
               /\ round(m.block) = round(safety'[m.author].last_vote)
                    => m.block = safety'[m.author].last_vote
    <3>1. CASE m = m0
      BY <3>1, <1>3, <1>4
    <3>2. CASE m \in votes /\ m.author = v
      BY <3>2, <1>1, <1>3, <1>4, <1>5, <1>7 DEF DataCoversMessages, SafetyData
    <3>3. CASE m \in votes /\ m.author # v
      BY Zenon, <3>3, <1>1, <1>3, <1>5 DEF DataCoversMessages
    <3> QED BY <3>1, <3>2, <3>3, <1>2
  <2>2. \A t \in timeouts' : t.round <= safety'[t.author].last_voted_round
    BY <1>1, <1>2, <1>3, <1>4, <1>5, <1>8 DEF DataCoversMessages
  <2>3. \A w \in Honest : /\ round(safety'[w].last_vote) <= safety'[w].last_voted_round
                          /\ qc_round(safety'[w].last_vote) <= safety'[w].one_chain_round
    BY <1>1, <1>3, <1>4 DEF DataCoversMessages
  <2> QED BY Zenon, <2>1, <2>2, <2>3 DEF DataCoversMessages
<1>10. VotesAreSafe'
  BY <1>1, <1>2, <1>3, CertificatesAreStable DEF VotesAreSafe
<1>11. OneVotePerRound'
  <2> SUFFICES ASSUME NEW m \in votes', NEW n \in votes', m.author = n.author,
                      round(m.block) = round(n.block)
               PROVE  m = n
    BY DEF OneVotePerRound
  <2>1. CASE m \in votes /\ n \in votes
    BY <2>1, <1>1 DEF OneVotePerRound
  <2>2. CASE m = m0 /\ n = m0
    BY <2>2
  <2>3. CASE m = m0 /\ n \in votes
    BY <2>3, <1>4, <1>5, <1>7
  <2>4. CASE m \in votes /\ n = m0
    BY <2>4, <1>4, <1>5, <1>7
  <2> QED BY <2>1, <2>2, <2>3, <2>4, <1>2
<1>12. TimeoutCoversVotes'
  BY <1>1, <1>2, <1>4, <1>5, <1>8 DEF TimeoutCoversVotes
<1>13. TimeoutCoversLastVote'
  BY <1>1, <1>2, <1>3, <1>4, <1>5, <1>8 DEF TimeoutCoversLastVote
<1> QED BY <1>6, <1>9, <1>10, <1>11, <1>12, <1>13 DEF IndInv

\* Returning the stored vote again preserves the invariant.
LEMMA ResendStep ==
    ASSUME IndInv, NEW v \in Honest, ResendVote(v)
    PROVE  IndInv'
<1> DEFINE b == safety[v].last_vote
           m0 == [author |-> v, block |-> b]
<1>1. TypeOK /\ DataCoversMessages /\ VotesAreSafe /\ OneVotePerRound
        /\ TimeoutCoversVotes /\ TimeoutCoversLastVote
  BY DEF IndInv
<1>2. /\ votes \subseteq votes' /\ votes' \subseteq votes \cup {m0}
      /\ timeouts' = timeouts /\ safety' = safety /\ b # Genesis
  BY DEF ResendVote, ReturnLastVote, SendVote
<1>3. b \in SafeProposals /\ b \in Block
  BY <1>1, <1>2 DEF VotesAreSafe, TypeOK, VotingTypeOK, SafetyData
<1>4. TypeOK'
  BY <1>1, <1>2, <1>3 DEF TypeOK, VotingTypeOK, Vote
<1>5. DataCoversMessages'
  <2>1. ASSUME NEW m \in votes'
        PROVE  /\ round(m.block) <= safety[m.author].last_voted_round
               /\ qc_round(m.block) <= safety[m.author].one_chain_round
               /\ round(m.block) <= round(safety[m.author].last_vote)
               /\ round(m.block) = round(safety[m.author].last_vote)
                    => m.block = safety[m.author].last_vote
    <3>1. CASE m = m0
      BY <3>1, <1>1, <1>3, RoundIsNat DEF DataCoversMessages
    <3>2. CASE m \in votes
      BY <3>2, <1>1 DEF DataCoversMessages
    <3> QED BY Zenon, <3>1, <3>2, <1>2
  <2> QED BY Zenon, <2>1, <1>1, <1>2 DEF DataCoversMessages
<1>6. VotesAreSafe'
  BY <1>1, <1>2, <1>3, CertificatesAreStable DEF VotesAreSafe
<1>7. OneVotePerRound'
  <2>1. ASSUME NEW m \in votes, m.author = v, round(m.block) = round(b)
        PROVE  m = m0
    BY <2>1, <1>1 DEF DataCoversMessages, TypeOK, VotingTypeOK, Vote
  <2> QED BY <2>1, <1>1, <1>2 DEF OneVotePerRound
<1>8. TimeoutCoversVotes'
  BY <1>1, <1>2 DEF TimeoutCoversVotes, TimeoutCoversLastVote
<1>9. TimeoutCoversLastVote'
  BY <1>1, <1>2 DEF TimeoutCoversLastVote
<1> QED BY <1>4, <1>5, <1>6, <1>7, <1>8, <1>9 DEF IndInv

\* Signing a timeout preserves the invariant.
LEMMA TimeoutStep ==
    ASSUME IndInv, NEW v \in Honest, NEW r \in 1..(MaxRound - 1),
           NEW hqc \in CertifiedRounds, SignTimeoutWithQC(v, r, hqc)
    PROVE  IndInv'
<1> DEFINE t0 == [author |-> v, round |-> r, hqc_round |-> hqc]
<1>1. TypeOK /\ DataCoversMessages /\ VotesAreSafe /\ OneVotePerRound
        /\ TimeoutCoversVotes /\ TimeoutCoversLastVote
  BY DEF IndInv
<1>2. r \in Nat /\ hqc \in Nat
  BY <1>1, CertificateTypes, MaxRoundAssumption
<1>3. /\ timeouts \subseteq timeouts' /\ timeouts' \subseteq timeouts \cup {t0}
      /\ votes' = votes
      /\ safety' = [safety EXCEPT ![v] = record_timeout(safety[v], r)]
      /\ hqc >= safety[v].one_chain_round
  BY DEF SignTimeoutWithQC, SendTimeout, safe_to_timeout
<1>4. /\ safety' \in [Honest -> SafetyData]
      /\ \A w \in Honest : /\ safety'[w].last_vote = safety[w].last_vote
                           /\ safety'[w].one_chain_round = safety[w].one_chain_round
                           /\ safety'[w].last_voted_round >= safety[w].last_voted_round
      /\ safety'[v].last_voted_round >= r
  BY Zenon, <1>1, <1>2, <1>3, TimeoutData DEF TypeOK
<1>5. /\ \A w \in Honest : safety[w] \in SafetyData /\ round(safety[w].last_vote) \in Nat
                            /\ qc_round(safety[w].last_vote) \in Nat
      /\ \A m \in votes : m.author \in Honest /\ round(m.block) \in Nat
                            /\ qc_round(m.block) \in Nat
      /\ \A t \in timeouts : t.author \in Honest /\ t.round \in Nat /\ t.hqc_round \in Nat
  BY Zenon, <1>1, RoundIsNat, ParentIsBlock DEF TypeOK, VotingTypeOK, SafetyData, Vote, Timeout, qc_round
<1>6. TypeOK'
  BY <1>1, <1>2, <1>3, <1>4 DEF TypeOK, VotingTypeOK, Timeout
<1>7. DataCoversMessages'
  <2>1. ASSUME NEW w \in Honest
        PROVE  /\ safety'[w].last_vote = safety[w].last_vote
               /\ safety'[w].one_chain_round = safety[w].one_chain_round
               /\ safety'[w].last_voted_round >= safety[w].last_voted_round
               /\ safety'[w].last_voted_round \in Nat
               /\ safety[w].last_voted_round \in Nat
    BY Zenon, <1>4, <1>5 DEF SafetyData
  <2>2. \A m \in votes' :
          /\ round(m.block) <= safety'[m.author].last_voted_round
          /\ qc_round(m.block) <= safety'[m.author].one_chain_round
          /\ round(m.block) <= round(safety'[m.author].last_vote)
          /\ round(m.block) = round(safety'[m.author].last_vote)
               => m.block = safety'[m.author].last_vote
    BY SMTT(30), <2>1, <1>1, <1>3, <1>5 DEF DataCoversMessages
  <2>3. \A t \in timeouts' : t.round <= safety'[t.author].last_voted_round
    BY SMTT(30), <2>1, <1>1, <1>2, <1>3, <1>4, <1>5 DEF DataCoversMessages
  <2>4. \A w \in Honest : /\ round(safety'[w].last_vote) <= safety'[w].last_voted_round
                          /\ qc_round(safety'[w].last_vote) <= safety'[w].one_chain_round
    BY SMTT(30), <2>1, <1>1, <1>5 DEF DataCoversMessages
  <2> QED BY Zenon, <2>2, <2>3, <2>4 DEF DataCoversMessages
<1>8. VotesAreSafe'
  <2>1. \A w \in Honest : safety'[w].last_vote = safety[w].last_vote
    BY <1>4
  <2> QED BY ZenonT(30), <2>1, <1>1, <1>3, CertificatesAreStable DEF VotesAreSafe
<1>9. OneVotePerRound'
  BY <1>1, <1>3 DEF OneVotePerRound
<1>10. TimeoutCoversVotes'
  <2>1. \A m \in votes : m.author = v => qc_round(m.block) <= hqc
    BY SMTT(30), <1>1, <1>2, <1>3, <1>5 DEF DataCoversMessages, SafetyData
  <2> QED BY SMTT(30), <2>1, <1>1, <1>3 DEF TimeoutCoversVotes
<1>11. TimeoutCoversLastVote'
  <2>1. qc_round(safety[v].last_vote) <= hqc
    BY <1>1, <1>2, <1>3, <1>5 DEF DataCoversMessages, SafetyData
  <2>2. \A w \in Honest : safety'[w].last_vote = safety[w].last_vote
    BY <1>4
  <2> QED BY SMTT(30), <2>1, <2>2, <1>1, <1>3, <1>5 DEF TimeoutCoversLastVote
<1> QED BY <1>6, <1>7, <1>8, <1>9, <1>10, <1>11 DEF IndInv

\* Every step preserves the invariant.
LEMMA StepPreserves ==
    ASSUME IndInv, [Next]_vars
    PROVE  IndInv'
<1>1. ASSUME NEW v \in Honest, NEW b \in SafeProposals, VoteTwoChain(v, b) PROVE IndInv'
  BY <1>1, VoteStep
<1>2. ASSUME NEW v \in Honest, ResendVote(v) PROVE IndInv'
  BY <1>2, ResendStep
<1>3. ASSUME NEW v \in Honest, NEW r \in 1..(MaxRound - 1), NEW hqc \in CertifiedRounds,
               SignTimeoutWithQC(v, r, hqc)
        PROVE  IndInv'
  BY ZenonT(30), <1>3, TimeoutStep
<1>4. CASE UNCHANGED vars
  <2>1. safety' = safety /\ votes' = votes /\ timeouts' = timeouts
    BY <1>4 DEF vars
  <2>2. TypeOK'
    BY <2>1 DEF IndInv, TypeOK, VotingTypeOK
  <2>3. DataCoversMessages'
    BY <2>1 DEF IndInv, DataCoversMessages
  <2>4. SafeProposals \subseteq SafeProposals'
    BY <2>1, CertificatesAreStable DEF IndInv
  <2>5. VotesAreSafe'
    BY <2>1, <2>4 DEF IndInv, VotesAreSafe
  <2>6. OneVotePerRound'
    BY <2>1 DEF IndInv, OneVotePerRound
  <2>7. TimeoutCoversVotes' /\ TimeoutCoversLastVote'
    BY <2>1 DEF IndInv, TimeoutCoversVotes, TimeoutCoversLastVote
  <2> QED BY Zenon, <2>2, <2>3, <2>5, <2>6, <2>7 DEF IndInv
<1> QED BY <1>1, <1>2, <1>3, <1>4 DEF Next

\* The inductive invariant holds in every reachable state.
THEOREM Invariance == Spec => []IndInv
BY InitEstablishes, StepPreserves, PTL DEF Spec
--------------------------------------------------------------------------------
\* From the invariant to safety.

\* A certified block other than genesis was safe, and a quorum's honest members
\* voted for it.
LEMMA CertifiedFacts ==
    ASSUME IndInv, NEW b \in Certified, b # Genesis
    PROVE  /\ b \in SafeProposals
           /\ \E Q \in Quorum : \A v \in Q \ Faulty : [author |-> v, block |-> b] \in votes
BY Zenon DEF Certified, IsCertified, IndInv, VotesAreSafe

\* At most one block is certified in a round.
LEMMA UniqueByInvariant == IndInv => OneCertifiedPerRound
BY UniqueCertificates DEF IndInv, TypeOK, VotesAreSafe, SafeProposals

\* If b's certificate commits b's parent, no proposal that skips back below that
\* parent is safe in a later round: the timeout certificate it needs would hold
\* a timeout, from a validator that voted for b, that does not cover this vote.
LEMMA NoSafeFork ==
    ASSUME IndInv, NEW b \in Certified, b # Genesis,
           commits_2chain(round(b), qc_round(b)),
           NEW c \in SafeProposals, round(c) > round(b)
    PROVE  qc_round(c) >= qc_round(b)
<1> SUFFICES ASSUME qc_round(c) < qc_round(b) PROVE FALSE
  BY CertifiedFacts, SafeProposalFacts DEF IndInv
<1>1. /\ round(b) \in Nat /\ qc_round(b) \in Nat /\ round(b) = qc_round(b) + 1
      /\ round(c) \in Nat /\ qc_round(c) \in Nat
  BY CertifiedFacts, SafeProposalFacts DEF IndInv, commits_2chain
<1>2. PICK tc \in TimeoutCerts : safe_to_vote(round(c), qc_round(c), tc)
  BY SafeProposalFacts DEF IndInv
<1>3. tc.round \in Nat /\ tc.hqc_round \in Nat
  BY TimeoutCertType DEF IndInv
<1>4. round(c) = tc.round + 1 /\ qc_round(c) >= tc.hqc_round
  BY SMTT(30), <1>1, <1>2, <1>3 DEF safe_to_vote
<1>5. IsSignedTC(tc)
  BY SMTT(30), <1>1, <1>4 DEF TimeoutCerts, NoTC
<1>6. PICK Q1 \in Quorum : \A v \in Q1 \ Faulty : \E t \in timeouts :
        t.author = v /\ t.round = tc.round /\ t.hqc_round <= tc.hqc_round
  BY <1>5 DEF IsSignedTC
<1>7. PICK Q2 \in Quorum : \A v \in Q2 \ Faulty : [author |-> v, block |-> b] \in votes
  BY CertifiedFacts
<1>8. PICK v \in Honest : v \in Q1 /\ v \in Q2
  BY QuorumAssumption
<1>9. PICK t \in timeouts : t.author = v /\ t.round = tc.round /\ t.hqc_round <= tc.hqc_round
  BY <1>6, <1>8 DEF Honest
<1>10. [author |-> v, block |-> b] \in votes
  BY <1>7, <1>8 DEF Honest
<1>11. qc_round(b) <= t.hqc_round
  <2>1. round(b) <= t.round
    BY <1>1, <1>3, <1>4, <1>9
  <2> QED BY Zenon, <2>1, <1>9, <1>10 DEF IndInv, TimeoutCoversVotes
<1>12. t.hqc_round \in Nat
  BY DEF IndInv, TypeOK, VotingTypeOK, Timeout
<1> QED BY <1>1, <1>3, <1>4, <1>9, <1>11, <1>12

\* A block committed by the 2-chain rule is an ancestor of every block certified
\* in its round or later.  By contradiction, on a certified block of least round
\* that is none of its descendants.
LEMMA Locking == IndInv => CommittedIsLocked
<1> SUFFICES ASSUME IndInv, NEW b \in Certified, b # Genesis,
                    commits_2chain(round(b), qc_round(b))
             PROVE  \A c \in Certified : round(c) >= qc_round(b) => IsAncestor(parent(b), c)
  BY DEF CommittedIsLocked
<1> DEFINE Bad == {c \in Certified : round(c) >= qc_round(b) /\ ~IsAncestor(parent(b), c)}
           BadRounds == {round(c) : c \in Bad}
<1>1. TypeOK /\ OneCertifiedPerRound
  BY UniqueByInvariant DEF IndInv
<1>2. Certified \subseteq Block
  BY Zenon, <1>1, CertifiedAreBlocks DEF TypeOK
<1>3. /\ b \in SafeProposals /\ parent(b) \in Certified /\ parent(b) \in Block
      /\ round(b) \in Nat /\ qc_round(b) \in Nat /\ round(b) = qc_round(b) + 1
  BY Zenon, <1>1, <1>2, CertifiedFacts, SafeProposalFacts DEF commits_2chain
<1>4. SUFFICES ASSUME Bad # {} PROVE FALSE
  BY Zenon
<1>5. BadRounds \in SUBSET Nat /\ BadRounds # {}
  BY Zenon, <1>2, <1>4, RoundIsNat
<1>6. PICK least \in BadRounds : \A y \in BadRounds : least <= y
  BY Zenon, <1>5, NatMinimum
<1>7. PICK c \in Bad : round(c) = least
  BY Zenon
<1>8. IsAncestor(parent(b), parent(b)) /\ IsAncestor(parent(b), b)
  <2>1. IsAncestor(parent(b), parent(b))
    BY <1>3 DEF IsAncestor, Block
  <2> QED BY Zenon, <2>1, <1>2, <1>3, AncestorOfParent
<1>9. round(c) > round(b)
  <2>1. round(c) \in Nat
    BY Zenon, <1>2, RoundIsNat
  <2>2. round(c) # qc_round(b)
    BY Zenon, <1>1, <1>3, <1>7, <1>8 DEF OneCertifiedPerRound, qc_round
  <2>3. round(c) # round(b)
    BY Zenon, <1>1, <1>7, <1>8 DEF OneCertifiedPerRound
  <2> QED BY <2>1, <2>2, <2>3, <1>3, <1>7
<1>10. c # Genesis
  BY <1>3, <1>9 DEF round, Genesis
<1>11. c \in SafeProposals
  BY Zenon, <1>10, CertifiedFacts
<1>12. /\ parent(c) \in Certified /\ parent(c) \in Block /\ c \in Block
       /\ qc_round(c) \in Nat /\ round(c) \in Nat /\ qc_round(c) < round(c)
  BY Zenon, <1>1, <1>2, <1>11, SafeProposalFacts
<1>13. qc_round(c) >= qc_round(b)
  BY Zenon, <1>9, <1>11, NoSafeFork
<1>14. parent(c) \notin Bad
  <2> SUFFICES ASSUME parent(c) \in Bad PROVE FALSE
    OBVIOUS
  <2>1. qc_round(c) \in BadRounds
    BY Zenon DEF qc_round
  <2> QED BY <2>1, <1>6, <1>7, <1>12
<1>15. IsAncestor(parent(b), parent(c))
  BY <1>12, <1>13, <1>14 DEF qc_round
<1>16. IsAncestor(parent(b), c)
  BY Zenon, <1>3, <1>12, <1>15, AncestorOfParent
<1> QED BY <1>16

\* Type correctness of the specification.
THEOREM TypeCorrect == Spec => []TypeOK
<1>1. IndInv => TypeOK
  BY DEF IndInv
<1> QED BY <1>1, Invariance, PTL

\* A validator's timeouts cover its votes.
THEOREM TimeoutsCover == Spec => []TimeoutCoversVotes
<1>1. IndInv => TimeoutCoversVotes
  BY DEF IndInv
<1> QED BY <1>1, Invariance, PTL

\* At most one block is certified in a round.
THEOREM CertificatesUnique == Spec => []OneCertifiedPerRound
BY UniqueByInvariant, Invariance, PTL

\* Safety of the 2-chain commit rule.
THEOREM TwoChainSafety == Spec => []CommittedIsLocked
BY Locking, Invariance, PTL
--------------------------------------------------------------------------------
\* The block stores implement the ledger.

\* The blocks that may be in a log.
Committable == CommitProofs \cup {Genesis}

\* Everything committable lies on one chain.
LEMMA CommittableChain ==
    ASSUME IndInv
    PROVE  /\ Committable \subseteq Block /\ \A a \in Committable : round(a) \in Nat
           /\ OneChain(Committable)
<1>1. VotingTypeOK /\ CommittedIsLocked /\ Certified \subseteq Block
  BY Locking, CertifiedAreBlocks DEF IndInv, TypeOK
<1>2. ASSUME NEW b \in Certified, b # Genesis
      PROVE  parent(b) \in Certified
  BY Zenon, <1>2, CertifiedFacts, SafeProposalFacts DEF IndInv
<1>3. Committable \subseteq Certified
  BY <1>2 DEF Committable, CommitProofs, Certified
<1>4. Committable \subseteq Block /\ \A a \in Committable : round(a) \in Nat
  BY <1>1, <1>3, RoundIsNat
<1>5. ASSUME NEW a \in Committable, NEW c \in Committable, round(a) <= round(c)
      PROVE  IsAncestor(a, c)
  <2>1. CASE a = Genesis
    BY <2>1, <1>4, GenesisIsAncestor
  <2>2. CASE a # Genesis
    <3>1. PICK b \in Certified \ {Genesis} :
            a = parent(b) /\ commits_2chain(round(b), qc_round(b))
      BY <2>2 DEF Committable, CommitProofs
    <3>2. round(c) >= qc_round(b)
      BY <3>1, <1>4, <1>5 DEF qc_round
    <3> QED BY <3>1, <3>2, <1>1, <1>3 DEF CommittedIsLocked
  <2> QED BY <2>1, <2>2
<1> QED BY <1>4, <1>5 DEF OneChain

\* Nothing committable ceases to be.
LEMMA CommittableIsStable ==
    ASSUME votes \subseteq votes'
    PROVE  Committable \subseteq Committable'
BY CertifiedIsStable DEF Committable, CommitProofs

\* Votes are never withdrawn.
LEMMA VotesGrow == [Next]_vars => votes \subseteq votes'
BY Zenon DEF Next, vars, VoteTwoChain, ResendVote, RecordVote, ReturnLastVote, SendVote,
     SignTimeoutWithQC

\* The protocol with its block stores implements the abstract ledger: logs grow
\* at the end only and never diverge.
THEOREM LedgerRefinement == LSpec => LedgerSpec
<1> DEFINE LInv == IndInv /\ CommittedIn(Committable)
<1>1. LInit => LInv
  BY InitEstablishes DEF LInit, InitCommit, CommittedIn, Committable
<1>2. LInv /\ [LNext]_<<vars, committed>> => LInv' /\ [L!Next]_committed
  <2> SUFFICES ASSUME LInv, [LNext]_<<vars, committed>>
               PROVE  LInv' /\ [L!Next]_committed
    OBVIOUS
  <2>1. CASE [Next]_vars /\ UNCHANGED committed
    <3>1. IndInv'
      BY <2>1, StepPreserves
    <3>2. CommittedIn(Committable)'
      BY <2>1, VotesGrow, CommittableIsStable DEF CommittedIn
    <3> QED BY <2>1, <3>1, <3>2
  <2>2. ASSUME NEW n \in Node, NEW b \in CommitProofs, Commit(n, b), UNCHANGED vars
        PROVE  LInv' /\ L!Next
    <3>1. IndInv'
      BY <2>2, StepPreserves
    <3>2. Committable \subseteq Committable'
      BY <2>2, CommittableIsStable DEF vars
    <3>3. b \in Committable
      BY DEF Committable
    <3>4. L!Next
      <4> HIDE DEF Committable
      <4> QED BY <2>2, <3>3, CommittableChain, CommitRefines
    <3>5. CommittedIn(Committable)'
      BY <2>2, <3>2, <3>3 DEF CommittedIn, Commit
    <3> QED BY <3>1, <3>4, <3>5
  <2> QED BY <2>1, <2>2 DEF LNext, vars
<1>3. LInit => L!Init
  BY Zenon, InitRefines DEF LInit
<1> QED BY <1>1, <1>2, <1>3, PTL DEF LSpec, LedgerSpec, L!Spec
--------------------------------------------------------------------------------
\* The 3-chain rules.

\* What SafetyRules' persisted data says of the votes a validator sent.
DataCoversVotes ==
    /\ \A m \in votes :
        LET sd == safety[m.author]
        IN  /\ round(m.block) <= sd.last_voted_round
            /\ qc_parent_round(m.block) <= sd.preferred_round
            /\ round(m.block) <= round(sd.last_vote)
            /\ round(m.block) = round(sd.last_vote) => m.block = sd.last_vote
    /\ \A v \in Honest :
        LET sd == safety[v]
        IN  /\ round(sd.last_vote) <= sd.last_voted_round
            /\ qc_parent_round(sd.last_vote) <= sd.preferred_round

\* Votes, sent or only persisted, are for proposals on a certified parent.
VotesAreProposals ==
    /\ \A m \in votes : m.block \in Proposals
    /\ \A v \in Honest : safety[v].last_vote \in Proposals \cup {Genesis}

\* PreferredRoundIsKept for a vote that is persisted and not yet sent.
LastVoteKeepsPreferred ==
    \A m \in votes :
        LET b == safety[m.author].last_vote
        IN  round(m.block) < round(b) => qc_parent_round(m.block) <= qc_round(b)

IndInv3Chain ==
    /\ TypeOK3Chain
    /\ DataCoversVotes
    /\ VotesAreProposals
    /\ OneVotePerRound
    /\ PreferredRoundIsKept
    /\ LastVoteKeepsPreferred

\* Initially nothing has been signed.
LEMMA InitEstablishes3Chain == Init3Chain => IndInv3Chain
<1> SUFFICES ASSUME Init3Chain PROVE IndInv3Chain
  OBVIOUS
<1>1. Genesis \in Block /\ parent(Genesis) = Genesis /\ round(Genesis) = 0
  BY EmptySeq, SubSeqEmpty DEF Block, Genesis, parent, round
<1>2. TypeOK3Chain
  BY Zenon, <1>1 DEF Init3Chain, InitVoting, TypeOK3Chain, VotingTypeOK, SafetyData, Vote
<1>3. DataCoversVotes
  BY <1>1 DEF Init3Chain, InitVoting, DataCoversVotes, qc_parent_round
<1> QED BY Zenon, <1>2, <1>3 DEF Init3Chain, InitVoting, IndInv3Chain, VotesAreProposals, OneVotePerRound,
            PreferredRoundIsKept, LastVoteKeepsPreferred

\* The rounds that occur in votes and in persisted votes are naturals.
LEMMA VoteTypes3Chain ==
    ASSUME TypeOK3Chain
    PROVE  /\ \A w \in Honest : /\ safety[w] \in SafetyData
                                /\ round(safety[w].last_vote) \in Nat
                                /\ qc_round(safety[w].last_vote) \in Nat
                                /\ qc_parent_round(safety[w].last_vote) \in Nat
           /\ \A m \in votes : /\ m = [author |-> m.author, block |-> m.block]
                               /\ m.author \in Honest /\ m.block \in Block
                               /\ round(m.block) \in Nat /\ qc_round(m.block) \in Nat
                               /\ qc_parent_round(m.block) \in Nat
BY RoundIsNat, ParentIsBlock DEF TypeOK3Chain, VotingTypeOK, SafetyData, Vote, qc_round,
     qc_parent_round

\* A first vote in a round preserves the invariant.
LEMMA VoteStep3Chain ==
    ASSUME IndInv3Chain, NEW v \in Honest, NEW b \in Proposals, VoteThreeChain(v, b)
    PROVE  IndInv3Chain'
<1> DEFINE m0 == [author |-> v, block |-> b]
<1>1. TypeOK3Chain /\ DataCoversVotes /\ VotesAreProposals /\ OneVotePerRound
        /\ PreferredRoundIsKept /\ LastVoteKeepsPreferred
  BY DEF IndInv3Chain
<1>2. votes \subseteq votes' /\ votes' \subseteq votes \cup {m0}
  BY DEF VoteThreeChain, RecordVote, SendVote
<1>3. /\ safety' \in [Honest -> SafetyData]
      /\ \A w \in Honest \ {v} : safety'[w] = safety[w]
      /\ safety'[v].last_vote = b
      /\ safety'[v].last_voted_round = round(b)
      /\ safety'[v].preferred_round >= safety[v].preferred_round
      /\ safety'[v].preferred_round >= qc_parent_round(b)
  <2>1. RecordVote(v, b)
    BY DEF VoteThreeChain
  <2> QED BY <2>1, <1>1, RecordedData DEF TypeOK3Chain
<1>4. round(b) > safety[v].last_voted_round /\ qc_round(b) >= safety[v].preferred_round
  BY DEF VoteThreeChain, verify_last_vote_round, verify_preferred_round
<1>5. b \in Block /\ round(b) \in Nat /\ qc_round(b) \in Nat /\ qc_parent_round(b) \in Nat
  BY <1>1, ProposalFacts DEF TypeOK3Chain
<1>6. /\ safety[v] \in SafetyData /\ safety'[v] \in SafetyData
      /\ \A m \in votes : /\ m.author \in Honest /\ m.block \in Block
                          /\ round(m.block) \in Nat /\ qc_round(m.block) \in Nat
                          /\ qc_parent_round(m.block) \in Nat
  BY Zenon, <1>1, <1>3, VoteTypes3Chain
<1>7. TypeOK3Chain'
  BY SMTT(30), <1>1, <1>2, <1>3, <1>5 DEF TypeOK3Chain, VotingTypeOK, Vote
<1>8. \A m \in votes : m.author = v => /\ round(m.block) < round(b)
                                       /\ qc_parent_round(m.block) <= qc_round(b)
  BY <1>1, <1>4, <1>5, <1>6 DEF DataCoversVotes, SafetyData
<1>9. DataCoversVotes'
  <2>1. ASSUME NEW m \in votes'
        PROVE  /\ round(m.block) <= safety'[m.author].last_voted_round
               /\ qc_parent_round(m.block) <= safety'[m.author].preferred_round
               /\ round(m.block) <= round(safety'[m.author].last_vote)
               /\ round(m.block) = round(safety'[m.author].last_vote)
                    => m.block = safety'[m.author].last_vote
    <3>1. CASE m = m0
      BY SMTT(30), <3>1, <1>3, <1>5
    <3>2. CASE m \in votes /\ m.author = v
      BY SMTT(30), <3>2, <1>1, <1>3, <1>5, <1>6, <1>8 DEF DataCoversVotes, SafetyData
    <3>3. CASE m \in votes /\ m.author # v
      BY <3>3, <1>1, <1>3, <1>6 DEF DataCoversVotes
    <3> QED BY Zenon, <3>1, <3>2, <3>3, <1>2
  <2>2. \A w \in Honest : /\ round(safety'[w].last_vote) <= safety'[w].last_voted_round
                          /\ qc_parent_round(safety'[w].last_vote) <= safety'[w].preferred_round
    BY <1>1, <1>3, <1>5 DEF DataCoversVotes
  <2> QED BY Zenon, <2>1, <2>2 DEF DataCoversVotes
<1>10. VotesAreProposals'
  BY <1>1, <1>2, <1>3, CertifiedIsStable DEF VotesAreProposals
<1>11. OneVotePerRound'
  <2> SUFFICES ASSUME NEW m \in votes', NEW n \in votes', m.author = n.author,
                      round(m.block) = round(n.block)
               PROVE  m = n
    BY DEF OneVotePerRound
  <2>1. CASE m \in votes /\ n \in votes
    BY <2>1, <1>1 DEF OneVotePerRound
  <2>2. CASE m = m0 /\ n = m0
    BY <2>2
  <2>3. CASE m = m0 /\ n \in votes
    BY <2>3, <1>5, <1>6, <1>8
  <2>4. CASE m \in votes /\ n = m0
    BY <2>4, <1>5, <1>6, <1>8
  <2> QED BY <2>1, <2>2, <2>3, <2>4, <1>2
<1>12. PreferredRoundIsKept'
  <2> SUFFICES ASSUME NEW m \in votes', NEW n \in votes', m.author = n.author,
                      round(m.block) < round(n.block)
               PROVE  qc_parent_round(m.block) <= qc_round(n.block)
    BY DEF PreferredRoundIsKept
  <2>1. CASE m \in votes /\ n \in votes
    BY Zenon, <2>1, <1>1 DEF PreferredRoundIsKept
  <2>2. CASE m = m0
    BY <2>2, <1>2, <1>5, <1>6, <1>8
  <2>3. CASE m \in votes /\ n = m0
    BY Zenon, <2>3, <1>8
  <2> QED BY Zenon, <2>1, <2>2, <2>3, <1>2
<1>13. LastVoteKeepsPreferred'
  BY <1>1, <1>2, <1>3, <1>5, <1>6, <1>8 DEF LastVoteKeepsPreferred
<1> QED BY <1>7, <1>9, <1>10, <1>11, <1>12, <1>13 DEF IndInv3Chain

\* Returning the stored vote again preserves the invariant.
LEMMA ResendStep3Chain ==
    ASSUME IndInv3Chain, NEW v \in Honest, ReturnLastVote(v)
    PROVE  IndInv3Chain'
<1> DEFINE b == safety[v].last_vote
           m0 == [author |-> v, block |-> b]
<1>1. TypeOK3Chain /\ DataCoversVotes /\ VotesAreProposals /\ OneVotePerRound
        /\ PreferredRoundIsKept /\ LastVoteKeepsPreferred
  BY DEF IndInv3Chain
<1>2. /\ votes \subseteq votes' /\ votes' \subseteq votes \cup {m0}
      /\ safety' = safety /\ b # Genesis
  BY Zenon DEF ReturnLastVote, SendVote
<1>3. /\ b \in Proposals /\ b \in Block /\ round(b) \in Nat
      /\ \A m \in votes : round(m.block) \in Nat /\ m = [author |-> m.author, block |-> m.block]
  BY Zenon, <1>1, <1>2, VoteTypes3Chain DEF VotesAreProposals, SafetyData
<1>4. TypeOK3Chain'
  BY <1>1, <1>2, <1>3 DEF TypeOK3Chain, VotingTypeOK, Vote
<1>5. DataCoversVotes'
  <2>1. ASSUME NEW m \in votes'
        PROVE  /\ round(m.block) <= safety[m.author].last_voted_round
               /\ qc_parent_round(m.block) <= safety[m.author].preferred_round
               /\ round(m.block) <= round(safety[m.author].last_vote)
               /\ round(m.block) = round(safety[m.author].last_vote)
                    => m.block = safety[m.author].last_vote
    <3>1. CASE m = m0
      BY <3>1, <1>1, <1>3 DEF DataCoversVotes
    <3>2. CASE m \in votes
      BY Zenon, <3>2, <1>1 DEF DataCoversVotes
    <3> QED BY Zenon, <3>1, <3>2, <1>2
  <2> QED BY Zenon, <2>1, <1>1, <1>2 DEF DataCoversVotes
<1>6. VotesAreProposals'
  BY <1>1, <1>2, <1>3, CertifiedIsStable DEF VotesAreProposals
<1>7. \A m \in votes : m.author = v => /\ round(m.block) <= round(b)
                                       /\ round(m.block) = round(b) => m = m0
  BY Zenon, <1>1, <1>3 DEF DataCoversVotes
<1>8. OneVotePerRound'
  BY <1>1, <1>2, <1>7 DEF OneVotePerRound
<1>9. PreferredRoundIsKept'
  <2> SUFFICES ASSUME NEW m \in votes', NEW n \in votes', m.author = n.author,
                      round(m.block) < round(n.block)
               PROVE  qc_parent_round(m.block) <= qc_round(n.block)
    BY DEF PreferredRoundIsKept
  <2>1. CASE m \in votes /\ n \in votes
    BY Zenon, <2>1, <1>1 DEF PreferredRoundIsKept
  <2>2. CASE m = m0
    BY <2>2, <1>2, <1>3, <1>7
  <2>3. CASE m \in votes /\ n = m0
    BY Zenon, <2>3, <1>1 DEF LastVoteKeepsPreferred
  <2> QED BY Zenon, <2>1, <2>2, <2>3, <1>2
<1>10. LastVoteKeepsPreferred'
  BY <1>1, <1>2, <1>3 DEF LastVoteKeepsPreferred
<1> QED BY <1>4, <1>5, <1>6, <1>8, <1>9, <1>10 DEF IndInv3Chain

\* Signing a timeout preserves the invariant.
LEMMA TimeoutStep3Chain ==
    ASSUME IndInv3Chain, NEW v \in Honest, NEW r \in 1..(MaxRound - 1), SignTimeout(v, r)
    PROVE  IndInv3Chain'
<1>1. TypeOK3Chain /\ DataCoversVotes /\ VotesAreProposals /\ OneVotePerRound
        /\ PreferredRoundIsKept /\ LastVoteKeepsPreferred
  BY DEF IndInv3Chain
<1>2. r \in Nat
  BY MaxRoundAssumption
<1>3. votes' = votes /\ safety' = [safety EXCEPT ![v] = record_timeout(safety[v], r)]
  BY Zenon DEF SignTimeout
<1>4. /\ safety' \in [Honest -> SafetyData]
      /\ \A w \in Honest : /\ safety'[w].last_vote = safety[w].last_vote
                           /\ safety'[w].preferred_round = safety[w].preferred_round
                           /\ safety'[w].last_voted_round >= safety[w].last_voted_round
  BY Zenon, <1>1, <1>2, <1>3, TimeoutData DEF TypeOK3Chain
<1>5. TypeOK3Chain'
  BY Zenon, <1>1, <1>3, <1>4 DEF TypeOK3Chain, VotingTypeOK
<1>6. DataCoversVotes'
  <2>1. \A w \in Honest : safety[w].last_voted_round \in Nat /\ safety'[w].last_voted_round \in Nat
    BY Zenon, <1>1, <1>4 DEF TypeOK3Chain, VotingTypeOK, SafetyData
  <2> QED BY <2>1, <1>1, <1>3, <1>4, VoteTypes3Chain DEF DataCoversVotes
<1>7. VotesAreProposals'
  BY Zenon, <1>1, <1>3, <1>4, CertifiedIsStable DEF VotesAreProposals
<1>8. OneVotePerRound' /\ PreferredRoundIsKept'
  BY Zenon, <1>1, <1>3 DEF OneVotePerRound, PreferredRoundIsKept
<1>9. LastVoteKeepsPreferred'
  BY Zenon, <1>1, <1>3, <1>4, VoteTypes3Chain DEF LastVoteKeepsPreferred
<1> QED BY <1>5, <1>6, <1>7, <1>8, <1>9 DEF IndInv3Chain

\* Every step preserves the invariant.
LEMMA StepPreserves3Chain ==
    ASSUME IndInv3Chain, [Next3Chain]_vars3Chain
    PROVE  IndInv3Chain'
<1>1. ASSUME NEW v \in Honest, NEW b \in Proposals, VoteThreeChain(v, b) PROVE IndInv3Chain'
  BY <1>1, VoteStep3Chain
<1>2. ASSUME NEW v \in Honest, ReturnLastVote(v) PROVE IndInv3Chain'
  BY <1>2, ResendStep3Chain
<1>3. ASSUME NEW v \in Honest, NEW r \in 1..(MaxRound - 1), SignTimeout(v, r) PROVE IndInv3Chain'
  BY Zenon, <1>3, TimeoutStep3Chain
<1>4. CASE UNCHANGED vars3Chain
  BY Zenon, <1>4 DEF vars3Chain, IndInv3Chain, TypeOK3Chain, VotingTypeOK, DataCoversVotes, VotesAreProposals,
         OneVotePerRound, PreferredRoundIsKept, LastVoteKeepsPreferred, Proposals,
         Certified, IsCertified
<1> QED BY Zenon, <1>1, <1>2, <1>3, <1>4 DEF Next3Chain

\* The inductive invariant holds in every reachable state.
THEOREM Invariance3Chain == Spec3Chain => []IndInv3Chain
BY InitEstablishes3Chain, StepPreserves3Chain, PTL DEF Spec3Chain
--------------------------------------------------------------------------------
\* At most one block is certified in a round.
LEMMA UniqueByInvariant3Chain == IndInv3Chain => OneCertifiedPerRound
BY Zenon, UniqueCertificates DEF IndInv3Chain, TypeOK3Chain, VotesAreProposals

\* If b's certificate commits b's grandparent, a later certified block does not
\* skip back below that grandparent: a validator that voted for both would have
\* left its preferred round.
LEMMA NoFork ==
    ASSUME IndInv3Chain, NEW b \in Certified, b # Genesis, NEW c \in Certified, c # Genesis,
           round(b) < round(c)
    PROVE  qc_parent_round(b) <= qc_round(c)
<1>1. PICK Q1 \in Quorum : \A v \in Q1 \ Faulty : [author |-> v, block |-> b] \in votes
  BY DEF Certified, IsCertified
<1>2. PICK Q2 \in Quorum : \A v \in Q2 \ Faulty : [author |-> v, block |-> c] \in votes
  BY DEF Certified, IsCertified
<1>3. PICK v \in Honest : v \in Q1 /\ v \in Q2
  BY QuorumAssumption
<1>4. [author |-> v, block |-> b] \in votes /\ [author |-> v, block |-> c] \in votes
  BY Zenon, <1>1, <1>2, <1>3 DEF Honest
<1> QED BY <1>4 DEF IndInv3Chain, PreferredRoundIsKept

\* What is above a natural is not 0, and not at most that natural.
LEMMA AboveIsPositive == \A m, n \in Nat : (n > m => n > 0) /\ (m < n => ~(n <= m))
OBVIOUS

\* A block committed by the 3-chain rule is an ancestor of every block certified
\* in its round or later.  By contradiction, on a certified block of least round
\* that is none of its descendants.
LEMMA Locking3Chain == IndInv3Chain => CommittedIsLocked3Chain
<1> SUFFICES ASSUME IndInv3Chain, NEW b \in Certified,
                    commits_3chain(round(b), qc_round(b), qc_parent_round(b))
             PROVE  \A c \in Certified : round(c) >= qc_parent_round(b)
                                            => IsAncestor(parent(parent(b)), c)
  BY DEF CommittedIsLocked3Chain
<1> DEFINE a == parent(parent(b))
           Bad == {c \in Certified : round(c) >= round(a) /\ ~IsAncestor(a, c)}
           BadRounds == {round(c) : c \in Bad}
<1>1. VotingTypeOK /\ OneCertifiedPerRound
  BY Zenon, UniqueByInvariant3Chain DEF IndInv3Chain, TypeOK3Chain
<1>2. Certified \subseteq Block /\ \A c \in Certified \ {Genesis} : c \in Proposals
  BY Zenon, <1>1, CertifiedAreBlocks DEF IndInv3Chain, VotesAreProposals, Certified
<1>3. \A c \in Certified : round(c) \in Nat /\ (round(c) > 0 => c # Genesis)
  BY <1>2, RoundIsNat DEF round, Genesis
<1>4. /\ round(b) = qc_round(b) + 1 /\ qc_round(b) = qc_parent_round(b) + 1
      /\ qc_round(b) \in Nat /\ qc_parent_round(b) \in Nat
  BY Zenon, <1>2, RoundIsNat, ParentIsBlock DEF commits_3chain, qc_round, qc_parent_round
<1>5. b # Genesis /\ b \in Block /\ parent(b) \in Certified /\ parent(b) \in Block
  <2>1. b # Genesis
    BY <1>3, <1>4 DEF round, Genesis
  <2> QED BY Zenon, <2>1, <1>1, <1>2, ProposalFacts
<1>6. a \in Certified /\ a \in Block /\ round(a) = qc_parent_round(b)
  <2>1. parent(b) # Genesis
    BY <1>3, <1>4, <1>5 DEF qc_round, round, Genesis
  <2> QED BY Zenon, <2>1, <1>1, <1>2, <1>5, ProposalFacts DEF qc_parent_round
<1>7. IsAncestor(a, a) /\ IsAncestor(a, parent(b)) /\ IsAncestor(a, b)
  <2>1. IsAncestor(a, a)
    BY <1>6 DEF IsAncestor, Block
  <2>2. IsAncestor(a, parent(b))
    BY Zenon, <2>1, <1>5, <1>6, AncestorOfParent
  <2> QED BY Zenon, <2>1, <2>2, <1>5, <1>6, AncestorOfParent
<1>8. SUFFICES ASSUME Bad # {} PROVE FALSE
  BY Zenon, <1>6
<1> HIDE DEF a
<1>9. BadRounds \in SUBSET Nat /\ BadRounds # {}
  BY Zenon, <1>3, <1>8
<1>10. PICK least \in BadRounds : \A y \in BadRounds : least <= y
  BY Zenon, <1>9, NatMinimum
<1>11. PICK c \in Bad : round(c) = least
  BY Zenon
<1>12. round(c) > round(b)
  <2>1. round(c) # round(a)
    BY ZenonT(30), <1>1, <1>6, <1>7, <1>11 DEF OneCertifiedPerRound
  <2>2. round(c) # qc_round(b)
    BY Zenon, <1>1, <1>5, <1>7, <1>11 DEF OneCertifiedPerRound, qc_round
  <2>3. round(c) # round(b)
    BY Zenon, <1>1, <1>7, <1>11 DEF OneCertifiedPerRound
  <2> QED BY <2>1, <2>2, <2>3, <1>3, <1>4, <1>6, <1>11
<1>13. c # Genesis /\ c \in Proposals
  <2>1. round(c) \in Nat /\ round(b) \in Nat
    BY Zenon, <1>3
  <2>2. round(c) > 0
    BY Zenon, <1>12, <2>1, AboveIsPositive
  <2> QED BY Zenon, <1>2, <1>3, <2>2
<1>14. /\ parent(c) \in Certified /\ parent(c) \in Block /\ c \in Block
       /\ qc_round(c) \in Nat /\ round(c) \in Nat /\ qc_round(c) < round(c)
  BY <1>1, <1>13, ProposalFacts
<1>15. qc_round(c) >= round(a)
  BY Zenon, <1>4, <1>5, <1>6, <1>12, <1>13, <1>14, NoFork
<1>16. parent(c) \notin Bad
  <2> SUFFICES ASSUME parent(c) \in Bad PROVE FALSE
    BY Zenon
  <2>1. qc_round(c) \in BadRounds
    BY Zenon DEF qc_round
  <2>2. round(c) <= qc_round(c)
    BY Zenon, <2>1, <1>10, <1>11
  <2> QED BY Zenon, <2>2, <1>14, AboveIsPositive
<1>17. IsAncestor(a, parent(c))
  BY Zenon, <1>14, <1>15, <1>16 DEF qc_round
<1>18. IsAncestor(a, c)
  BY ZenonT(30), <1>6, <1>14, <1>17, AncestorOfParent
<1> QED BY Zenon, <1>18

\* Type correctness of the specification.
THEOREM TypeCorrect3Chain == Spec3Chain => []TypeOK3Chain
<1>1. IndInv3Chain => TypeOK3Chain
  BY DEF IndInv3Chain
<1> QED BY <1>1, Invariance3Chain, PTL

\* Later votes keep to the preferred round of earlier ones.
THEOREM PreferredKept == Spec3Chain => []PreferredRoundIsKept
<1>1. IndInv3Chain => PreferredRoundIsKept
  BY DEF IndInv3Chain
<1> QED BY <1>1, Invariance3Chain, PTL

\* At most one block is certified in a round.
THEOREM CertificatesUnique3Chain == Spec3Chain => []OneCertifiedPerRound
BY UniqueByInvariant3Chain, Invariance3Chain, PTL

\* Safety of the 3-chain commit rule.
THEOREM ThreeChainSafety == Spec3Chain => []CommittedIsLocked3Chain
BY Locking3Chain, Invariance3Chain, PTL
--------------------------------------------------------------------------------
\* The block stores implement the ledger.

\* The blocks that may be in a log.
Committable3Chain == CommitProofs3Chain \cup {Genesis}

\* Everything committable lies on one chain.
LEMMA CommittableChain3Chain ==
    ASSUME IndInv3Chain
    PROVE  /\ Committable3Chain \subseteq Block /\ \A a \in Committable3Chain : round(a) \in Nat
           /\ OneChain(Committable3Chain)
<1>1. VotingTypeOK /\ CommittedIsLocked3Chain /\ Certified \subseteq Block
  BY Locking3Chain, CertifiedAreBlocks DEF IndInv3Chain, TypeOK3Chain
<1>2. ASSUME NEW b \in Certified
      PROVE  parent(b) \in Certified
  <2>1. CASE b = Genesis
    BY <2>1, SubSeqEmpty DEF Certified, Genesis, parent
  <2>2. CASE b # Genesis
    <3>1. b \in Proposals
      BY <2>2 DEF Certified, IndInv3Chain, VotesAreProposals
    <3> QED BY Zenon, <3>1, <1>1, ProposalFacts
  <2> QED BY <2>1, <2>2
<1>3. Committable3Chain \subseteq Certified
  BY Zenon, <1>2 DEF Committable3Chain, CommitProofs3Chain, Certified
<1>4. Committable3Chain \subseteq Block /\ \A a \in Committable3Chain : round(a) \in Nat
  BY <1>1, <1>3, RoundIsNat
<1>5. ASSUME NEW a \in Committable3Chain, NEW c \in Committable3Chain, round(a) <= round(c)
      PROVE  IsAncestor(a, c)
  <2>1. CASE a = Genesis
    BY <2>1, <1>4, GenesisIsAncestor
  <2>2. CASE a # Genesis
    <3>1. PICK b \in Certified : /\ a = parent(parent(b))
                                 /\ commits_3chain(round(b), qc_round(b), qc_parent_round(b))
      BY <2>2 DEF Committable3Chain, CommitProofs3Chain
    <3>2. round(c) >= qc_parent_round(b)
      BY ZenonT(30), <3>1, <1>4, <1>5 DEF qc_parent_round
    <3> QED BY Zenon, <3>1, <3>2, <1>1, <1>3 DEF CommittedIsLocked3Chain
  <2> QED BY <2>1, <2>2
<1> QED BY <1>4, <1>5 DEF OneChain

\* Nothing committable ceases to be.
LEMMA CommittableIsStable3Chain ==
    ASSUME votes \subseteq votes'
    PROVE  Committable3Chain \subseteq Committable3Chain'
BY CertifiedIsStable DEF Committable3Chain, CommitProofs3Chain

\* Votes are never withdrawn.
LEMMA VotesGrow3Chain == [Next3Chain]_vars3Chain => votes \subseteq votes'
BY Zenon DEF Next3Chain, vars3Chain, VoteThreeChain, RecordVote, ReturnLastVote, SendVote, SignTimeout

\* The protocol with its block stores implements the abstract ledger: logs grow
\* at the end only and never diverge.
THEOREM LedgerRefinement3Chain == LSpec3Chain => LedgerSpec
<1> DEFINE LInv == IndInv3Chain /\ CommittedIn(Committable3Chain)
<1>1. LInit3Chain => LInv
  BY InitEstablishes3Chain DEF LInit3Chain, InitCommit, CommittedIn, Committable3Chain
<1>2. LInv /\ [LNext3Chain]_<<vars3Chain, committed>> => LInv' /\ [L!Next]_committed
  <2> SUFFICES ASSUME LInv, [LNext3Chain]_<<vars3Chain, committed>>
               PROVE  LInv' /\ [L!Next]_committed
    OBVIOUS
  <2>1. CASE [Next3Chain]_vars3Chain /\ UNCHANGED committed
    <3>1. IndInv3Chain'
      BY <2>1, StepPreserves3Chain
    <3>2. CommittedIn(Committable3Chain)'
      BY <2>1, VotesGrow3Chain, CommittableIsStable3Chain DEF CommittedIn
    <3> QED BY ZenonT(30), <2>1, <3>1, <3>2
  <2>2. ASSUME NEW n \in Node, NEW b \in CommitProofs3Chain, Commit(n, b), UNCHANGED vars3Chain
        PROVE  LInv' /\ L!Next
    <3>1. IndInv3Chain'
      BY <2>2, StepPreserves3Chain
    <3>2. Committable3Chain \subseteq Committable3Chain'
      BY <2>2, CommittableIsStable3Chain DEF vars3Chain
    <3>3. b \in Committable3Chain
      BY DEF Committable3Chain
    <3>4. L!Next
      <4> HIDE DEF Committable3Chain
      <4> QED BY Zenon, <2>2, <3>3, CommittableChain3Chain, CommitRefines
    <3>5. CommittedIn(Committable3Chain)'
      BY <2>2, <3>2, <3>3 DEF CommittedIn, Commit
    <3> QED BY <3>1, <3>4, <3>5
  <2> QED BY <2>1, <2>2 DEF LNext3Chain, vars3Chain
<1>3. LInit3Chain => L!Init
  BY InitRefines DEF LInit3Chain
<1> QED BY <1>1, <1>2, <1>3, PTL DEF LSpec3Chain, LedgerSpec, L!Spec
================================================================================
