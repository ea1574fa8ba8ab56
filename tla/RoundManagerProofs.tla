-------------------------- MODULE RoundManagerProofs ---------------------------
(***************************************************************************)
(* Proofs about RoundManager for any validators, quorums, rounds and       *)
(* restarts: the round follows the certificates, nothing goes back, no     *)
(* validator is in a round it cannot time out of, and certificates are     *)
(* backed by the votes of a quorum.  Of the constants the proofs assume    *)
(* ConfigAssumption only; nothing is asked of the quorums.  First the      *)
(* inductive invariant and the operations that preserve it (starting a     *)
(* round, inserting certificates, syncing up, voting and signing           *)
(* timeouts), then the handlers built from them.                           *)
(***************************************************************************)
EXTENDS RoundManager, SequenceTheorems, WellFoundedInduction, TLAPS
--------------------------------------------------------------------------------
\* Facts about naturals and chains of blocks.

\* A non-empty set of naturals has a least element.
LEMMA NatMinimum ==
    ASSUME NEW T \in SUBSET Nat, T # {}
    PROVE  \E x \in T : \A y \in T : x <= y
<1> DEFINE R == OpToRel(<, Nat)
<1>1. IsWellFoundedOn(R, Nat)
  BY Zenon, NatLessThanWellFounded
<1>2. PICK x \in T : \A y \in T : ~(<<y, x>> \in R)
  <2> HIDE DEF R
  <2> QED BY Zenon, <1>1, WFMin
<1>3. \A y \in T : ~(y < x)
  BY Zenon, <1>2 DEF OpToRel
<1> QED BY <1>3

\* A non-empty bounded set of naturals has a greatest element.
LEMMA NatMaximum ==
    ASSUME NEW T \in SUBSET Nat, T # {}, NEW R \in Nat, \A y \in T : y <= R
    PROVE  \E x \in T : \A y \in T : y <= x
<1> DEFINE U == {k \in Nat : \A y \in T : y <= k}
<1>1. U \in SUBSET Nat /\ U # {}
  OBVIOUS
<1>2. PICK x \in U : \A k \in U : x <= k
  BY Zenon, <1>1, NatMinimum
<1>3. x \in T
  <2> SUFFICES ASSUME x \notin T PROVE FALSE
    OBVIOUS
  <2>1. \A y \in T : y \in Nat /\ y < x
    OBVIOUS
  <2>2. PICK z \in T : TRUE
    BY Zenon
  <2>3. x - 1 \in Nat /\ \A y \in T : y <= x - 1
    BY <2>1, <2>2
  <2> QED BY <1>2, <2>3
<1> QED BY <1>3

\* A natural is at least itself.
LEMMA AtLeastItself == \A k \in Nat : k >= k
OBVIOUS

\* Rounds are naturals.
LEMMA RoundIsNat == ASSUME NEW b \in Block PROVE round(b) \in Nat
<1>1. CASE b = << >>
  BY <1>1 DEF round, Genesis
<1>2. CASE b # << >>
  <2>1. Len(b) \in 1..Len(b)
    BY <1>2 DEF Block
  <2>2. b[Len(b)] \in Entry
    BY <2>1, ElementOfSeq DEF Block
  <2> QED BY <1>2, <2>2 DEF Entry, round, Genesis
<1> QED BY <1>1, <1>2

\* The parent of a block is a block.
LEMMA ParentIsBlock == ASSUME NEW b \in Block PROVE parent(b) \in Block
BY DEF Block, parent

\* What appending an entry to a chain makes.
LEMMA ChildFacts ==
    ASSUME NEW p \in Block, NEW e \in Entry
    PROVE  /\ Append(p, e) \in Block
           /\ Append(p, e) # Genesis
           /\ parent(Append(p, e)) = p
           /\ round(Append(p, e)) = e.round
<1>1. Append(p, e) \in Seq(Entry) /\ Len(Append(p, e)) = Len(p) + 1 /\ Append(p,e)[Len(p)+1] = e
  BY DEF Block
<1>2. SubSeq(Append(p, e), 1, Len(p)) = p
  BY DEF Block
<1> QED BY <1>1, <1>2 DEF Block, Genesis, parent, round

\* The inductive invariant.  Certificates and votes are for blocks whose round is not
\* below that of their parent.
Proper == {b \in Block : qc_round(b) <= round(b)}

ProperVote == [author : Validator, block : Proper, timeout : SUBSET Nat]

PendingState == [author_to_vote : SUBSET ProperVote, partial_tc : SUBSET ProperVote]

RState == [current_round : Nat, vote_sent : SUBSET ProperVote, pending_votes : PendingState]

ProperSafety == [last_voted_round : Nat, preferred_round : Nat, one_chain_round : Nat,
                 last_vote : Proper]

NodeState == [qc : Proper, tc : TimeoutCert, blocks : SUBSET Block, rs : RState,
              saved_vote : SUBSET ProperVote, safety : ProperSafety]

VotesIn(M) == {m.vote : m \in {k \in M : k.type = "Vote"}}

QCBacked(b, M) == b = Genesis \/ check_voting_power({v \in VotesIn(M) : v.block = b})

TCBacked(tc, M) ==
    tc = NoTC \/ check_voting_power({v \in VotesIn(M) :
        round(v.block) = tc.round /\ is_timeout(v) /\ \A h \in v.timeout : h <= tc.hqc_round})

\* A fetch that fails half-way leaves the QC of an ancestor: all have one.
ChainBacked(b, M) ==
    \A i \in 0..Len(b) : SubSeq(b, 1, i) \in Proper /\ QCBacked(SubSeq(b, 1, i), M)

\* The certificates of a validator or of a SyncInfo.
CertsOK(c, M) ==
    /\ ChainBacked(c.qc, M) /\ TCBacked(c.tc, M)
    /\ c.tc.hqc_round <= round(c.qc)

\* A vote of the current round whose timeout is on a QC not above the validator's.
VoteOK(s, v) ==
    /\ round(v.block) = s.rs.current_round
    /\ \A h \in v.timeout : h <= round(s.qc)

\* What SafetyRules have signed is of the current round or before, on certificates that
\* the block store has.
SafetyOK(s) ==
    /\ s.safety.last_voted_round = round(s.safety.last_vote)
    /\ s.safety.last_voted_round <= s.rs.current_round
    /\ s.safety.one_chain_round <= round(s.qc)
    /\ s.safety.preferred_round <= round(s.qc)

SentOK(n, s) ==
    /\ \A v \in s.rs.vote_sent :
         v.author = n /\ VoteOK(s, v) /\ s.safety.last_voted_round = s.rs.current_round
    /\ \A v \in s.saved_vote :
         v.author = n /\ v.timeout = {} /\ round(v.block) <= s.safety.last_voted_round

\* The blocks voted for extend certified ones.
ParentsOK(s, M) ==
    /\ ChainBacked(parent(s.safety.last_vote), M)
    /\ \A v \in s.rs.vote_sent : ChainBacked(parent(v.block), M)
    /\ \A v \in s.saved_vote : ChainBacked(parent(v.block), M)

PendingOK(s, M) ==
    /\ \A v \in s.rs.pending_votes.author_to_vote :
         v \in VotesIn(M) /\ round(v.block) = s.rs.current_round
    /\ \A v \in s.rs.pending_votes.partial_tc :
         v \in VotesIn(M) /\ VoteOK(s, v) /\ is_timeout(v)

Highest(c) == MaxOf(round(c.qc), c.tc.round)

\* The state between the insertion of a certificate and the start of the round.
NodeBase(n, s, M) ==
    /\ s \in NodeState
    /\ CertsOK(s, M)
    /\ s.rs.current_round <= Highest(s) + 1
    /\ SafetyOK(s)
    /\ SentOK(n, s)
    /\ ParentsOK(s, M)
    /\ PendingOK(s, M)

NodeOK(n, s, M) == NodeBase(n, s, M) /\ s.rs.current_round = Highest(s) + 1

\* A SyncInfo has a timeout certificate only if it is above its QC.
SyncOK(si, M) ==
    /\ si \in [qc : Proper, tc : TimeoutCert]
    /\ CertsOK(si, M)
    /\ si.tc.round = 0 \/ si.tc.round > round(si.qc)

\* The round of a message is the one that its SyncInfo leads to.
MsgOK(m, M) ==
    /\ SyncOK(m.sync, M)
    /\ m.type \in {"Proposal", "Vote", "SyncInfo"}
    /\ m.type = "Proposal" =>
         /\ m.block \in Proper /\ parent(m.block) = m.sync.qc
         /\ round(m.block) = Highest(m.sync) + 1
    /\ m.type = "Vote" =>
         /\ m.vote \in ProperVote
         /\ round(m.vote.block) = Highest(m.sync) + 1
         /\ \A h \in m.vote.timeout : h <= round(m.sync.qc)
         /\ ChainBacked(parent(m.vote.block), M)

Grows(s, t) ==
    /\ round(t.qc) >= round(s.qc)
    /\ t.tc.round >= s.tc.round
    /\ t.rs.current_round >= s.rs.current_round

\* What a handler of n may make of state s, given that the messages M have been sent.
OutcomeOK(n, s, o, M) ==
    /\ NodeOK(n, o.node, M)
    /\ \A m \in o.sends : MsgOK(m, M)
    /\ Grows(s, o.node)

IInv ==
    /\ config \in Config
    /\ restarts \in Nat
    /\ node \in [Validator -> NodeState]
    /\ \A n \in Validator : NodeOK(n, node[n], msgs)
    /\ \A m \in msgs : MsgOK(m, msgs)
--------------------------------------------------------------------------------
\* Certificates and messages.

\* The rounds of proper blocks, and genesis is one of them.
LEMMA ProperFacts ==
    /\ Genesis \in Proper
    /\ \A b \in Proper : b \in Block /\ round(b) \in Nat /\ qc_round(b) \in Nat
<1>1. Genesis \in Block
  BY EmptySeq DEF Block, Genesis
<1>2. parent(Genesis) = Genesis
  BY DEF parent, Genesis
<1>3. Genesis \in Proper
  BY <1>1, <1>2 DEF Proper, qc_round, round
<1> QED BY <1>3, RoundIsNat, ParentIsBlock DEF Proper, qc_round

\* A block proposed on a certified one in a later round is proper.
LEMMA ProposedIsProper ==
    ASSUME NEW q \in Proper, NEW r \in Nat, NEW x \in Payload, r > round(q)
    PROVE  LET b == Append(q, [round |-> r, payload |-> x])
           IN  b \in Proper /\ parent(b) = q /\ round(b) = r
<1> DEFINE e == [round |-> r, payload |-> x]
<1>1. q \in Block /\ round(q) \in Nat
  BY ProperFacts
<1>2. e \in Entry /\ e.round = r
  BY <1>1 DEF Entry
<1> HIDE DEF e
<1>3. Append(q, e) \in Block /\ parent(Append(q, e)) = q /\ round(Append(q, e)) = r
  BY <1>1, <1>2, ChildFacts
<1> QED BY <1>1, <1>3 DEF Proper, qc_round, e

\* The part of a chain of certified blocks up to one of them.
LEMMA PrefixIsBacked ==
    ASSUME NEW M, NEW b \in Block, ChainBacked(b, M), NEW j \in 0..Len(b)
    PROVE  /\ SubSeq(b, 1, j) \in Proper /\ QCBacked(SubSeq(b, 1, j), M)
           /\ ChainBacked(SubSeq(b, 1, j), M)
<1> DEFINE c == SubSeq(b, 1, j)
<1>1. c \in Proper /\ QCBacked(c, M)
  BY DEF ChainBacked
<1>2. ASSUME NEW i \in 0..Len(c) PROVE SubSeq(c, 1, i) = SubSeq(b, 1, i) /\ i \in 0..Len(b)
  BY <1>2 DEF Block
<1>3. ChainBacked(c, M)
  BY Zenon, <1>2 DEF ChainBacked
<1> QED BY <1>1, <1>3

\* The block at the end of a chain of certified blocks is one of them.
LEMMA ChainEnd ==
    ASSUME NEW M, NEW b \in Block, ChainBacked(b, M)
    PROVE  b \in Proper /\ QCBacked(b, M)
<1>1. SubSeq(b, 1, Len(b)) = b /\ Len(b) \in 0..Len(b)
  BY DEF Block
<1> QED BY Zenon, <1>1 DEF ChainBacked

\* A certified block extends a chain of certified blocks.
LEMMA ChainExtends ==
    ASSUME NEW M, NEW b \in Proper, ChainBacked(parent(b), M), QCBacked(b, M)
    PROVE  ChainBacked(b, M)
<1> SUFFICES ASSUME NEW i \in 0..Len(b)
             PROVE  SubSeq(b, 1, i) \in Proper /\ QCBacked(SubSeq(b, 1, i), M)
  BY DEF ChainBacked
<1>1. b \in Seq(Entry)
  BY DEF Proper, Block
<1>2. CASE i = Len(b)
  <2>1. SubSeq(b, 1, i) = b
    BY <1>1, <1>2
  <2> QED BY Zenon, <2>1
<1>3. CASE i # Len(b)
  <2>1. i \in 0..Len(parent(b)) /\ SubSeq(parent(b), 1, i) = SubSeq(b, 1, i)
    BY <1>1, <1>3 DEF parent
  <2>2. SubSeq(parent(b), 1, i) \in Proper /\ QCBacked(SubSeq(parent(b), 1, i), M)
    BY <2>1 DEF ChainBacked
  <2> QED BY Zenon, <2>1, <2>2
<1> QED BY <1>2, <1>3

\* Genesis and its parent are certified.
LEMMA GenesisIsBacked ==
    ASSUME NEW M
    PROVE  ChainBacked(Genesis, M) /\ parent(Genesis) = Genesis
<1>1. Len(Genesis) = 0 /\ \A i \in 0..0 : SubSeq(Genesis, 1, i) = Genesis
  BY SubSeqEmpty DEF Genesis
<1>2. parent(Genesis) = Genesis
  BY DEF parent, Genesis
<1> QED BY Zenon, <1>1, <1>2, ProperFacts DEF ChainBacked, QCBacked

\* More votes have the power that some have.
LEMMA PowerGrows ==
    ASSUME NEW S, NEW T, S \subseteq T, check_voting_power(S)
    PROVE  check_voting_power(T)
BY DEF check_voting_power

\* What messages back they back together with others.
LEMMA BackingGrows ==
    ASSUME NEW M, NEW N, M \subseteq N
    PROVE  /\ VotesIn(M) \subseteq VotesIn(N)
           /\ \A b : ChainBacked(b, M) => ChainBacked(b, N)
           /\ \A c : CertsOK(c, M) => CertsOK(c, N)
<1>1. VotesIn(M) \subseteq VotesIn(N)
  BY DEF VotesIn
<1>2. \A b : QCBacked(b, M) => QCBacked(b, N)
  <2> TAKE b
  <2>1. {v \in VotesIn(M) : v.block = b} \subseteq {v \in VotesIn(N) : v.block = b}
    BY <1>1
  <2> QED BY <2>1, PowerGrows DEF QCBacked
<1>3. \A tc : TCBacked(tc, M) => TCBacked(tc, N)
  <2> TAKE tc
  <2> DEFINE P(v) == round(v.block) = tc.round /\ is_timeout(v)
                       /\ \A h \in v.timeout : h <= tc.hqc_round
  <2>1. {v \in VotesIn(M) : P(v)} \subseteq {v \in VotesIn(N) : P(v)}
    BY <1>1
  <2> QED BY <2>1, PowerGrows DEF TCBacked
<1>4. \A b : ChainBacked(b, M) => ChainBacked(b, N)
  BY <1>2 DEF ChainBacked
<1> QED BY <1>1, <1>3, <1>4 DEF CertsOK

\* What holds of states and messages holds when more messages have been sent.
LEMMA InvariantsGrow ==
    ASSUME NEW M, NEW N, M \subseteq N
    PROVE  /\ \A n, s : NodeOK(n, s, M) => NodeOK(n, s, N)
           /\ \A m : MsgOK(m, M) => MsgOK(m, N)
BY Zenon, BackingGrows DEF NodeOK, NodeBase, PendingOK, ParentsOK, MsgOK, SyncOK

\* The larger of two rounds.
LEMMA MaxFacts ==
    ASSUME NEW a \in Nat, NEW b \in Nat
    PROVE  /\ MaxOf(a, b) \in Nat /\ MaxOf(a, b) >= a /\ MaxOf(a, b) >= b
           /\ MaxOf(a, b) = a \/ MaxOf(a, b) = b
BY DEF MaxOf

\* The parts of the state of a validator.
LEMMA NodeTypes ==
    ASSUME NEW s \in NodeState
    PROVE  /\ s.qc \in Proper /\ s.qc \in Block /\ round(s.qc) \in Nat
           /\ s.tc \in TimeoutCert /\ s.tc.round \in Nat /\ s.tc.hqc_round \in Nat
           /\ s.rs.current_round \in Nat
           /\ Highest(s) \in Nat /\ Highest(s) >= round(s.qc) /\ Highest(s) >= s.tc.round
           /\ Highest(s) = round(s.qc) \/ Highest(s) = s.tc.round
<1>1. s.qc \in Proper /\ s.tc \in TimeoutCert /\ s.rs \in RState
  BY DEF NodeState
<1>2. s.tc.round \in Nat /\ s.tc.hqc_round \in Nat /\ s.rs.current_round \in Nat
  BY <1>1 DEF TimeoutCert, RState
<1> QED BY Zenon, <1>1, <1>2, ProperFacts, MaxFacts DEF Highest

\* The SyncInfo of a validator leads to the round that its certificates lead to.
LEMMA SyncInfoOK ==
    ASSUME NEW s \in NodeState, NEW M, CertsOK(s, M)
    PROVE  /\ SyncOK(sync_info(s), M)
           /\ highest_round(sync_info(s)) = Highest(s)
           /\ Highest(sync_info(s)) = Highest(s)
           /\ sync_info(s).qc = s.qc
<1> DEFINE tc == IF s.tc.round > round(s.qc) THEN s.tc ELSE NoTC
<1>1. s.qc \in Proper /\ round(s.qc) \in Nat /\ s.tc \in TimeoutCert /\ s.tc.round \in Nat
  BY NodeTypes
<1>2. NoTC \in TimeoutCert /\ NoTC.round = 0 /\ NoTC.hqc_round = 0
  BY DEF NoTC, TimeoutCert
<1>3. tc \in TimeoutCert /\ tc.hqc_round <= round(s.qc) /\ TCBacked(tc, M)
  <2>1. TCBacked(NoTC, M)
    BY DEF TCBacked
  <2>2. TCBacked(s.tc, M) /\ s.tc.hqc_round <= round(s.qc)
    BY DEF CertsOK
  <2> QED BY <1>1, <1>2, <2>1, <2>2
<1>4. (tc.round = 0 \/ tc.round > round(s.qc)) /\ MaxOf(round(s.qc), tc.round) = Highest(s)
  BY <1>1, <1>2 DEF MaxOf, Highest
<1>5. sync_info(s) = [qc |-> s.qc, tc |-> tc]
  BY DEF sync_info
<1> HIDE DEF tc
<1>6. sync_info(s).qc = s.qc /\ sync_info(s).tc = tc /\ sync_info(s) \in [qc : Proper, tc : TimeoutCert]
  BY <1>1, <1>3, <1>5
<1> QED BY <1>3, <1>4, <1>6 DEF SyncOK, CertsOK, highest_round, Highest

\* A validator proposes in its round, on its QC.
LEMMA ProposeOK ==
    ASSUME NEW n \in Validator, NEW s, NEW M, NodeOK(n, s, M), NEW m \in Propose(n, s)
    PROVE  MsgOK(m, M)
<1> DEFINE r == s.rs.current_round
           b == Append(s.qc, [round |-> r, payload |-> n])
           si == sync_info(s)
<1>1. s \in NodeState /\ CertsOK(s, M) /\ r = Highest(s) + 1
  BY DEF NodeOK, NodeBase
<1>2. m = [type |-> "Proposal", author |-> n, block |-> b, sync |-> si]
  BY DEF Propose
<1>3. r \in Nat /\ r > round(s.qc) /\ s.qc \in Proper
  BY <1>1, NodeTypes
<1>4. n \in Payload
  BY ConfigAssumption
<1>5. b \in Proper /\ parent(b) = s.qc /\ round(b) = r
  BY <1>3, <1>4, ProposedIsProper
<1>6. SyncOK(si, M) /\ Highest(si) = Highest(s) /\ si.qc = s.qc
  BY <1>1, SyncInfoOK
<1> HIDE DEF r, b, si
<1>7. m.type = "Proposal" /\ m.block = b /\ m.sync = si
  BY <1>2
<1> QED BY <1>1, <1>5, <1>6, <1>7 DEF MsgOK

\* Replacing one field of the state of a validator.
LEMMA WithRs ==
    ASSUME NEW s \in NodeState, NEW r \in RState
    PROVE  LET t == [s EXCEPT !.rs = r]
           IN  /\ t \in NodeState /\ t.rs = r
               /\ t.qc = s.qc /\ t.tc = s.tc /\ t.blocks = s.blocks
               /\ t.saved_vote = s.saved_vote /\ t.safety = s.safety
BY DEF NodeState

\* The round that the certificates lead to starts, without votes.
LEMMA StartRoundOK ==
    ASSUME NEW n \in Validator, NEW s, NEW M, NodeBase(n, s, M)
    PROVE  /\ NodeOK(n, StartRound(n, s).node, M)
           /\ \A m \in StartRound(n, s).sends : MsgOK(m, M)
           /\ StartRound(n, s).node.qc = s.qc
           /\ StartRound(n, s).node.tc = s.tc
           /\ StartRound(n, s).node.rs.current_round >= s.rs.current_round
<1> DEFINE r == process_certificates(s.rs, highest_round(sync_info(s)))
           t == [s EXCEPT !.rs = r]
           sends == IF t.rs.current_round > s.rs.current_round THEN Propose(n, t) ELSE {}
<1>1. s \in NodeState /\ CertsOK(s, M) /\ s.rs.current_round <= Highest(s) + 1
  BY DEF NodeBase
<1>2. Highest(s) \in Nat /\ s.rs.current_round \in Nat /\ s.rs \in RState
  BY <1>1, NodeTypes DEF NodeState
<1>3. highest_round(sync_info(s)) = Highest(s)
  BY <1>1, SyncInfoOK
<1>4. StartRound(n, s) = [node |-> t, sends |-> sends]
  BY DEF StartRound, Outcome
<1>5. CASE Highest(s) + 1 > s.rs.current_round
  <2> DEFINE fresh == [NewRoundState EXCEPT !.current_round = Highest(s) + 1]
  <2>1. r = fresh
    BY <1>3, <1>5 DEF process_certificates
  <2>2. /\ fresh \in RState /\ fresh.current_round = Highest(s) + 1 /\ fresh.vote_sent = {}
        /\ fresh.pending_votes.author_to_vote = {} /\ fresh.pending_votes.partial_tc = {}
    BY <1>2 DEF NewRoundState, RState, NewPendingVotes, PendingState
  <2> HIDE DEF fresh, r
  <2>3. /\ t \in NodeState /\ t.rs = fresh /\ t.qc = s.qc /\ t.tc = s.tc
        /\ t.saved_vote = s.saved_vote /\ t.safety = s.safety
    BY <1>1, <2>1, <2>2, WithRs
  <2> HIDE DEF t
  <2>4. CertsOK(t, M) /\ t.rs.current_round = Highest(t) + 1
    BY <1>1, <2>2, <2>3 DEF CertsOK, Highest
  <2>5. SafetyOK(t)
    <3>1. SafetyOK(s) /\ s.safety \in ProperSafety
      BY Zenon, <1>1 DEF NodeBase, NodeState
    <3> QED BY <1>2, <1>5, <2>2, <2>3, <3>1 DEF SafetyOK, ProperSafety
  <2>6. SentOK(n, t) /\ ParentsOK(t, M) /\ PendingOK(t, M)
    BY <2>2, <2>3 DEF NodeBase, SentOK, ParentsOK, PendingOK
  <2>7. NodeOK(n, t, M)
    BY <2>3, <2>4, <2>5, <2>6, NodeTypes DEF NodeOK, NodeBase
  <2>8. \A m \in sends : MsgOK(m, M)
    BY <2>7, ProposeOK
  <2>9. t.rs.current_round >= s.rs.current_round
    BY <1>2, <1>5, <2>2, <2>3
  <2> HIDE DEF sends
  <2> QED BY <1>4, <2>3, <2>7, <2>8, <2>9
<1>6. CASE ~(Highest(s) + 1 > s.rs.current_round)
  <2>1. r = s.rs
    BY <1>3, <1>6 DEF process_certificates
  <2> HIDE DEF r
  <2>2. t = s
    BY <1>1, <2>1 DEF NodeState
  <2> HIDE DEF t
  <2>3. sends = {}
    BY <1>2, <2>2
  <2>4. NodeOK(n, s, M)
    BY <1>1, <1>2, <1>6 DEF NodeOK
  <2> QED BY <1>2, <1>4, <2>2, <2>3, <2>4
<1> QED BY <1>5, <1>6
--------------------------------------------------------------------------------
\* Certificates that are inserted.

\* The votes counted for a round stay so when the QC rises.
LEMMA RisingQC ==
    ASSUME NEW n, NEW s, NEW M, NEW t, NodeBase(n, s, M), t \in NodeState,
           round(t.qc) >= round(s.qc),
           t.rs = s.rs, t.saved_vote = s.saved_vote, t.safety = s.safety
    PROVE  SafetyOK(t) /\ SentOK(n, t) /\ ParentsOK(t, M) /\ PendingOK(t, M)
<1>1. s \in NodeState /\ SafetyOK(s) /\ SentOK(n, s) /\ ParentsOK(s, M) /\ PendingOK(s, M)
  BY DEF NodeBase
<1>2. round(s.qc) \in Nat /\ round(t.qc) \in Nat
  BY <1>1, NodeTypes
<1>3. s.safety \in ProperSafety /\ s.rs \in RState
  BY <1>1 DEF NodeState
<1>4. SafetyOK(t)
  BY <1>1, <1>2, <1>3 DEF SafetyOK, ProperSafety
<1>5. \A v \in ProperVote : VoteOK(s, v) => VoteOK(t, v)
  <2> SUFFICES ASSUME NEW v \in ProperVote, VoteOK(s, v) PROVE VoteOK(t, v)
    OBVIOUS
  <2>1. v.timeout \subseteq Nat
    BY DEF ProperVote
  <2> QED BY <1>2, <2>1 DEF VoteOK
<1>6. s.rs.vote_sent \subseteq ProperVote /\ s.rs.pending_votes.partial_tc \subseteq ProperVote
  BY <1>3 DEF RState, PendingState
<1>7. SentOK(n, t)
  BY <1>1, <1>5, <1>6 DEF SentOK
<1>8. PendingOK(t, M)
  BY <1>1, <1>5, <1>6 DEF PendingOK
<1>9. ParentsOK(t, M)
  BY <1>1 DEF ParentsOK
<1> QED BY <1>4, <1>7, <1>8, <1>9

\* insert_quorum_cert takes a QC that is higher.
LEMMA InsertQC ==
    ASSUME NEW n, NEW s, NEW M, NodeBase(n, s, M), NEW b \in Proper, ChainBacked(b, M)
    PROVE  LET t == insert_quorum_cert(s, b)
           IN  /\ NodeBase(n, t, M)
               /\ round(t.qc) >= round(s.qc) /\ round(t.qc) >= round(b)
               /\ t.tc = s.tc /\ t.rs = s.rs
<1> DEFINE B == s.blocks \cup {SubSeq(b, 1, i) : i \in 0..Len(b)}
           q == IF round(b) > round(s.qc) THEN b ELSE s.qc
           t == [s EXCEPT !.blocks = B, !.qc = q]
<1>1. s \in NodeState /\ CertsOK(s, M) /\ s.rs.current_round <= Highest(s) + 1
  BY DEF NodeBase
<1>2. b \in Block /\ round(b) \in Nat /\ round(s.qc) \in Nat /\ s.qc \in Proper
  BY <1>1, NodeTypes, ProperFacts
<1>3. B \subseteq Block
  <2>1. \A i \in 0..Len(b) : SubSeq(b, 1, i) \in Block
    BY <1>2 DEF Block
  <2>2. s.blocks \subseteq Block
    BY <1>1 DEF NodeState
  <2> QED BY Zenon, <2>1, <2>2
<1>4. q \in Proper /\ round(q) >= round(s.qc) /\ round(q) >= round(b) /\ ChainBacked(q, M)
  BY <1>1, <1>2 DEF CertsOK
<1>5. insert_quorum_cert(s, b) = t
  BY DEF insert_quorum_cert
<1> HIDE DEF B, q
<1>6. /\ t \in NodeState /\ t.qc = q /\ t.tc = s.tc /\ t.rs = s.rs
      /\ t.saved_vote = s.saved_vote /\ t.safety = s.safety
  BY Zenon, <1>1, <1>3, <1>4 DEF NodeState
<1> HIDE DEF t
<1>7. SafetyOK(t) /\ SentOK(n, t) /\ ParentsOK(t, M) /\ PendingOK(t, M)
  BY Zenon, <1>4, <1>6, RisingQC
<1>8. CertsOK(t, M)
  BY <1>1, <1>2, <1>4, <1>6, NodeTypes DEF CertsOK
<1>9. t.rs.current_round <= Highest(t) + 1
  BY <1>1, <1>4, <1>6, NodeTypes
<1> QED BY Zenon, <1>4, <1>5, <1>6, <1>7, <1>8, <1>9 DEF NodeBase

\* insert_timeout_certificate takes no lower certificate if it is given none.
LEMMA InsertTC ==
    ASSUME NEW n, NEW s, NEW M, NodeBase(n, s, M), NEW tc \in TimeoutCert,
           TCBacked(tc, M), tc.hqc_round <= round(s.qc), tc.round >= s.tc.round \/ tc.round = 0
    PROVE  LET t == insert_timeout_certificate(s, tc)
           IN  /\ NodeBase(n, t, M)
               /\ t.tc.round >= s.tc.round /\ t.tc.round >= tc.round
               /\ t.qc = s.qc /\ t.rs = s.rs
<1> DEFINE t == [s EXCEPT !.tc = tc]
<1>1. s \in NodeState /\ CertsOK(s, M) /\ s.rs.current_round <= Highest(s) + 1
  BY DEF NodeBase
<1>2. s.tc.round \in Nat /\ tc.round \in Nat
  BY <1>1, NodeTypes DEF TimeoutCert
<1>3. \/ insert_timeout_certificate(s, tc) = s /\ s.tc.round >= tc.round
      \/ insert_timeout_certificate(s, tc) = t /\ tc.round >= s.tc.round
  BY <1>2 DEF insert_timeout_certificate
<1>4. CASE insert_timeout_certificate(s, tc) = s /\ s.tc.round >= tc.round
  BY <1>2, <1>4
<1>5. CASE insert_timeout_certificate(s, tc) = t /\ tc.round >= s.tc.round
  <2>1. /\ t \in NodeState /\ t.tc = tc /\ t.qc = s.qc /\ t.rs = s.rs
        /\ t.saved_vote = s.saved_vote /\ t.safety = s.safety
    BY <1>1 DEF NodeState
  <2> HIDE DEF t
  <2>2. SafetyOK(t) /\ SentOK(n, t) /\ ParentsOK(t, M) /\ PendingOK(t, M)
    <3>1. round(t.qc) >= round(s.qc)
      BY <1>1, <2>1, NodeTypes
    <3> QED BY Zenon, <2>1, <3>1, RisingQC
  <2>3. CertsOK(t, M)
    BY <1>1, <2>1 DEF CertsOK
  <2>4. t.rs.current_round <= Highest(t) + 1
    BY <1>1, <1>5, <2>1, NodeTypes
  <2> QED BY <1>2, <1>5, <2>1, <2>2, <2>3, <2>4 DEF NodeBase
<1> QED BY <1>3, <1>4, <1>5

\* What a SyncInfo is made of.
LEMMA SyncTypes ==
    ASSUME NEW M, NEW si, SyncOK(si, M)
    PROVE  /\ si.qc \in Proper /\ round(si.qc) \in Nat /\ ChainBacked(si.qc, M)
           /\ si.tc \in TimeoutCert /\ si.tc.round \in Nat /\ si.tc.hqc_round \in Nat
           /\ TCBacked(si.tc, M) /\ si.tc.hqc_round <= round(si.qc)
           /\ si.tc.round = 0 \/ si.tc.round > round(si.qc)
           /\ Highest(si) = highest_round(si) /\ Highest(si) \in Nat
           /\ si.tc.round # 0 => Highest(si) = si.tc.round
<1>1. /\ si.qc \in Proper /\ si.tc \in TimeoutCert
      /\ ChainBacked(si.qc, M) /\ TCBacked(si.tc, M) /\ si.tc.hqc_round <= round(si.qc)
      /\ si.tc.round = 0 \/ si.tc.round > round(si.qc)
  BY DEF SyncOK, CertsOK
<1>2. round(si.qc) \in Nat /\ si.tc.round \in Nat /\ si.tc.hqc_round \in Nat
  BY <1>1, ProperFacts DEF TimeoutCert
<1> QED BY <1>1, <1>2 DEF Highest, highest_round, MaxOf

\* The parts of a handler's outcome.
LEMMA OutcomeParts == \A s, M : Outcome(s, M).node = s /\ Outcome(s, M).sends = M
BY DEF Outcome

\* A handler that does nothing.
LEMMA NothingOK ==
    ASSUME NEW n, NEW s, NEW M, NodeOK(n, s, M)
    PROVE  Grows(s, s) /\ OutcomeOK(n, s, Outcome(s, {}), M)
<1>1. Grows(s, s)
  BY NodeTypes DEF NodeOK, NodeBase, Grows
<1> QED BY <1>1 DEF OutcomeOK, Outcome

\* How far a fetch gets along a chain of certified blocks.
LEMMA FetchedOK ==
    ASSUME NEW M, NEW b \in Proper, ChainBacked(b, M), NEW s, NEW fetched \in Nat
    PROVE  LET c == Fetched(s, b, fetched)
           IN  c \in Proper /\ ChainBacked(c, M)
<1>1. b \in Block /\ Len(b) \in Nat
  BY DEF Proper, Block
<1>2. CASE b \in s.blocks \/ fetched >= Len(b)
  BY <1>2 DEF Fetched
<1>3. CASE ~(b \in s.blocks \/ fetched >= Len(b))
  <2>1. Fetched(s, b, fetched) = SubSeq(b, 1, fetched) /\ fetched \in 0..Len(b)
    BY <1>1, <1>3 DEF Fetched
  <2> QED BY <1>1, <2>1, PrefixIsBacked
<1> QED BY <1>2, <1>3

\* A sync with a message that is not of an earlier round takes its certificates, which
\* replace none that are higher, or fails with some of them.
LEMMA SyncUpOK ==
    ASSUME NEW n \in Validator, NEW s, NEW M, NodeOK(n, s, M),
           NEW si, SyncOK(si, M), Highest(si) + 1 >= s.rs.current_round,
           NEW peer, NEW help, NEW fetched \in Nat
    PROVE  LET o == SyncUp(n, s, si, peer, help, fetched)
           IN  /\ OutcomeOK(n, s, o, M)
               /\ ~SyncFails(s, si, fetched) => round(o.node.qc) >= round(si.qc)
<1> DEFINE newer == has_newer_certificates(si, sync_info(s))
           reply == IF help /\ has_newer_certificates(sync_info(s), si)
                    THEN {[type |-> "SyncInfo", author |-> n, to |-> {peer},
                           sync |-> sync_info(s)]}
                    ELSE {}
           c == Fetched(s, si.qc, fetched)
           q == insert_quorum_cert(s, c)
           t == IF SyncFails(s, si, fetched) THEN q ELSE insert_timeout_certificate(q, si.tc)
           o == StartRound(n, t)
<1>1. s \in NodeState /\ CertsOK(s, M) /\ s.rs.current_round = Highest(s) + 1 /\ NodeBase(n, s, M)
  BY DEF NodeOK, NodeBase
<1>2. SyncOK(sync_info(s), M) /\ sync_info(s).qc = s.qc
  BY <1>1, SyncInfoOK
<1>3. \A m \in reply : MsgOK(m, M)
  <2> SUFFICES ASSUME NEW m \in reply PROVE MsgOK(m, M)
    OBVIOUS
  <2>1. m.type = "SyncInfo" /\ m.sync = sync_info(s)
    OBVIOUS
  <2> HIDE DEF reply
  <2> QED BY Zenon, <1>2, <2>1 DEF MsgOK
<1>4. SyncUp(n, s, si, peer, help, fetched) =
        IF newer THEN Outcome(o.node, o.sends \cup reply) ELSE Outcome(s, reply)
  BY Zenon DEF SyncUp, AddCerts
<1> HIDE DEF reply
<1>5. CASE newer
  <2>1. c \in Proper /\ ChainBacked(c, M)
    BY Zenon, SyncTypes, FetchedOK
  <2>2. ~SyncFails(s, si, fetched) => c = si.qc
    BY Zenon, <1>5 DEF SyncFails
  <2> HIDE DEF c
  <2>3. /\ NodeBase(n, q, M) /\ q.tc = s.tc /\ q.rs = s.rs
        /\ round(q.qc) >= round(s.qc) /\ round(q.qc) >= round(c)
    BY Zenon, <1>1, <2>1, InsertQC
  <2>4. q \in NodeState /\ q.tc.round \in Nat
    BY Zenon, <2>3, NodeTypes DEF NodeBase
  <2> HIDE DEF q
  <2>5. /\ NodeBase(n, t, M) /\ t.qc = q.qc /\ t.rs = q.rs
        /\ t.tc.round >= q.tc.round
    <3>1. CASE SyncFails(s, si, fetched)
      <4>1. q.tc.round >= q.tc.round
        BY Zenon, <2>4, AtLeastItself
      <4> QED BY Zenon, <2>3, <3>1, <4>1
    <3>2. CASE ~SyncFails(s, si, fetched)
      <4>1. si.tc.hqc_round <= round(q.qc)
        BY SMTT(30), <2>2, <2>3, <2>4, <3>2, SyncTypes, NodeTypes
      <4>2. si.tc.round >= q.tc.round \/ si.tc.round = 0
        BY SMTT(20), <1>1, <2>3, SyncTypes, NodeTypes
      <4> QED BY SMTT(20), <2>3, <3>2, <4>1, <4>2, SyncTypes, InsertTC
    <3> QED BY Zenon, <3>1, <3>2
  <2> HIDE DEF t
  <2>6. /\ NodeOK(n, o.node, M) /\ \A m \in o.sends : MsgOK(m, M)
        /\ o.node.qc = t.qc /\ o.node.tc = t.tc
        /\ o.node.rs.current_round >= t.rs.current_round
    BY Zenon, <2>5, StartRoundOK
  <2> HIDE DEF o
  <2> DEFINE u == SyncUp(n, s, si, peer, help, fetched)
  <2> HIDE DEF newer
  <2>u. u = Outcome(o.node, o.sends \cup reply)
    BY Zenon, <1>4, <1>5
  <2> HIDE DEF u
  <2>7. u.node = o.node /\ u.sends = o.sends \cup reply
    BY Zenon, <2>u, OutcomeParts
  <2>8. Grows(s, o.node)
    BY Zenon, <2>3, <2>5, <2>6 DEF Grows
  <2>9. \A m \in o.sends \cup reply : MsgOK(m, M)
    BY Zenon, <1>3, <2>6
  <2>10. OutcomeOK(n, s, u, M)
    BY Zenon, <2>6, <2>7, <2>8, <2>9 DEF OutcomeOK
  <2>11. ~SyncFails(s, si, fetched) => round(u.node.qc) >= round(si.qc)
    BY ZenonT(30), <2>2, <2>3, <2>5, <2>6, <2>7
  <2> QED BY Zenon, <2>10, <2>11 DEF u
<1>6. CASE ~newer
  <2>1. round(s.qc) >= round(si.qc)
    BY <1>1, <1>2, <1>6, SyncTypes, NodeTypes DEF has_newer_certificates
  <2> HIDE DEF newer
  <2> DEFINE u == SyncUp(n, s, si, peer, help, fetched)
  <2>2. u = Outcome(s, reply)
    BY Zenon, <1>4, <1>6
  <2>3. u.node = s /\ u.sends = reply
    BY Zenon, <2>2, OutcomeParts
  <2> HIDE DEF u
  <2>4. OutcomeOK(n, s, u, M)
    BY Zenon, <1>3, <2>3, NothingOK DEF OutcomeOK
  <2> QED BY Zenon, <2>1, <2>3, <2>4 DEF u
<1> QED BY Zenon, <1>5, <1>6
--------------------------------------------------------------------------------
\* Votes and timeouts.

\* Signing within the round.
LEMMA SameRound ==
    ASSUME NEW n, NEW s, NEW M, NodeOK(n, s, M), NEW t \in NodeState,
           t.qc = s.qc, t.tc = s.tc, t.rs = s.rs, t.saved_vote = s.saved_vote,
           SafetyOK(t), t.safety.last_voted_round >= s.safety.last_voted_round,
           ChainBacked(parent(t.safety.last_vote), M)
    PROVE  NodeOK(n, t, M)
<1>1. s \in NodeState /\ CertsOK(s, M) /\ SentOK(n, s) /\ ParentsOK(s, M) /\ PendingOK(s, M)
  BY DEF NodeOK, NodeBase
<1>2. CertsOK(t, M) /\ Highest(t) = Highest(s) /\ PendingOK(t, M)
  BY Zenon, <1>1 DEF CertsOK, Highest, PendingOK, VoteOK
<1>3. SentOK(n, t)
  <2>1. /\ s.safety.last_voted_round \in Nat /\ t.safety.last_voted_round \in Nat
        /\ t.safety.last_voted_round <= s.rs.current_round /\ s.rs.current_round \in Nat
    BY <1>1, NodeTypes DEF NodeState, ProperSafety, SafetyOK
  <2>2. \A v \in s.saved_vote : round(v.block) \in Nat
    BY Zenon, <1>1, ProperFacts DEF NodeState, ProperVote
  <2> QED BY <1>1, <2>1, <2>2 DEF SentOK, VoteOK
<1>4. ParentsOK(t, M)
  BY Zenon, <1>1 DEF ParentsOK
<1> QED BY Zenon, <1>2, <1>3, <1>4 DEF NodeOK, NodeBase

\* A vote on a block of the round whose QC, and its parent, are not above the one held.
LEMMA SignsOK ==
    ASSUME NEW n, NEW s, NEW M, NodeOK(n, s, M), NEW b \in Proper,
           ChainBacked(parent(b), M), round(b) = s.rs.current_round, qc_round(b) <= round(s.qc)
    PROVE  /\ NodeOK(n, Signs(s, b), M)
           /\ Signs(s, b).qc = s.qc /\ Signs(s, b).tc = s.tc /\ Signs(s, b).rs = s.rs
           /\ Signs(s, b).safety.last_voted_round = s.rs.current_round
           /\ Signs(s, b).safety.one_chain_round <= round(s.qc)
           /\ Signs(s, b).safety.preferred_round <= round(s.qc)
<1> DEFINE i == Inserted(s, b)
<1>1. /\ s \in NodeState /\ SafetyOK(s) /\ s.safety \in ProperSafety /\ round(s.qc) \in Nat
      /\ ChainBacked(parent(s.safety.last_vote), M)
  BY Zenon, NodeTypes DEF NodeOK, NodeBase, NodeState, ParentsOK
<1>2. b \in Block /\ round(b) \in Nat /\ qc_round(b) \in Nat
  BY ProperFacts
<1>3. /\ i \in NodeState /\ i.qc = s.qc /\ i.tc = s.tc /\ i.rs = s.rs
      /\ i.saved_vote = s.saved_vote /\ i.safety = s.safety
  BY SMTT(30), <1>1, <1>2 DEF Inserted, NodeState
<1>4. qc_parent_round(b) \in Nat /\ qc_parent_round(b) <= round(s.qc)
  <2>1. qc_parent_round(b) = qc_round(parent(b)) /\ qc_round(b) = round(parent(b))
    BY DEF qc_parent_round, qc_round
  <2>2. parent(b) \in Proper
    BY <1>2, ParentIsBlock, ChainEnd
  <2>3. qc_round(parent(b)) \in Nat /\ qc_round(parent(b)) <= round(parent(b))
    BY Zenon, <2>2, ProperFacts DEF Proper
  <2> QED BY SMTT(30), <1>1, <1>2, <2>1, <2>3
<1> HIDE DEF i
<1>5. CASE round(s.safety.last_vote) = round(b)
  <2>1. Signs(s, b) = i
    BY Zenon, <1>5 DEF Signs, i
  <2>2. SafetyOK(i)
    BY <1>1, <1>3 DEF SafetyOK
  <2>3. i.safety.last_voted_round >= s.safety.last_voted_round
    BY <1>1, <1>3 DEF ProperSafety
  <2>4. NodeOK(n, i, M)
    BY Zenon, <1>1, <1>3, <2>2, <2>3, SameRound
  <2> QED BY <1>1, <1>3, <1>5, <2>1, <2>4 DEF SafetyOK
<1>6. CASE round(s.safety.last_vote) # round(b)
  <2> DEFINE o == MaxOf(s.safety.one_chain_round, qc_round(b))
             p == MaxOf(s.safety.preferred_round, qc_parent_round(b))
             sd == [s.safety EXCEPT !.last_voted_round = round(b), !.one_chain_round = o,
                                    !.preferred_round = p, !.last_vote = b]
             t == [i EXCEPT !.safety = sd]
  <2>1. Signs(s, b) = t
    BY Zenon, <1>1, <1>6 DEF Signs, i, observe_qc, ProperSafety
  <2>2. o \in Nat /\ p \in Nat /\ o <= round(s.qc) /\ p <= round(s.qc)
    BY <1>1, <1>2, <1>4 DEF MaxOf, SafetyOK, ProperSafety
  <2> HIDE DEF o, p
  <2>3. /\ sd \in ProperSafety /\ sd.last_voted_round = round(b) /\ sd.one_chain_round = o
        /\ sd.preferred_round = p /\ sd.last_vote = b
    BY Zenon, <1>1, <1>2, <2>2 DEF ProperSafety
  <2> HIDE DEF sd
  <2>4. /\ t \in NodeState /\ t.qc = s.qc /\ t.tc = s.tc /\ t.rs = s.rs
        /\ t.saved_vote = s.saved_vote /\ t.safety = sd
    BY Zenon, <1>3, <2>3 DEF NodeState
  <2> HIDE DEF t
  <2>5. SafetyOK(t)
    BY <1>2, <2>2, <2>3, <2>4 DEF SafetyOK
  <2>6. t.safety.last_voted_round >= s.safety.last_voted_round
    BY Zenon, <1>1, <1>2, <2>3, <2>4 DEF SafetyOK, ProperSafety
  <2>7. NodeOK(n, t, M)
    BY ZenonT(30), <2>3, <2>4, <2>5, <2>6, SameRound
  <2> QED BY <2>1, <2>2, <2>3, <2>4, <2>7
<1> QED BY Zenon, <1>5, <1>6

\* The vote for what was signed is saved.
LEMMA ExecuteAndVoteOK ==
    ASSUME NEW n \in Validator, NEW s, NEW M, NodeOK(n, s, M), NEW b \in Proper,
           ChainBacked(parent(b), M), round(b) = s.rs.current_round, qc_round(b) <= round(s.qc)
    PROVE  LET t == execute_and_vote(n, s, b)
           IN  /\ NodeOK(n, t, M)
               /\ t.qc = s.qc /\ t.tc = s.tc /\ t.rs = s.rs
               /\ t.safety.last_voted_round = s.rs.current_round
               /\ t.saved_vote # {}
               /\ \A v \in t.saved_vote :
                    /\ v \in ProperVote /\ v.author = n /\ VoteOK(t, v)
                    /\ ChainBacked(parent(v.block), M)
<1> DEFINE g == Signs(s, b)
           v == [author |-> n, block |-> g.safety.last_vote, timeout |-> {}]
           t == [g EXCEPT !.saved_vote = {v}]
<1>1. /\ NodeOK(n, g, M) /\ g.qc = s.qc /\ g.tc = s.tc /\ g.rs = s.rs
      /\ g.safety.last_voted_round = s.rs.current_round
  BY SignsOK
<1>2. execute_and_vote(n, s, b) = t
  BY Zenon DEF execute_and_vote, Saved
<1> HIDE DEF g
<1>3. /\ g \in NodeState /\ CertsOK(g, M) /\ SafetyOK(g) /\ SentOK(n, g)
      /\ ParentsOK(g, M) /\ PendingOK(g, M)
      /\ g.rs.current_round = Highest(g) + 1 /\ Highest(g) \in Nat
  BY Zenon, <1>1, NodeTypes DEF NodeOK, NodeBase
<1>4. g.safety.last_vote \in Proper
  BY Zenon, <1>3 DEF NodeState, ProperSafety
<1>5. v \in ProperVote /\ v.author = n /\ v.timeout = {} /\ v.block = g.safety.last_vote
  BY <1>4 DEF ProperVote
<1> HIDE DEF v
<1>6. /\ t \in NodeState /\ t.saved_vote = {v} /\ t.qc = g.qc /\ t.tc = g.tc /\ t.rs = g.rs
      /\ t.safety = g.safety
  BY Zenon, <1>3, <1>5 DEF NodeState
<1> HIDE DEF t
<1>7. round(v.block) = g.safety.last_voted_round /\ round(v.block) \in Nat
  BY Zenon, <1>3, <1>4, <1>5, ProperFacts DEF SafetyOK
<1>8. CertsOK(t, M) /\ Highest(t) = Highest(g) /\ SafetyOK(t) /\ PendingOK(t, M)
  BY Zenon, <1>3, <1>6 DEF CertsOK, Highest, SafetyOK, PendingOK, VoteOK
<1>9. SentOK(n, t) /\ ParentsOK(t, M) /\ ChainBacked(parent(v.block), M)
  BY SMTT(30), <1>3, <1>5, <1>6, <1>7 DEF SentOK, ParentsOK, VoteOK
<1>10. NodeOK(n, t, M)
  BY SMTT(30), <1>3, <1>6, <1>8, <1>9 DEF NodeOK, NodeBase
<1>11. VoteOK(t, v)
  BY <1>1, <1>5, <1>6, <1>7 DEF VoteOK
<1> QED BY SMTT(30), <1>1, <1>2, <1>5, <1>6, <1>9, <1>10, <1>11

\* A vote of the round, sent with the certificates held.
LEMMA VoteMsgOK ==
    ASSUME NEW n, NEW s, NEW M, NodeOK(n, s, M), NEW v \in ProperVote, VoteOK(s, v),
           ChainBacked(parent(v.block), M)
    PROVE  MsgOK(VoteMsg(v, s), M)
<1> DEFINE m == VoteMsg(v, s)
           si == sync_info(s)
<1>1. s \in NodeState /\ CertsOK(s, M) /\ s.rs.current_round = Highest(s) + 1
  BY Zenon DEF NodeOK, NodeBase
<1>2. SyncOK(si, M) /\ Highest(si) = Highest(s) /\ si.qc = s.qc
  BY <1>1, SyncInfoOK
<1> HIDE DEF si
<1>3. m.type = "Vote" /\ m.vote = v /\ m.sync = si
  BY Zenon DEF VoteMsg, si
<1> HIDE DEF m
<1>4. MsgOK(m, M)
  BY <1>1, <1>2, <1>3 DEF MsgOK, VoteOK
<1> QED BY Zenon, <1>4 DEF m

\* record_vote of a vote of the round that has been signed.
LEMMA RecordVoteOK ==
    ASSUME NEW n, NEW s, NEW M, NodeOK(n, s, M), NEW v \in ProperVote, v.author = n,
           VoteOK(s, v), s.safety.last_voted_round = s.rs.current_round,
           ChainBacked(parent(v.block), M)
    PROVE  LET t == [s EXCEPT !.rs = record_vote(s.rs, v)]
           IN  /\ NodeOK(n, t, M)
               /\ t.qc = s.qc /\ t.tc = s.tc /\ t.rs.current_round = s.rs.current_round
               /\ VoteOK(t, v)
<1> DEFINE r == [s.rs EXCEPT !.vote_sent = {v}]
           t == [s EXCEPT !.rs = r]
<1>1. /\ s \in NodeState /\ s.rs \in RState
      /\ CertsOK(s, M) /\ SafetyOK(s) /\ SentOK(n, s) /\ ParentsOK(s, M) /\ PendingOK(s, M)
      /\ s.rs.current_round = Highest(s) + 1 /\ Highest(s) \in Nat
  BY NodeTypes DEF NodeOK, NodeBase, NodeState
<1>2. record_vote(s.rs, v) = r
  BY DEF record_vote, VoteOK
<1>3. /\ r \in RState /\ r.current_round = s.rs.current_round /\ r.vote_sent = {v}
      /\ r.pending_votes = s.rs.pending_votes
  BY <1>1 DEF RState
<1> HIDE DEF r
<1>4. /\ t \in NodeState /\ t.rs = r /\ t.qc = s.qc /\ t.tc = s.tc
      /\ t.saved_vote = s.saved_vote /\ t.safety = s.safety
  BY ZenonT(30), <1>1, <1>3, WithRs
<1> HIDE DEF t
<1>5. CertsOK(t, M) /\ Highest(t) = Highest(s) /\ SafetyOK(t) /\ PendingOK(t, M)
  BY Zenon, <1>1, <1>3, <1>4 DEF CertsOK, Highest, SafetyOK, PendingOK, VoteOK
<1>6. SentOK(n, t) /\ ParentsOK(t, M) /\ VoteOK(t, v)
  BY Zenon, <1>1, <1>3, <1>4 DEF SentOK, ParentsOK, VoteOK
<1>7. NodeOK(n, t, M)
  BY Zenon, <1>1, <1>3, <1>4, <1>5, <1>6 DEF NodeOK, NodeBase
<1> QED BY Zenon, <1>2, <1>3, <1>4, <1>6, <1>7 DEF t

\* The timeout of a round that has been voted in.
LEMMA SignTimeoutOK ==
    ASSUME NEW n, NEW s, NEW M, NodeOK(n, s, M), NEW v \in ProperVote, v.author = n,
           VoteOK(s, v), s.safety.last_voted_round = s.rs.current_round,
           ChainBacked(parent(v.block), M)
    PROVE  OutcomeOK(n, s, SignTimeout(s, v), M)
<1> DEFINE hqc == IF config.two_chain THEN round(s.qc) ELSE 0
           w == IF is_timeout(v) THEN v ELSE [v EXCEPT !.timeout = {hqc}]
           sd == IF is_timeout(v) THEN s.safety ELSE record_timeout(s.safety, round(v.block))
           t == [s EXCEPT !.safety = sd, !.rs = record_vote(s.rs, w)]
           u == [s EXCEPT !.rs = record_vote(s.rs, w)]
<1>1. s \in NodeState /\ round(s.qc) \in Nat /\ s.safety \in ProperSafety /\ s.rs \in RState
  BY Zenon, NodeTypes DEF NodeOK, NodeBase, NodeState
<1>2. hqc \in Nat /\ hqc <= round(s.qc)
  BY <1>1
<1> HIDE DEF hqc
<1>3. w \in ProperVote /\ w.author = n /\ VoteOK(s, w) /\ ChainBacked(parent(w.block), M)
  <2>1. CASE is_timeout(v)
    BY Zenon, <2>1
  <2>2. CASE ~is_timeout(v)
    <3>1. w \in ProperVote /\ w.author = n /\ w.block = v.block /\ w.timeout = {hqc}
      BY <1>2, <2>2 DEF ProperVote
    <3> HIDE DEF w
    <3> QED BY <1>2, <3>1 DEF VoteOK
  <2> QED BY <2>1, <2>2
<1> HIDE DEF w
<1>4. sd = s.safety
  <2>1. MaxOf(s.safety.last_voted_round, round(v.block)) = s.safety.last_voted_round
    BY DEF MaxOf, VoteOK
  <2> QED BY Zenon, <1>1, <2>1 DEF record_timeout, ProperSafety
<1> HIDE DEF sd
<1>5. t = u
  BY Zenon, <1>1, <1>4 DEF NodeState
<1>6. /\ NodeOK(n, u, M) /\ u.qc = s.qc /\ u.tc = s.tc
      /\ u.rs.current_round = s.rs.current_round /\ VoteOK(u, w)
  BY <1>3, RecordVoteOK
<1>7. SignTimeout(s, v) = IF is_timeout(v) \/ MayTimeout(s, round(v.block))
                          THEN Outcome(t, {VoteMsg(w, t)}) ELSE Outcome(s, {})
  BY Zenon DEF SignTimeout, w, hqc, sd
<1> HIDE DEF t, u
<1>8. MsgOK(VoteMsg(w, u), M)
  BY Zenon, <1>3, <1>6, VoteMsgOK
<1>9. Grows(s, u)
  BY Zenon, <1>6, NothingOK DEF Grows
<1>10. OutcomeOK(n, s, Outcome(u, {VoteMsg(w, u)}), M)
  BY <1>6, <1>8, <1>9 DEF OutcomeOK, Outcome
<1> QED BY Zenon, <1>5, <1>7, <1>10, NothingOK

\* A block of the round that is inserted and not voted on.
LEMMA InsertedOK ==
    ASSUME NEW n, NEW s, NEW M, NodeOK(n, s, M), NEW b \in Block
    PROVE  OutcomeOK(n, s, Outcome(Inserted(s, b), {}), M)
<1> DEFINE i == Inserted(s, b)
<1>1. /\ s \in NodeState /\ SafetyOK(s) /\ s.safety \in ProperSafety
      /\ ChainBacked(parent(s.safety.last_vote), M)
  BY DEF NodeOK, NodeBase, NodeState, ParentsOK
<1>2. /\ i \in NodeState /\ i.qc = s.qc /\ i.tc = s.tc /\ i.rs = s.rs
      /\ i.saved_vote = s.saved_vote /\ i.safety = s.safety
  BY Zenon, <1>1 DEF Inserted, NodeState
<1> HIDE DEF i
<1>3. SafetyOK(i) /\ i.safety.last_voted_round >= s.safety.last_voted_round
  BY <1>1, <1>2 DEF SafetyOK, ProperSafety
<1>4. NodeOK(n, i, M)
  BY Zenon, <1>1, <1>2, <1>3, SameRound
<1>5. Grows(s, i)
  BY Zenon, <1>2, NothingOK DEF Grows
<1>6. OutcomeOK(n, s, Outcome(i, {}), M)
  BY Zenon, <1>4, <1>5 DEF OutcomeOK, Outcome
<1> QED BY Zenon, <1>6 DEF i

\* process_proposal of a proposal of the round.
LEMMA ProcessProposalOK ==
    ASSUME NEW n \in Validator, NEW s, NEW M, NodeOK(n, s, M), NEW b \in Proper,
           ChainBacked(parent(b), M), round(b) = s.rs.current_round, qc_round(b) <= round(s.qc)
    PROVE  OutcomeOK(n, s, process_proposal(n, s, b), M)
<1> DEFINE t == execute_and_vote(n, s, b)
           v == CHOOSE w \in t.saved_vote : TRUE
           u == [t EXCEPT !.rs = record_vote(t.rs, v)]
<1>1. CASE VoteIsRefused(n, s, b)
  BY Zenon, <1>1, InsertedOK, ProperFacts DEF process_proposal
<1>2. CASE ~VoteIsRefused(n, s, b)
  <2>1. process_proposal(n, s, b) = Outcome(u, {VoteMsg(v, t)})
    BY Zenon, <1>2 DEF process_proposal
  <2>2. /\ NodeOK(n, t, M) /\ t.qc = s.qc /\ t.tc = s.tc /\ t.rs = s.rs
        /\ t.safety.last_voted_round = t.rs.current_round
        /\ t.saved_vote # {}
        /\ \A w \in t.saved_vote : /\ w \in ProperVote /\ w.author = n /\ VoteOK(t, w)
                                  /\ ChainBacked(parent(w.block), M)
    BY ExecuteAndVoteOK
  <2> HIDE DEF t
  <2>3. v \in ProperVote /\ v.author = n /\ VoteOK(t, v) /\ ChainBacked(parent(v.block), M)
    BY <2>2
  <2> HIDE DEF v
  <2>4. /\ NodeOK(n, u, M) /\ u.qc = t.qc /\ u.tc = t.tc
        /\ u.rs.current_round = t.rs.current_round
    BY SMTT(30), <2>2, <2>3, RecordVoteOK
  <2>5. MsgOK(VoteMsg(v, t), M)
    BY ZenonT(30), <2>2, <2>3, VoteMsgOK
  <2> HIDE DEF u
  <2>6. Grows(s, u)
    BY <2>2, <2>4, NothingOK DEF Grows
  <2> QED BY <2>1, <2>4, <2>5, <2>6 DEF OutcomeOK, Outcome
<1> QED BY <1>1, <1>2
--------------------------------------------------------------------------------
\* The handlers.

\* The NIL block of a round can be voted on.
LEMMA NilBlockOK ==
    ASSUME NEW n, NEW s, NEW M, NodeOK(n, s, M)
    PROVE  LET b == NilBlock(s)
           IN  /\ b \in Proper /\ ChainBacked(parent(b), M)
               /\ round(b) = s.rs.current_round /\ qc_round(b) = round(s.qc)
               /\ qc_round(b) <= round(s.qc)
<1>1. s \in NodeState /\ s.rs.current_round = Highest(s) + 1 /\ ChainBacked(s.qc, M)
  BY DEF NodeOK, NodeBase, CertsOK
<1>2. s.rs.current_round \in Nat /\ s.rs.current_round > round(s.qc) /\ s.qc \in Proper
      /\ round(s.qc) \in Nat
  BY <1>1, NodeTypes
<1>3. Nil \in Payload
  BY ConfigAssumption
<1>4. NilBlock(s) \in Proper /\ parent(NilBlock(s)) = s.qc /\ round(NilBlock(s)) = s.rs.current_round
  BY <1>2, <1>3, ProposedIsProper DEF NilBlock
<1> QED BY <1>1, <1>2, <1>4 DEF qc_round

\* process_local_timeout.
LEMMA LocalTimeoutOK ==
    ASSUME NEW n \in Validator, NEW s, NEW M, NodeOK(n, s, M)
    PROVE  OutcomeOK(n, s, process_local_timeout(n, s), M)
<1>1. s \in NodeState /\ CertsOK(s, M) /\ SentOK(n, s) /\ ParentsOK(s, M) /\ s.rs \in RState
  BY DEF NodeOK, NodeBase, NodeState
<1>2. CASE n \in config.sync_only \/ s.rs.current_round = config.max_round
  <2> DEFINE m == [type |-> "SyncInfo", author |-> n, to |-> config.up, sync |-> sync_info(s)]
  <2>1. process_local_timeout(n, s) = Outcome(s, {m})
    BY <1>2 DEF process_local_timeout
  <2>2. m.type = "SyncInfo" /\ m.sync = sync_info(s)
    OBVIOUS
  <2> HIDE DEF m
  <2>3. MsgOK(m, M)
    BY <1>1, <2>2, SyncInfoOK DEF MsgOK
  <2> QED BY <2>1, <2>3, NothingOK DEF OutcomeOK, Outcome
<1>3. CASE ~(n \in config.sync_only \/ s.rs.current_round = config.max_round) /\ s.rs.vote_sent # {}
  <2> DEFINE v == CHOOSE w \in s.rs.vote_sent : TRUE
  <2>1. process_local_timeout(n, s) = SignTimeout(s, v)
    BY <1>3 DEF process_local_timeout
  <2>2. v \in s.rs.vote_sent
    BY <1>3
  <2> HIDE DEF v
  <2>3. v \in ProperVote
    BY <1>1, <2>2 DEF RState
  <2>4. /\ v.author = n /\ VoteOK(s, v) /\ s.safety.last_voted_round = s.rs.current_round
        /\ ChainBacked(parent(v.block), M)
    BY <1>1, <2>2 DEF SentOK, ParentsOK
  <2> QED BY Zenon, <2>1, <2>3, <2>4, SignTimeoutOK
<1>4. CASE ~(n \in config.sync_only \/ s.rs.current_round = config.max_round) /\ s.rs.vote_sent = {}
  <2> DEFINE b == NilBlock(s)
             t == execute_and_vote(n, s, b)
             v == CHOOSE w \in t.saved_vote : TRUE
  <2>1. process_local_timeout(n, s) =
          IF VoteIsRefused(n, s, b) THEN Outcome(Inserted(s, b), {}) ELSE SignTimeout(t, v)
    BY <1>4 DEF process_local_timeout
  <2>2. /\ b \in Proper /\ b \in Block /\ ChainBacked(parent(b), M)
        /\ round(b) = s.rs.current_round /\ qc_round(b) <= round(s.qc)
    BY NilBlockOK, ProperFacts
  <2> HIDE DEF b
  <2>3. OutcomeOK(n, s, Outcome(Inserted(s, b), {}), M)
    BY SMTT(30), <2>2, InsertedOK
  <2>4. /\ NodeOK(n, t, M) /\ t.qc = s.qc /\ t.tc = s.tc /\ t.rs = s.rs
        /\ t.safety.last_voted_round = t.rs.current_round
        /\ t.saved_vote # {}
        /\ \A w \in t.saved_vote : /\ w \in ProperVote /\ w.author = n /\ VoteOK(t, w)
                                  /\ ChainBacked(parent(w.block), M)
    BY <2>2, ExecuteAndVoteOK
  <2> HIDE DEF t
  <2>5. v \in ProperVote /\ v.author = n /\ VoteOK(t, v) /\ ChainBacked(parent(v.block), M)
    BY <2>4
  <2> HIDE DEF v
  <2>6. OutcomeOK(n, t, SignTimeout(t, v), M)
    BY Zenon, <2>4, <2>5, SignTimeoutOK
  <2>7. OutcomeOK(n, s, SignTimeout(t, v), M)
    BY <2>4, <2>6 DEF OutcomeOK, Grows
  <2> QED BY <2>1, <2>3, <2>7
<1> QED BY <1>2, <1>3, <1>4

\* The certificate over timeouts whose QCs are bounded has the highest of them.
LEMMA TimeoutCertificateOK ==
    ASSUME NEW S \in SUBSET ProperVote, NEW v \in S, is_timeout(v), NEW r \in Nat, NEW R \in Nat,
           \A w \in S : \A h \in w.timeout : h <= R
    PROVE  LET tc == TimeoutCertificate(S, r)
           IN  /\ tc \in TimeoutCert /\ tc.round = r /\ tc.hqc_round <= R
               /\ \A w \in S : \A h \in w.timeout : h <= tc.hqc_round
<1> DEFINE hqcs == UNION {w.timeout : w \in S}
           top == CHOOSE h \in hqcs : \A g \in hqcs : g <= h
<1>1. \A w \in S : w.timeout \subseteq Nat
  BY DEF ProperVote
<1>2. hqcs \in SUBSET Nat /\ hqcs # {} /\ \A h \in hqcs : h <= R
  BY <1>1 DEF is_timeout
<1>3. \A w \in S : w.timeout \subseteq hqcs
  OBVIOUS
<1> HIDE DEF hqcs
<1>4. \E h \in hqcs : \A g \in hqcs : g <= h
  BY Zenon, <1>2, NatMaximum
<1>5. top \in hqcs /\ \A g \in hqcs : g <= top
  BY <1>4
<1>6. TimeoutCertificate(S, r) = [round |-> r, hqc_round |-> top]
  BY DEF TimeoutCertificate, hqcs
<1> HIDE DEF top
<1>7. top \in Nat /\ top <= R /\ \A w \in S : \A h \in w.timeout : h <= top
  BY Zenon, <1>2, <1>3, <1>5
<1> QED BY <1>6, <1>7 DEF TimeoutCert

\* process_vote of a vote of the round that was sent.
LEMMA ProcessVoteOK ==
    ASSUME NEW n \in Validator, NEW s, NEW M, NodeOK(n, s, M), NEW v \in ProperVote,
           v \in VotesIn(M), VoteOK(s, v), ChainBacked(parent(v.block), M), NEW fetched \in Nat
    PROVE  OutcomeOK(n, s, process_vote(n, s, v, fetched), M)
<1> DEFINE p == s.rs.pending_votes
           r == s.rs.current_round
           a == AfterInsert(p, v)
           t == [s EXCEPT !.rs = [s.rs EXCEPT !.pending_votes = a]]
           tc == TimeoutCertificate(Signed(p, v), r)
<1>1. /\ s \in NodeState /\ s.rs \in RState /\ p \in PendingState
      /\ CertsOK(s, M) /\ SafetyOK(s) /\ SentOK(n, s) /\ ParentsOK(s, M) /\ PendingOK(s, M)
      /\ r = Highest(s) + 1 /\ Highest(s) \in Nat /\ r \in Nat
  BY Zenon, NodeTypes DEF NodeOK, NodeBase, NodeState, RState
<1>2. round(s.qc) \in Nat /\ s.tc.round \in Nat /\ r > round(s.qc) /\ r > s.tc.round
  <2>1. /\ round(s.qc) \in Nat /\ s.tc.round \in Nat
        /\ Highest(s) >= round(s.qc) /\ Highest(s) >= s.tc.round
    BY Zenon, <1>1, NodeTypes
  <2>2. r = Highest(s) + 1 /\ Highest(s) \in Nat
    BY <1>1
  <2> HIDE DEF r
  <2> QED BY <2>1, <2>2
<1>3. Stored(p, v) \subseteq ProperVote /\ Signed(p, v) \subseteq ProperVote
  BY SMTT(30), <1>1 DEF Stored, Signed, PendingState
<1>4. \A w \in Stored(p, v) : w \in VotesIn(M) /\ round(w.block) = r
  BY <1>1 DEF Stored, PendingOK, VoteOK
<1>5. \A w \in Signed(p, v) : w \in VotesIn(M) /\ VoteOK(s, w) /\ is_timeout(w)
  BY Zenon, <1>1 DEF Signed, PendingOK
<1>6. a \in PendingState /\ a.author_to_vote = Stored(p, v)
      /\ (a.partial_tc = p.partial_tc \/ a.partial_tc = Signed(p, v))
  BY Zenon, <1>1, <1>3 DEF AfterInsert, PendingState
<1> HIDE DEF a
<1>7. NodeOK(n, t, M) /\ t.qc = s.qc /\ t.tc = s.tc /\ t.rs.current_round = r
  <2> DEFINE q == [s.rs EXCEPT !.pending_votes = a]
  <2>1. /\ q \in RState /\ q.pending_votes = a /\ q.vote_sent = s.rs.vote_sent
        /\ q.current_round = r
    BY <1>1, <1>6 DEF RState
  <2> HIDE DEF q
  <2>2. /\ t \in NodeState /\ t.rs = q /\ t.qc = s.qc /\ t.tc = s.tc
        /\ t.saved_vote = s.saved_vote /\ t.safety = s.safety
    BY Zenon, <1>1, <2>1, WithRs DEF q
  <2> HIDE DEF t
  <2>3. CertsOK(t, M) /\ Highest(t) = Highest(s) /\ SafetyOK(t) /\ SentOK(n, t) /\ ParentsOK(t, M)
    BY Zenon, <1>1, <2>1, <2>2 DEF CertsOK, Highest, SafetyOK, SentOK, ParentsOK, VoteOK
  <2>4. \A w : VoteOK(s, w) => VoteOK(t, w)
    BY Zenon, <2>1, <2>2 DEF VoteOK
  <2>5. PendingOK(t, M)
    BY Zenon, <1>1, <1>4, <1>5, <1>6, <2>1, <2>2, <2>4 DEF PendingOK
  <2> QED BY Zenon, <1>1, <2>1, <2>2, <2>3, <2>5 DEF NodeOK, NodeBase
<1>8. process_vote(n, s, v, fetched) =
        IF \/ ~is_timeout(v) /\ Proposer[r + 1] # n
           \/ EquivocateVote(p, v) \/ DuplicateVote(p, v)
        THEN Outcome(s, {})
        ELSE IF NewQuorumCertificate(p, v)
        THEN StartRound(n, insert_quorum_cert(t, Fetched(s, v.block, fetched)))
        ELSE IF NewTimeoutCertificate(p, v)
        THEN StartRound(n, insert_timeout_certificate(t, tc))
        ELSE Outcome(t, {})
  BY Zenon DEF process_vote, a
<1>9. OutcomeOK(n, s, Outcome(t, {}), M)
  <2> HIDE DEF t
  <2> QED BY Zenon, <1>7, NothingOK DEF OutcomeOK, Outcome, Grows
<1> HIDE DEF t
<1>10. NodeBase(n, t, M) /\ t \in NodeState
  BY <1>7 DEF NodeOK, NodeBase
<1>11. ASSUME NEW u, NodeBase(n, u, M), round(u.qc) >= round(s.qc), u.tc.round >= s.tc.round,
              u.rs = t.rs
       PROVE  OutcomeOK(n, s, StartRound(n, u), M)
  <2> DEFINE o == StartRound(n, u)
  <2>1. /\ NodeOK(n, o.node, M) /\ \A m \in o.sends : MsgOK(m, M)
        /\ o.node.qc = u.qc /\ o.node.tc = u.tc
        /\ o.node.rs.current_round >= u.rs.current_round
    BY Zenon, <1>11, StartRoundOK
  <2> HIDE DEF o
  <2>2. OutcomeOK(n, s, o, M)
    BY <1>7, <1>11, <2>1 DEF OutcomeOK, Grows
  <2> QED BY Zenon, <2>2 DEF o
<1>12. ASSUME NewQuorumCertificate(p, v)
       PROVE  OutcomeOK(n, s, StartRound(n, insert_quorum_cert(t, Fetched(s, v.block, fetched))), M)
  <2>1. v.block \in Proper
    BY DEF ProperVote
  <2>2. QCBacked(v.block, M)
    <3>1. {w \in Stored(p, v) : w.block = v.block} \subseteq {w \in VotesIn(M) : w.block = v.block}
      BY <1>4
    <3> QED BY <1>12, <3>1, PowerGrows DEF NewQuorumCertificate, QCBacked
  <2>3. ChainBacked(v.block, M)
    BY <2>1, <2>2, ChainExtends
  <2> DEFINE c == Fetched(s, v.block, fetched)
             u == insert_quorum_cert(t, c)
  <2>4. c \in Proper /\ ChainBacked(c, M)
    BY Zenon, <2>1, <2>3, FetchedOK
  <2> HIDE DEF c
  <2>5. NodeBase(n, u, M) /\ round(u.qc) >= round(t.qc) /\ u.tc = t.tc /\ u.rs = t.rs
    BY Zenon, <1>10, <2>4, InsertQC
  <2> HIDE DEF u
  <2>6. OutcomeOK(n, s, StartRound(n, u), M)
    BY SMTT(30), <1>2, <1>7, <1>11, <2>5
  <2> QED BY <2>6 DEF u, c
<1>13. ASSUME NewTimeoutCertificate(p, v)
       PROVE  OutcomeOK(n, s, StartRound(n, insert_timeout_certificate(t, tc)), M)
  <2>1. is_timeout(v) /\ v \in Signed(p, v) /\ check_voting_power(Signed(p, v))
    BY <1>13 DEF NewTimeoutCertificate, Signed
  <2>2. \A w \in Signed(p, v) : \A h \in w.timeout : h <= round(s.qc)
    BY SMTT(20), <1>5 DEF VoteOK
  <2>3. /\ tc \in TimeoutCert /\ tc.round = r /\ tc.hqc_round <= round(s.qc)
        /\ \A w \in Signed(p, v) : \A h \in w.timeout : h <= tc.hqc_round
    BY ZenonT(30), <1>1, <1>2, <1>3, <2>1, <2>2, TimeoutCertificateOK
  <2> HIDE DEF tc
  <2>4. TCBacked(tc, M)
    <3>1. Signed(p, v) \subseteq {w \in VotesIn(M) : round(w.block) = tc.round /\ is_timeout(w)
                                     /\ \A h \in w.timeout : h <= tc.hqc_round}
      BY <1>5, <2>3 DEF VoteOK
    <3> QED BY Zenon, <2>1, <3>1, PowerGrows DEF TCBacked
  <2> DEFINE u == insert_timeout_certificate(t, tc)
  <2>5. NodeBase(n, u, M) /\ u.tc.round >= t.tc.round /\ u.qc = t.qc /\ u.rs = t.rs
    <3>1. tc.hqc_round <= round(t.qc) /\ tc.round >= t.tc.round
      <4>1. t.qc = s.qc /\ t.tc = s.tc /\ tc.round = r /\ tc.hqc_round <= round(s.qc)
        BY Zenon, <1>7, <2>3
      <4>2. r \in Nat /\ s.tc.round \in Nat /\ r > s.tc.round
        BY Zenon, <1>1, <1>2
      <4> HIDE DEF r
      <4> QED BY <4>1, <4>2
    <3>2. tc \in TimeoutCert
      BY Zenon, <2>3
    <3> QED BY ZenonT(30), <1>10, <2>4, <3>1, <3>2, InsertTC
  <2> HIDE DEF u
  <2>6. OutcomeOK(n, s, StartRound(n, u), M)
    BY SMTT(30), <1>2, <1>7, <1>11, <2>5
  <2> QED BY <2>6 DEF u
<1> QED BY Zenon, <1>8, <1>9, <1>12, <1>13, NothingOK
--------------------------------------------------------------------------------

\* Events.

\* One handler after another.
LEMMA GrowsTwice ==
    ASSUME NEW n, NEW s, NEW o, NEW p, NEW M, NodeOK(n, s, M),
           OutcomeOK(n, s, o, M), OutcomeOK(n, o.node, p, M)
    PROVE  OutcomeOK(n, s, Outcome(p.node, o.sends \cup p.sends), M)
<1>1. s \in NodeState /\ o.node \in NodeState /\ p.node \in NodeState
  BY DEF OutcomeOK, NodeOK, NodeBase
<1>2. Grows(s, p.node)
  BY <1>1, NodeTypes DEF OutcomeOK, Grows
<1> QED BY Zenon, <1>2 DEF OutcomeOK, Outcome

\* A message that is not stale is synced with, and handled if it is of the round then.
LEMMA EnsureRoundOK ==
    ASSUME NEW n \in Validator, NEW M, NodeOK(n, node[n], M), NEW si, NEW fetched,
           NEW r \in Nat, NEW o, NEW p,
           ~IsStale(node[n], r) => OutcomeOK(n, node[n], o, M),
           ~IsStale(node[n], r) /\ InRound(node[n], o.node, r, si, fetched)
                => OutcomeOK(n, o.node, p, M)
    PROVE  \A x \in EnsureRound(n, r, si, fetched, o, p) : OutcomeOK(n, node[n], x, M)
<1>1. CASE IsStale(node[n], r)
  BY Zenon, <1>1 DEF EnsureRound
<1>2. CASE ~IsStale(node[n], r)
  <2>1. CASE InRound(node[n], o.node, r, si, fetched)
    <3>1. EnsureRound(n, r, si, fetched, o, p) = {Outcome(p.node, o.sends \cup p.sends)}
      BY Zenon, <1>2, <2>1 DEF EnsureRound
    <3>2. OutcomeOK(n, node[n], o, M) /\ OutcomeOK(n, o.node, p, M)
      BY <1>2, <2>1
    <3>3. OutcomeOK(n, node[n], Outcome(p.node, o.sends \cup p.sends), M)
      BY Zenon, <3>2, GrowsTwice
    <3> QED BY Zenon, <3>1, <3>3
  <2>2. CASE ~InRound(node[n], o.node, r, si, fetched)
    BY Zenon, <1>2, <2>2 DEF EnsureRound
  <2> QED BY Zenon, <2>1, <2>2
<1> QED BY Zenon, <1>1, <1>2

\* The sync with a message of round r, if it is not stale.
LEMMA SyncWithMessage ==
    ASSUME NEW n \in Validator, NEW M, NodeOK(n, node[n], M), NEW si, SyncOK(si, M),
           NEW peer, NEW help, NEW fetched \in Nat, ~IsStale(node[n], Highest(si) + 1)
    PROVE  LET o == SyncUp(n, node[n], si, peer, help, fetched)
           IN  /\ OutcomeOK(n, node[n], o, M)
               /\ ~SyncFails(node[n], si, fetched) => round(o.node.qc) >= round(si.qc)
<1>1. node[n] \in NodeState
  BY Zenon DEF NodeOK, NodeBase
<1>2. Highest(si) \in Nat /\ node[n].rs.current_round \in Nat
  BY Zenon, <1>1, SyncTypes, NodeTypes
<1>3. Highest(si) + 1 >= node[n].rs.current_round
  BY <1>2 DEF IsStale
<1> QED BY Zenon, <1>3, SyncUpOK

\* Every message is handled well.
LEMMA HandleOK ==
    ASSUME NEW n \in Validator, NodeOK(n, node[n], msgs), NEW m \in msgs, MsgOK(m, msgs),
           NEW fetched \in Nat, NEW refetched \in Nat, NEW x \in Handle(n, m, fetched, refetched)
    PROVE  OutcomeOK(n, node[n], x, msgs)
<1> DEFINE r == Highest(m.sync) + 1
<1>1. SyncOK(m.sync, msgs) /\ r \in Nat /\ Highest(m.sync) = highest_round(m.sync)
      /\ round(m.sync.qc) \in Nat /\ ChainBacked(m.sync.qc, msgs)
  BY SyncTypes DEF MsgOK
<1>2. CASE m.type = "Proposal"
  <2> DEFINE o == SyncUp(n, node[n], m.sync, m.author, TRUE, fetched)
             p == process_proposal(n, o.node, m.block)
             q == Outcome(o.node, {})
  <2>1. m.block \in Proper /\ parent(m.block) = m.sync.qc /\ round(m.block) = r
    BY <1>2 DEF MsgOK
  <2>2. Handle(n, m, fetched, refetched) =
          EnsureRound(n, r, m.sync, fetched, o, p) \cup EnsureRound(n, r, m.sync, fetched, o, q)
    BY <1>2, <2>1 DEF Handle, process_proposal_msg
  <2>3. ASSUME ~IsStale(node[n], r)
        PROVE  /\ OutcomeOK(n, node[n], o, msgs)
               /\ ~SyncFails(node[n], m.sync, fetched) => round(o.node.qc) >= round(m.sync.qc)
    BY Zenon, <1>1, <2>3, SyncWithMessage
  <2> HIDE DEF o
  <2>4. ASSUME ~IsStale(node[n], r), InRound(node[n], o.node, r, m.sync, fetched)
        PROVE  OutcomeOK(n, o.node, p, msgs)
    <3>1. NodeOK(n, o.node, msgs) /\ round(o.node.qc) >= round(m.sync.qc)
      BY Zenon, <2>3, <2>4 DEF InRound, OutcomeOK
    <3>2. qc_round(m.block) <= round(o.node.qc) /\ round(m.block) = o.node.rs.current_round
      <4>1. round(o.node.qc) \in Nat
        BY Zenon, <3>1, NodeTypes DEF NodeOK, NodeBase
      <4> QED BY Zenon, <1>1, <2>1, <2>4, <3>1, <4>1 DEF qc_round, InRound
    <3> QED BY Zenon, <1>1, <2>1, <3>1, <3>2, ProcessProposalOK
  <2>5. ~IsStale(node[n], r) => OutcomeOK(n, o.node, q, msgs)
    BY Zenon, <2>3, NothingOK DEF OutcomeOK
  <2> HIDE DEF p, q, r
  <2>6. \A y \in EnsureRound(n, r, m.sync, fetched, o, p) : OutcomeOK(n, node[n], y, msgs)
    BY Zenon, <1>1, <2>3, <2>4, EnsureRoundOK
  <2>7. \A y \in EnsureRound(n, r, m.sync, fetched, o, q) : OutcomeOK(n, node[n], y, msgs)
    BY Zenon, <1>1, <2>3, <2>5, EnsureRoundOK
  <2> QED BY Zenon, <2>2, <2>6, <2>7
<1>3. CASE m.type = "Vote"
  <2> DEFINE o == SyncUp(n, node[n], m.sync, m.vote.author, TRUE, fetched)
             p == process_vote(n, o.node, m.vote, refetched)
  <2>1. /\ m.vote \in ProperVote /\ round(m.vote.block) = r /\ m.vote \in VotesIn(msgs)
        /\ \A h \in m.vote.timeout : h <= round(m.sync.qc)
        /\ ChainBacked(parent(m.vote.block), msgs)
    BY <1>3 DEF MsgOK, VotesIn
  <2>2. x \in EnsureRound(n, r, m.sync, fetched, o, p)
    BY Zenon, <1>3, <2>1 DEF Handle, process_vote_msg
  <2>3. ASSUME ~IsStale(node[n], r)
        PROVE  /\ OutcomeOK(n, node[n], o, msgs)
               /\ ~SyncFails(node[n], m.sync, fetched) => round(o.node.qc) >= round(m.sync.qc)
    BY Zenon, <1>1, <2>3, SyncWithMessage
  <2> HIDE DEF o
  <2>4. ASSUME ~IsStale(node[n], r), InRound(node[n], o.node, r, m.sync, fetched)
        PROVE  OutcomeOK(n, o.node, p, msgs)
    <3>1. NodeOK(n, o.node, msgs) /\ round(o.node.qc) >= round(m.sync.qc)
      BY SMTT(30), <2>3, <2>4 DEF InRound, OutcomeOK
    <3>2. VoteOK(o.node, m.vote)
      <4>1. round(o.node.qc) \in Nat
        BY <3>1, NodeTypes DEF NodeOK, NodeBase
      <4>2. m.vote.timeout \subseteq Nat
        BY Zenon, <2>1 DEF ProperVote
      <4> QED BY SMTT(30), <1>1, <2>1, <2>4, <3>1, <4>1, <4>2 DEF VoteOK, InRound
    <3> QED BY Zenon, <2>1, <3>1, <3>2, ProcessVoteOK
  <2> HIDE DEF p, r
  <2> QED BY ZenonT(30), <1>1, <2>2, <2>3, <2>4, EnsureRoundOK
<1>4. CASE m.type = "SyncInfo"
  <2> DEFINE o == SyncUp(n, node[n], m.sync, m.author, FALSE, fetched)
             p == Outcome(o.node, {})
  <2>1. x \in EnsureRound(n, r, m.sync, fetched, o, p)
    BY Zenon, <1>1, <1>4 DEF Handle, process_sync_info_msg
  <2>2. ASSUME ~IsStale(node[n], r) PROVE OutcomeOK(n, node[n], o, msgs)
    BY Zenon, <1>1, <2>2, SyncWithMessage
  <2> HIDE DEF o
  <2>3. ~IsStale(node[n], r) => OutcomeOK(n, o.node, p, msgs)
    BY <2>2, NothingOK DEF OutcomeOK
  <2> HIDE DEF p, r
  <2> QED BY Zenon, <1>1, <2>1, <2>2, <2>3, EnsureRoundOK
<1> QED BY Zenon, <1>2, <1>3, <1>4 DEF MsgOK

\* A restart finds the validator in the round it was in.
LEMMA RestartedOK ==
    ASSUME NEW n \in Validator, NEW s, NEW M, NodeOK(n, s, M)
    PROVE  OutcomeOK(n, s, Restarted(n, s), M)
<1> DEFINE r == process_certificates(NewRoundState, highest_round(sync_info(s)))
           v == CHOOSE w \in s.saved_vote : TRUE
           q == IF s.saved_vote = {} THEN r ELSE record_vote(r, v)
           t == [s EXCEPT !.rs = q]
<1>1. /\ s \in NodeState /\ CertsOK(s, M) /\ SafetyOK(s) /\ SentOK(n, s) /\ ParentsOK(s, M)
      /\ s.rs.current_round = Highest(s) + 1 /\ Highest(s) \in Nat /\ round(s.qc) \in Nat
      /\ s.saved_vote \subseteq ProperVote /\ s.safety \in ProperSafety
  BY Zenon, NodeTypes DEF NodeOK, NodeBase, NodeState
<1>2. highest_round(sync_info(s)) = Highest(s)
  BY <1>1, SyncInfoOK
<1>3. /\ r \in RState /\ r.current_round = Highest(s) + 1 /\ r.vote_sent = {}
      /\ r.pending_votes.author_to_vote = {} /\ r.pending_votes.partial_tc = {}
  BY <1>1, <1>2
     DEF process_certificates, NewRoundState, NewPendingVotes, RState, PendingState
<1> HIDE DEF r
<1>4. s.saved_vote # {} => v \in s.saved_vote
  BY Zenon
<1> HIDE DEF v
<1>5. /\ q \in RState /\ q.current_round = Highest(s) + 1
      /\ q.pending_votes = r.pending_votes
      /\ \A w \in q.vote_sent : w \in s.saved_vote /\ round(w.block) = Highest(s) + 1
  <2>1. CASE s.saved_vote = {} \/ round(v.block) # r.current_round
    BY <1>3, <2>1 DEF record_vote
  <2>2. CASE s.saved_vote # {} /\ round(v.block) = r.current_round
    <3>1. q = [r EXCEPT !.vote_sent = {v}]
      BY <2>2 DEF record_vote
    <3> HIDE DEF q
    <3> QED BY ZenonT(30), <1>1, <1>3, <1>4, <2>2, <3>1 DEF RState
  <2> QED BY <2>1, <2>2
<1> HIDE DEF q
<1>6. /\ t \in NodeState /\ t.rs = q /\ t.qc = s.qc /\ t.tc = s.tc
      /\ t.saved_vote = s.saved_vote /\ t.safety = s.safety
  BY <1>1, <1>5, WithRs
<1>7. Restarted(n, s) = Outcome(t, Propose(n, t))
  BY Zenon DEF Restarted, q, r, v
<1> HIDE DEF t
<1>8. CertsOK(t, M) /\ Highest(t) = Highest(s) /\ SafetyOK(t) /\ PendingOK(t, M)
      /\ ParentsOK(t, M)
  BY Zenon, <1>1, <1>3, <1>5, <1>6 DEF CertsOK, Highest, SafetyOK, PendingOK, ParentsOK
<1>9. SentOK(n, t)
  <2>1. ASSUME NEW w \in t.rs.vote_sent
        PROVE  w.author = n /\ VoteOK(t, w) /\ t.safety.last_voted_round = t.rs.current_round
    <3>1. w \in s.saved_vote /\ round(w.block) = t.rs.current_round
          /\ t.rs.current_round = s.rs.current_round
      BY Zenon, <1>1, <1>5, <1>6, <2>1
    <3>2. w.author = n /\ w.timeout = {} /\ round(w.block) <= s.safety.last_voted_round
      BY Zenon, <1>1, <3>1 DEF SentOK
    <3>3. s.safety.last_voted_round <= s.rs.current_round /\ s.safety.last_voted_round \in Nat
      BY Zenon, <1>1 DEF SafetyOK, ProperSafety
    <3> QED BY <1>1, <1>6, <3>1, <3>2, <3>3 DEF VoteOK
  <2> QED BY Zenon, <1>1, <1>6, <2>1 DEF SentOK
<1>10. NodeOK(n, t, M)
  BY Zenon, <1>1, <1>5, <1>6, <1>8, <1>9 DEF NodeOK, NodeBase
<1>11. Grows(s, t)
  BY Zenon, <1>1, <1>5, <1>6, NothingOK DEF Grows
<1>12. \A m \in Propose(n, t) : MsgOK(m, M)
  BY Zenon, <1>10, ProposeOK
<1> QED BY <1>7, <1>10, <1>11, <1>12 DEF OutcomeOK, Outcome

\* Wherever a crash finds a handler, what has been signed is of the round.
LEMMA InterruptedOK ==
    ASSUME NEW n \in Validator, NodeOK(n, node[n], msgs), \A m \in msgs : MsgOK(m, msgs),
           NEW s \in Interrupted(n, node[n])
    PROVE  NodeOK(n, s, msgs) /\ Grows(node[n], s)
<1> DEFINE c == node[n]
<1>1. c \in NodeState /\ CertsOK(c, msgs) /\ round(c.qc) \in Nat
  BY Zenon, NodeTypes DEF NodeOK, NodeBase
<1>2. ASSUME NEW b, s = Signs(c, b) \/ s = execute_and_vote(n, c, b),
             b \in Proper, ChainBacked(parent(b), msgs), round(b) = c.rs.current_round,
             qc_round(b) <= round(c.qc)
      PROVE  NodeOK(n, s, msgs) /\ Grows(c, s)
  <2>1. NodeOK(n, s, msgs) /\ s.qc = c.qc /\ s.tc = c.tc /\ s.rs = c.rs
    <3>1. b \in Proper /\ ChainBacked(parent(b), msgs) /\ round(b) = c.rs.current_round
          /\ qc_round(b) <= round(c.qc) /\ NodeOK(n, c, msgs)
      BY Zenon, <1>2
    <3>2. CASE s = Signs(c, b)
      <4> HIDE DEF c
      <4> QED BY ZenonT(30), <3>1, <3>2, SignsOK
    <3>3. CASE s = execute_and_vote(n, c, b)
      <4> HIDE DEF c
      <4> QED BY <3>1, <3>3, ExecuteAndVoteOK
    <3> QED BY Zenon, <1>2, <3>2, <3>3
  <2> QED BY Zenon, <2>1, NothingOK DEF Grows
<1>3. ASSUME NEW m \in msgs, m.type = "Proposal", round(m.block) = c.rs.current_round,
             ~has_newer_certificates(m.sync, sync_info(c))
      PROVE  /\ m.block \in Proper /\ ChainBacked(parent(m.block), msgs)
             /\ qc_round(m.block) <= round(c.qc)
  <2>1. m.block \in Proper /\ parent(m.block) = m.sync.qc /\ SyncOK(m.sync, msgs)
    BY Zenon, <1>3 DEF MsgOK
  <2>2. ChainBacked(m.sync.qc, msgs) /\ round(m.sync.qc) \in Nat
    BY <2>1, SyncTypes
  <2>3. sync_info(c).qc = c.qc
    BY Zenon, <1>1, SyncInfoOK
  <2>4. round(m.sync.qc) <= round(c.qc)
    BY SMTT(30), <1>1, <1>3, <2>2, <2>3 DEF has_newer_certificates
  <2> QED BY Zenon, <2>1, <2>2, <2>4 DEF qc_round
<1>4. \/ s = c
      \/ s = Signs(c, NilBlock(c)) \/ s = execute_and_vote(n, c, NilBlock(c))
      \/ \E m \in msgs : /\ m.type = "Proposal" /\ round(m.block) = c.rs.current_round
                         /\ ~has_newer_certificates(m.sync, sync_info(c))
                         /\ s = Signs(c, m.block) \/ s = execute_and_vote(n, c, m.block)
  BY DEF Interrupted
<1> HIDE DEF c
<1>5. CASE s = c
  BY Zenon, <1>5, NothingOK DEF c
<1>6. CASE s = Signs(c, NilBlock(c)) \/ s = execute_and_vote(n, c, NilBlock(c))
  <2>1. NodeOK(n, c, msgs)
    BY Zenon DEF c
  <2> QED BY Zenon, <1>2, <1>6, <2>1, NilBlockOK DEF c
<1>7. ASSUME NEW m \in msgs, m.type = "Proposal", round(m.block) = c.rs.current_round,
             ~has_newer_certificates(m.sync, sync_info(c)),
             s = Signs(c, m.block) \/ s = execute_and_vote(n, c, m.block)
      PROVE  NodeOK(n, s, msgs) /\ Grows(node[n], s)
  BY <1>2, <1>3, <1>7 DEF c
<1> QED BY Zenon, <1>4, <1>5, <1>6, <1>7
--------------------------------------------------------------------------------
\* The invariant.

\* The epoch starts in round 1.
LEMMA InitEstablishes == Init => IInv
<1> SUFFICES ASSUME Init PROVE IInv
  BY Zenon
<1>1. ASSUME NEW n \in Validator PROVE NodeBase(n, NewNode, msgs)
  <2>1. round(Genesis) = 0 /\ Genesis \in Proper /\ Genesis \in Block
    BY Zenon, ProperFacts DEF round
  <2>2. NewNode \in NodeState
    BY <2>1 DEF NewNode, NodeState, RState, PendingState, ProperSafety, TimeoutCert, NoTC,
                NewRoundState, NewPendingVotes
  <2>3. CertsOK(NewNode, msgs) /\ NewNode.rs.current_round <= Highest(NewNode) + 1
    <3>1. NewNode.qc = Genesis /\ NewNode.tc = NoTC /\ NewNode.rs.current_round = 0
      BY DEF NewNode, NewRoundState
    <3>2. NoTC.round = 0 /\ NoTC.hqc_round = 0 /\ TCBacked(NoTC, msgs)
      BY DEF NoTC, TCBacked
    <3>3. ChainBacked(Genesis, msgs)
      BY GenesisIsBacked
    <3> QED BY <2>1, <3>1, <3>2, <3>3 DEF CertsOK, Highest, MaxOf
  <2>4. /\ SafetyOK(NewNode) /\ SentOK(n, NewNode) /\ ParentsOK(NewNode, msgs)
        /\ PendingOK(NewNode, msgs)
    <3>1. ChainBacked(parent(Genesis), msgs)
      BY Zenon, GenesisIsBacked
    <3>2. /\ NewNode.qc = Genesis /\ NewNode.rs = NewRoundState /\ NewNode.saved_vote = {}
          /\ NewNode.safety.last_voted_round = 0 /\ NewNode.safety.last_vote = Genesis
          /\ NewNode.safety.preferred_round = 0 /\ NewNode.safety.one_chain_round = 0
      BY DEF NewNode
    <3>3. /\ NewRoundState.current_round = 0 /\ NewRoundState.vote_sent = {}
          /\ NewRoundState.pending_votes.author_to_vote = {}
          /\ NewRoundState.pending_votes.partial_tc = {}
      BY DEF NewRoundState, NewPendingVotes
    <3>4. ParentsOK(NewNode, msgs)
      BY Zenon, <3>1, <3>2, <3>3 DEF ParentsOK
    <3>5. SafetyOK(NewNode) /\ SentOK(n, NewNode)
      BY <2>1, <3>2, <3>3 DEF SafetyOK, SentOK
    <3>6. PendingOK(NewNode, msgs)
      BY Zenon, <3>2, <3>3 DEF PendingOK
    <3> QED BY <3>4, <3>5, <3>6
  <2> QED BY Zenon, <2>2, <2>3, <2>4 DEF NodeBase
<1>2. \A n \in Validator : /\ NodeOK(n, StartRound(n, NewNode).node, msgs)
                           /\ \A m \in StartRound(n, NewNode).sends : MsgOK(m, msgs)
  BY Zenon, <1>1, StartRoundOK
<1>3. config \in Config /\ config.up \subseteq Validator
  BY ConfigAssumption DEF Init, Config
<1>4. \A n \in Validator : node[n] = StartRound(n, NewNode).node
  BY DEF Init
<1>5. node \in [Validator -> NodeState]
  BY Zenon, <1>2 DEF Init, NodeOK, NodeBase
<1>6. \A m \in msgs : MsgOK(m, msgs)
  BY Zenon, <1>2, <1>3 DEF Init
<1> QED BY Zenon, <1>2, <1>3, <1>4, <1>5, <1>6 DEF Init, IInv

\* The end of a handler.
LEMMA EndsOK ==
    ASSUME IInv, NEW n \in Validator, NEW o, OutcomeOK(n, node[n], o, msgs), Ends(n, o),
           restarts' \in Nat
    PROVE  IInv' /\ \A k \in Validator : Grows(node[k], node'[k])
<1>1. msgs \subseteq msgs' /\ node' = [node EXCEPT ![n] = o.node] /\ config' = config
  BY Zenon DEF Ends
<1>2. NodeOK(n, o.node, msgs) /\ o.node \in NodeState /\ Grows(node[n], o.node)
  BY DEF OutcomeOK, NodeOK, NodeBase
<1>3. node \in [Validator -> NodeState] /\ \A k \in Validator : NodeOK(k, node[k], msgs)
  BY DEF IInv
<1>4. node' \in [Validator -> NodeState] /\ \A k \in Validator : NodeOK(k, node'[k], msgs)
  BY Zenon, <1>1, <1>2, <1>3
<1>5. \A k \in Validator : NodeOK(k, node'[k], msgs')
  BY <1>1, <1>4, InvariantsGrow
<1>6. \A m \in msgs' : MsgOK(m, msgs')
  <2>1. \A m \in msgs' : MsgOK(m, msgs)
    BY DEF Ends, OutcomeOK, IInv
  <2> QED BY Zenon, <1>1, <2>1, InvariantsGrow
<1>7. \A k \in Validator : Grows(node[k], node'[k])
  BY Zenon, <1>1, <1>2, <1>3, NothingOK
<1> QED BY Zenon, <1>1, <1>4, <1>5, <1>6, <1>7 DEF IInv

\* Every step keeps the invariant and takes nothing back.
LEMMA StepPreserves ==
    ASSUME IInv, [Next]_vars
    PROVE  IInv' /\ \A n \in Validator : Grows(node[n], node'[n])
<1> USE DEF IInv
<1>1. CASE UNCHANGED vars
  BY Zenon, <1>1, NothingOK DEF vars
<1>2. ASSUME NEW n \in config.up, NEW m \in msgs,
             NEW fetched \in Fetches(n, m.sync.qc), NEW refetched \in Fetches(n, Voted(m)),
             Receive(n, m, fetched, refetched)
      PROVE  IInv' /\ \A k \in Validator : Grows(node[k], node'[k])
  <2>1. n \in Validator
    BY Zenon DEF Config
  <2>2. PICK o \in Handle(n, m, fetched, refetched) : Ends(n, o)
    BY Zenon, <1>2 DEF Receive
  <2>3. fetched \in Nat /\ refetched \in Nat
    <3>1. m.sync.qc \in Block /\ Voted(m) \in Block
      BY Zenon, ProperFacts DEF MsgOK, SyncOK, Voted, ProperVote
    <3> QED BY SMTT(20), <3>1 DEF Fetches, Block
  <2>4. OutcomeOK(n, node[n], o, msgs)
    BY Zenon, <2>1, <2>3, HandleOK
  <2>5. restarts' \in Nat
    BY Zenon, <1>2 DEF Receive
  <2> QED BY Zenon, <2>1, <2>2, <2>4, <2>5, EndsOK
<1>3. ASSUME NEW n \in config.up, LocalTimeout(n)
      PROVE  IInv' /\ \A k \in Validator : Grows(node[k], node'[k])
  <2>1. n \in Validator
    BY Zenon DEF Config
  <2> DEFINE o == process_local_timeout(n, node[n])
  <2>2. OutcomeOK(n, node[n], o, msgs)
    BY Zenon, <2>1, LocalTimeoutOK
  <2>3. Ends(n, o) /\ restarts' \in Nat
    BY Zenon, <1>3 DEF LocalTimeout
  <2> QED BY Zenon, <2>1, <2>2, <2>3, EndsOK
<1>4. ASSUME NEW n \in config.up, Restart(n)
      PROVE  IInv' /\ \A k \in Validator : Grows(node[k], node'[k])
  <2>1. n \in Validator
    BY DEF Config
  <2>2. PICK s \in Interrupted(n, node[n]) : Ends(n, Restarted(n, s))
    BY Zenon, <1>4 DEF Restart
  <2> DEFINE o == Restarted(n, s)
  <2>3. NodeOK(n, s, msgs) /\ Grows(node[n], s)
    BY Zenon, <2>1, InterruptedOK
  <2>4. OutcomeOK(n, s, o, msgs)
    BY Zenon, <2>1, <2>3, RestartedOK
  <2> HIDE DEF o
  <2>5. OutcomeOK(n, node[n], o, msgs)
    <3>1. node[n] \in NodeState /\ s \in NodeState /\ o.node \in NodeState
      BY Zenon, <2>1, <2>3, <2>4 DEF OutcomeOK, NodeOK, NodeBase
    <3>2. /\ round(node[n].qc) \in Nat /\ round(s.qc) \in Nat /\ round(o.node.qc) \in Nat
          /\ node[n].tc.round \in Nat /\ s.tc.round \in Nat /\ o.node.tc.round \in Nat
          /\ node[n].rs.current_round \in Nat /\ s.rs.current_round \in Nat
          /\ o.node.rs.current_round \in Nat
      BY Zenon, <3>1, NodeTypes
    <3>3. Grows(node[n], o.node)
      BY SMTT(30), <2>3, <2>4, <3>2 DEF OutcomeOK, Grows
    <3> QED BY Zenon, <2>4, <3>3 DEF OutcomeOK
  <2>6. restarts' \in Nat
    BY <1>4 DEF Restart
  <2> QED BY Zenon, <2>1, <2>2, <2>5, <2>6, EndsOK DEF o
<1> QED BY Zenon, <1>1, <1>2, <1>3, <1>4 DEF Next

\* A validator can time out of its round once it has voted in it.
LEMMA TimeoutIsSafe ==
    ASSUME NEW n, NEW s, NEW M, NodeOK(n, s, M)
    PROVE  MayTimeout(s, s.rs.current_round)
<1>1. s \in NodeState /\ SafetyOK(s) /\ s.rs.current_round = Highest(s) + 1
      /\ s.safety \in ProperSafety
  BY Zenon DEF NodeOK, NodeBase, NodeState
<1> QED BY <1>1, NodeTypes
        DEF MayTimeout, safe_to_timeout, safe_to_sign_timeout, SafetyOK, ProperSafety

\* The safety rules allow the vote for the NIL block and the timeout.
LEMMA CanTimeOutByInvariant == IInv => CanTimeOut
<1> SUFFICES ASSUME IInv, NEW n \in Validator
             PROVE  LET s == node[n]
                        voted == s.rs.vote_sent # {}
                    IN  /\ voted \/ MayVote(s, NilBlock(s))
                        /\ MayTimeout(IF voted THEN s ELSE Signs(s, NilBlock(s)),
                                      s.rs.current_round)
  BY DEF CanTimeOut
<1> DEFINE s == node[n]
           b == NilBlock(s)
<1>1. NodeOK(n, s, msgs)
  BY Zenon DEF IInv
<1>2. /\ s \in NodeState /\ SafetyOK(s) /\ s.rs.current_round = Highest(s) + 1
      /\ s.safety \in ProperSafety /\ s.tc.hqc_round <= round(s.qc)
  BY Zenon, <1>1 DEF NodeOK, NodeBase, NodeState, CertsOK
<1>3. /\ b \in Proper /\ ChainBacked(parent(b), msgs) /\ round(b) = s.rs.current_round
      /\ qc_round(b) = round(s.qc) /\ qc_round(b) <= round(s.qc)
  BY Zenon, <1>1, NilBlockOK
<1> HIDE DEF s, b
<1>4. MayVote(s, b)
  BY <1>2, <1>3, NodeTypes
     DEF MayVote, verify_last_vote_round, safe_to_vote, verify_preferred_round, SafetyOK,
         ProperSafety
<1>5. MayTimeout(s, s.rs.current_round)
  BY Zenon, <1>1, TimeoutIsSafe
<1>6. NodeOK(n, Signs(s, b), msgs) /\ Signs(s, b).rs = s.rs
  BY Zenon, <1>1, <1>3, SignsOK
<1>7. MayTimeout(Signs(s, b), s.rs.current_round)
  BY <1>6, TimeoutIsSafe
<1> QED BY Zenon, <1>4, <1>5, <1>7 DEF s, b
--------------------------------------------------------------------------------
\* Theorems.

\* The inductive invariant holds, and no step takes back a certificate or a round.
LEMMA Invariance == Spec => []IInv /\ NeverRegresses
<1>1. IInv /\ [Next]_vars => IInv'
  BY Zenon, StepPreserves
<1>2. IInv /\ [Next]_vars => [\A n \in Validator :
        /\ round(node'[n].qc) >= round(node[n].qc)
        /\ node'[n].tc.round >= node[n].tc.round
        /\ node'[n].rs.current_round >= node[n].rs.current_round]_vars
  BY StepPreserves DEF Grows
<1> QED BY InitEstablishes, <1>1, <1>2, PTL DEF Spec, NeverRegresses

\* Every field has its type, and vote_sent is a vote of the current round: init after a
\* restart and record_vote in a handler never leave one of another round there.
THEOREM TypeCorrect == Spec => []TypeOK
<1>1. IInv => TypeOK
  <2> SUFFICES ASSUME IInv PROVE TypeOK
    OBVIOUS
  <2>1. Proper \subseteq Block /\ ProperVote \subseteq Vote
    BY Zenon DEF Proper, ProperVote, Vote
  <2>2. ASSUME NEW n \in Validator
        PROVE  LET s == node[n]
               IN  /\ s.qc \in Block /\ s.tc \in TimeoutCert /\ s.blocks \subseteq Block
                   /\ s.safety \in SafetyData
                   /\ s.saved_vote \subseteq Vote
                   /\ s.rs.current_round \in Nat \ {0}
                   /\ s.rs.pending_votes.author_to_vote \subseteq Vote
                   /\ s.rs.pending_votes.partial_tc \subseteq Vote
                   /\ \A v \in s.rs.vote_sent :
                         v \in Vote /\ v.author = n /\ round(v.block) = s.rs.current_round
    <3> DEFINE s == node[n]
    <3>1. s \in NodeState /\ SentOK(n, s) /\ s.rs.current_round = Highest(s) + 1
      BY Zenon DEF IInv, NodeOK, NodeBase
    <3> HIDE DEF s
    <3>2. s.qc \in Block /\ s.tc \in TimeoutCert /\ s.rs.current_round \in Nat \ {0}
      BY <3>1, NodeTypes
    <3>3. /\ s.blocks \subseteq Block /\ s.saved_vote \subseteq Vote /\ s.safety \in SafetyData
          /\ s.rs \in RState
      BY Zenon, <2>1, <3>1 DEF NodeState, ProperSafety, SafetyData
    <3>4. /\ s.rs.pending_votes.author_to_vote \subseteq Vote
          /\ s.rs.pending_votes.partial_tc \subseteq Vote
          /\ s.rs.vote_sent \subseteq Vote
      BY Zenon, <2>1, <3>3 DEF RState, PendingState
    <3> QED BY Zenon, <3>1, <3>2, <3>3, <3>4 DEF s, SentOK, VoteOK
  <2> QED BY <2>2 DEF IInv, TypeOK
<1> QED BY Invariance, <1>1, PTL

\* "Current round is max{highest_qc, highest_tc} + 1" (RoundState), whatever is lost,
\* repeated or late, whichever syncs fail, and after restarts.
THEOREM RoundFollowsCertificates == Spec => []RoundIsHighest
<1>1. IInv => RoundIsHighest
  BY DEF IInv, NodeOK, RoundIsHighest, Highest
<1> QED BY Invariance, <1>1, PTL

\* insert_quorum_cert, insert_timeout_certificate (which compares with the wrong kind of
\* certificate) and process_certificates never replace a certificate by a lower one nor
\* go back in rounds, because ensure_round_and_sync_up drops stale messages.
THEOREM NothingGoesBack == Spec => NeverRegresses
BY Invariance, PTL

\* SafetyRules never refuse the vote for the NIL block or the timeout of the round that
\* process_local_timeout asks them for, in either protocol.
THEOREM EveryRoundCanTimeOut == Spec => []CanTimeOut
BY Invariance, CanTimeOutByInvariant, PTL

\* Every certificate that PendingVotes makes, or that is received, is backed by the votes
\* or timeouts of a quorum.
THEOREM CertificatesBacked == Spec => []CertificatesAreBacked
<1>1. IInv => CertificatesAreBacked
  <2> SUFFICES ASSUME IInv, NEW n \in Validator
               PROVE  LET s == node[n]
                          signed == {v \in Votes : round(v.block) = s.tc.round /\ is_timeout(v)}
                      IN  /\ s.qc = Genesis \/ check_voting_power({v \in Votes : v.block = s.qc})
                          /\ s.tc = NoTC \/ check_voting_power({v \in signed :
                                \A h \in v.timeout : h <= s.tc.hqc_round})
    BY Zenon DEF CertificatesAreBacked
  <2> DEFINE s == node[n]
             signed == {v \in Votes : round(v.block) = s.tc.round /\ is_timeout(v)}
  <2>1. QCBacked(s.qc, msgs) /\ TCBacked(s.tc, msgs) /\ Votes = VotesIn(msgs)
    <3>1. s.qc \in Block /\ ChainBacked(s.qc, msgs) /\ TCBacked(s.tc, msgs)
      BY Zenon, NodeTypes DEF IInv, NodeOK, NodeBase, CertsOK
    <3> QED BY Zenon, <3>1, ChainEnd DEF Votes, VotesIn
  <2>2. {v \in VotesIn(msgs) : round(v.block) = s.tc.round /\ is_timeout(v)
                                 /\ \A h \in v.timeout : h <= s.tc.hqc_round}
          \subseteq {v \in signed : \A h \in v.timeout : h <= s.tc.hqc_round}
    BY <2>1
  <2> QED BY <2>1, <2>2, PowerGrows DEF QCBacked, TCBacked
<1> QED BY Invariance, <1>1, PTL
================================================================================
