--------------------------- MODULE SafetyRulesProofs ---------------------------
(***************************************************************************)
(* SafetyRules implements AtomicVoter whatever fails and whenever it       *)
(* restarts, and keeps the voting rules, for any number of epochs and any  *)
(* proposals, timeouts and certificates.                                   *)
(*                                                                         *)
(* Two inductive invariants: Storage of the detailed specification, which  *)
(* ties the cache and the waypoint to the stored SafetyData, and History   *)
(* of the atomic one, which ties that SafetyData to all it ever sent.      *)
(***************************************************************************)
EXTENDS SafetyRules, TLAPS

\* What the inputs are, from InputAssumption.
LEMMA InputFacts ==
    /\ MaxEpoch \in Nat \ {0}
    /\ 1 \in Epoch
    /\ \A e \in Epoch : e \in Nat /\ e >= 1 /\ e <= MaxEpoch /\ TwoChain[e] \in BOOLEAN
    /\ \A p \in Proposals : p \in Proposal /\ p.epoch \in Epoch /\ p.qc_round < p.round
                            /\ p.qc_parent_round <= p.qc_round
    /\ \A t \in Timeouts : t \in Timeout /\ t.epoch \in Epoch /\ t.hqc_round < t.round
    /\ \A tc \in TimeoutCerts : tc \in [round : Nat, hqc_round : Nat]
BY InputAssumption DEF Epoch

\* SafetyData::new is a SafetyData.
LEMMA NewDataType ==
    ASSUME NEW e \in Nat
    PROVE  NewSafetyData(e) \in SafetyData /\ NewSafetyData(e).epoch = e
BY DEF NewSafetyData, SafetyData, NoVote, Proposal

\* The fields of the data recorded with a vote (verify_and_update_last_vote_round,
\* observe_qc and the assignment of last_vote).
LEMMA AfterVoteData ==
    ASSUME NEW sd \in SafetyData, NEW p \in Proposal
    PROVE  LET d == AfterVote(sd, p) IN
           /\ d \in SafetyData
           /\ d.epoch = sd.epoch /\ d.last_voted_round = p.round /\ d.last_vote = p
           /\ d.one_chain_round >= sd.one_chain_round /\ d.one_chain_round >= p.qc_round
           /\ d.preferred_round >= sd.preferred_round
           /\ d.preferred_round >= p.qc_parent_round
<1> DEFINE d1 == [sd EXCEPT !.last_voted_round = p.round]
           o == MaxOf(sd.one_chain_round, p.qc_round)
           q == MaxOf(sd.preferred_round, p.qc_parent_round)
           d2 == [d1 EXCEPT !.one_chain_round = o, !.preferred_round = q]
           d3 == [d2 EXCEPT !.last_vote = p]
<1>1. /\ o \in Nat /\ o >= sd.one_chain_round /\ o >= p.qc_round
      /\ q \in Nat /\ q >= sd.preferred_round /\ q >= p.qc_parent_round
  BY DEF MaxOf, SafetyData, Proposal
<1>2. /\ d1 \in SafetyData /\ d1.epoch = sd.epoch /\ d1.last_voted_round = p.round
      /\ d1.one_chain_round = sd.one_chain_round /\ d1.preferred_round = sd.preferred_round
  BY DEF SafetyData, Proposal
<1>3. AfterVote(sd, p) = d3
  BY <1>2 DEF AfterVote, observe_qc
<1> HIDE DEF o, q, d1
<1>4. /\ d2 \in SafetyData /\ d2.epoch = sd.epoch /\ d2.last_voted_round = p.round
      /\ d2.one_chain_round = o /\ d2.preferred_round = q
  BY Zenon, <1>1, <1>2 DEF SafetyData
<1> HIDE DEF d2
<1>5. /\ d3 \in SafetyData /\ d3.epoch = sd.epoch /\ d3.last_voted_round = p.round
      /\ d3.one_chain_round = o /\ d3.preferred_round = q /\ d3.last_vote = p
  BY <1>4 DEF SafetyData
<1> QED BY <1>1, <1>3, <1>5

\* The fields of the data recorded with a timeout.
LEMMA TimeoutData ==
    ASSUME NEW sd \in SafetyData, NEW r \in Nat
    PROVE  LET d == record_timeout(sd, r) IN
           /\ d \in SafetyData
           /\ d.epoch = sd.epoch /\ d.last_vote = sd.last_vote
           /\ d.one_chain_round = sd.one_chain_round
           /\ d.preferred_round = sd.preferred_round
           /\ d.last_voted_round >= sd.last_voted_round /\ d.last_voted_round >= r
           /\ r <= sd.last_voted_round => d = sd
<1> DEFINE m == MaxOf(sd.last_voted_round, r)
<1>1. /\ m \in Nat /\ m >= sd.last_voted_round /\ m >= r
      /\ r <= sd.last_voted_round => m = sd.last_voted_round
  BY DEF MaxOf, SafetyData
<1>2. record_timeout(sd, r) = [sd EXCEPT !.last_voted_round = m]
  BY DEF record_timeout, SafetyData
<1> HIDE DEF m
<1> QED BY <1>1, <1>2 DEF SafetyData
--------------------------------------------------------------------------------
\* The invariant of the detailed specification.
Storage == TypeOK /\ CacheCoherent /\ EpochWithinWaypoint

\* A coherent cache is never ahead of or behind what it caches.
LEMMA ReadsTheStore ==
    ASSUME Storage
    PROVE  safety_data = store
BY DEF Storage, CacheCoherent, safety_data

\* SafetyRules::new with an initialized storage.
LEMMA StorageInit == Init => Storage
<1> SUFFICES ASSUME Init PROVE Storage
  OBVIOUS
<1>1. store \in SafetyData /\ cache \in SafetyData /\ store.epoch = 1
  BY NewDataType DEF Init, NoCache
<1> QED
  BY <1>1, InputFacts DEF Init, Storage, TypeOK, CacheCoherent, EpochWithinWaypoint, Keys, NoCache

\* The writes of set_safety_data keep the cache coherent, whatever their outcome.
LEMMA WriteIsCoherent ==
    ASSUME NEW d \in SafetyData, d.epoch \in Epoch, Storage,
           set_safety_data(d) \/ set_safety_data_fails(d)
    PROVE  /\ store' \in {store, d}
           /\ store' \in SafetyData /\ cache' \in SafetyData
           /\ store'.epoch \in Epoch
           /\ cache'.epoch \in Epoch \/ cache' = NoCache
           /\ CacheCoherent'
<1>1. NoCache \in SafetyData
  BY NewDataType DEF NoCache
<1> QED
  BY <1>1 DEF set_safety_data, set_safety_data_fails, CacheCoherent, Storage, TypeOK, NoCache

\* So does reading.
LEMMA ReadIsCoherent ==
    ASSUME Storage, ReadSafetyData, store' = store
    PROVE  /\ cache' \in SafetyData
           /\ cache'.epoch \in Epoch \/ cache' = NoCache
           /\ CacheCoherent'
BY ReadsTheStore DEF ReadSafetyData, CacheCoherent, Storage, TypeOK, NoCache

\* Every outcome of initialize keeps it: the waypoint goes first.
LEMMA InitializeStorage ==
    ASSUME Storage, NEW w \in 0..(MaxEpoch - 1),
           InitializeStopsAtWaypoint(w) \/ InitializeStopsAtEpoch(w) \/ Initialize(w)
    PROVE  Storage'
<1> DEFINE d == NewSafetyData(w + 1)
<1>1. d \in SafetyData /\ d.epoch = w + 1 /\ w + 1 \in Epoch /\ w \in Nat
  BY NewDataType, InputFacts DEF Epoch
<1>2. waypoint' \in 0..(MaxEpoch - 1) /\ waypoint' >= waypoint
  BY DEF InitializeStopsAtWaypoint, InitializeStopsAtEpoch, Initialize, Storage, TypeOK
<1>3. store.epoch \in Nat /\ waypoint \in Nat /\ store.epoch <= waypoint + 1
  BY DEF Storage, TypeOK, EpochWithinWaypoint, SafetyData
<1>4. CASE InitializeStopsAtWaypoint(w)
  BY <1>2, <1>3, <1>4
     DEF InitializeStopsAtWaypoint, Storage, TypeOK, CacheCoherent, EpochWithinWaypoint, NoCache
<1>5. CASE InitializeStopsAtEpoch(w)
  <2>1. set_safety_data_fails(d) /\ waypoint' = w
    BY <1>5 DEF InitializeStopsAtEpoch
  <2>2. EpochWithinWaypoint'
    BY <1>1, <1>2, <1>3, <2>1, WriteIsCoherent DEF EpochWithinWaypoint
  <2> HIDE DEF d
  <2> QED
    BY <1>1, <1>2, <1>5, <2>1, <2>2, WriteIsCoherent
       DEF InitializeStopsAtEpoch, Storage, TypeOK, NoCache
<1>6. CASE Initialize(w)
  <2>1. signer' \in Keys
    BY <1>1, <1>6 DEF Initialize, ReconcileKey, Storage, TypeOK, Keys
  <2>2. /\ store' \in {store, d}
        /\ store' \in SafetyData /\ cache' \in SafetyData
        /\ store'.epoch \in Epoch
        /\ cache'.epoch \in Epoch \/ cache' = NoCache
        /\ CacheCoherent'
    <3>1. CASE safety_data.epoch < w + 1
      BY <1>1, <1>6, <3>1, WriteIsCoherent DEF Initialize
    <3>2. CASE ~(safety_data.epoch < w + 1)
      BY <1>6, <3>2, ReadIsCoherent DEF Initialize, Storage, TypeOK
    <3> QED BY <3>1, <3>2
  <2>3. waypoint' = w /\ epoch_state' \in 0..MaxEpoch /\ UNCHANGED <<sent, proposed>>
    BY <1>1, <1>6 DEF Initialize, Epoch
  <2>4. EpochWithinWaypoint'
    BY <1>1, <1>2, <1>3, <2>2, <2>3 DEF EpochWithinWaypoint
  <2> HIDE DEF d
  <2> QED
    BY <1>2, <2>1, <2>2, <2>3, <2>4 DEF Storage, TypeOK, NoCache
<1> QED BY <1>4, <1>5, <1>6

\* Persisting data of the same epoch and handing a message out keeps it, and is
\* a step that records the data and may or may not send.
LEMMA PersistThenSendStorage ==
    ASSUME Storage, NEW d \in SafetyData, d.epoch = store.epoch,
           NEW m, m \in Proposal \/ m \in Timeout,
           PersistThenSend(d, m)
    PROVE  /\ Storage'
           /\ \/ store' = d /\ sent' \in {sent, sent \cup {m}}
              \/ UNCHANGED <<store, sent>>
<1>1. d.epoch \in Epoch
  BY DEF Storage, TypeOK
<1>2. /\ store' \in {store, d}
      /\ store' \in SafetyData /\ cache' \in SafetyData
      /\ store'.epoch \in Epoch
      /\ cache'.epoch \in Epoch \/ cache' = NoCache
      /\ CacheCoherent'
  BY <1>1, WriteIsCoherent DEF PersistThenSend
<1>3. /\ \/ store' = d /\ sent' = sent \cup {m}
         \/ store' \in {store, d} /\ sent' = sent
      /\ UNCHANGED <<waypoint, signer, epoch_state, proposed>>
  BY DEF PersistThenSend, set_safety_data, set_safety_data_fails
<1> QED
  BY <1>2, <1>3 DEF Storage, TypeOK, EpochWithinWaypoint, NoCache

\* Handing a message out without a write keeps it.
LEMMA SendStorage ==
    ASSUME Storage, NEW m, m \in Proposal \/ m \in Timeout, Send(m)
    PROVE  Storage' /\ store' = store /\ sent' = sent \cup {m}
<1>1. /\ cache' \in SafetyData
      /\ cache'.epoch \in Epoch \/ cache' = NoCache
      /\ CacheCoherent'
  BY ReadIsCoherent DEF Send
<1> QED
  BY <1>1 DEF Send, Storage, TypeOK, EpochWithinWaypoint, NoCache

\* Every step of SafetyRules keeps Storage, and is a step of AtomicVoter or none.
LEMMA Step ==
    ASSUME Storage, [Next]_vars
    PROVE  Storage' /\ [Voter!Next]_<<store, sent>>
<1>0. safety_data = store /\ store \in SafetyData /\ store.epoch \in Nat
  BY ReadsTheStore DEF Storage, TypeOK, SafetyData
<1>1. ASSUME NEW w \in 0..(MaxEpoch - 1),
             InitializeStopsAtWaypoint(w) \/ InitializeStopsAtEpoch(w) \/ Initialize(w)
      PROVE  Storage' /\ [Voter!Next]_<<store, sent>>
  <2>1. w + 1 \in Epoch
    BY InputFacts DEF Epoch
  <2>2. \/ UNCHANGED <<store, sent>>
        \/ store' = NewSafetyData(w + 1) /\ sent' = sent /\ store.epoch < w + 1
    BY <1>0, <1>1 DEF InitializeStopsAtWaypoint, InitializeStopsAtEpoch, Initialize,
                      set_safety_data, set_safety_data_fails
  <2>3. store' = NewSafetyData(w + 1) /\ sent' = sent /\ store.epoch < w + 1 => Voter!NewEpoch
    BY <1>0, <2>1 DEF Voter!NewEpoch, Epoch, Voter!Epoch, Voter!NewSafetyData,
                      NewSafetyData, NoVote, Voter!NoVote
  <2> QED BY <1>1, <2>2, <2>3, InitializeStorage DEF Voter!Next
<1>2. ASSUME NEW p \in Proposals, ReturnLastVote(p)
      PROVE  Storage' /\ [Voter!Next]_<<store, sent>>
  <2>1. store.last_vote \in Proposal /\ store.last_vote.round = p.round
    BY <1>0, <1>2 DEF ReturnLastVote, SafetyData
  <2>2. store.last_vote # NoVote
    BY <2>1, InputFacts DEF NoVote, Proposal
  <2>3. Send(store.last_vote)
    BY <1>0, <1>2 DEF ReturnLastVote
  <2>4. Storage' /\ store' = store /\ sent' = sent \cup {store.last_vote}
    BY <2>1, <2>3, SendStorage
  <2> QED BY <2>2, <2>4 DEF Voter!Next, Voter!VoteAgain, Voter!NoVote, NoVote
<1>3. ASSUME NEW p \in Proposals, SignProposal(p)
      PROVE  Storage' /\ [Voter!Next]_<<store, sent>>
  <2>1. /\ ReadSafetyData /\ proposed' \in [epoch : Nat, round : Nat]
        /\ UNCHANGED <<store, waypoint, signer, epoch_state, sent>>
    BY <1>3, InputFacts DEF SignProposal, Proposal
  <2>2. /\ cache' \in SafetyData
        /\ cache'.epoch \in Epoch \/ cache' = NoCache
        /\ CacheCoherent'
    BY <2>1, ReadIsCoherent
  <2> QED BY <2>1, <2>2 DEF Storage, TypeOK, EpochWithinWaypoint, NoCache
<1>4. ASSUME NEW p \in Proposals, NEW tc \in TimeoutCerts, ConstructAndSignVote(p, tc)
      PROVE  Storage' /\ [Voter!Next]_<<store, sent>>
  <2> DEFINE d == AfterVote(store, p)
  <2>1. MayVote(store, p, tc) /\ PersistThenSend(d, p)
    BY <1>0, <1>4 DEF ConstructAndSignVote
  <2>2. p \in Proposal /\ d \in SafetyData /\ d.epoch = store.epoch
    BY <1>0, InputFacts, AfterVoteData
  <2> HIDE DEF d
  <2>3. /\ Storage'
        /\ \/ store' = d /\ sent' \in {sent, sent \cup {p}}
           \/ UNCHANGED <<store, sent>>
    BY Zenon, <2>1, <2>2, PersistThenSendStorage
  <2>4. store' = d /\ sent' \in {sent, sent \cup {p}} => Voter!Vote
    BY Zenon, <2>1 DEF d, Voter!Vote, Voter!MayVote, MayVote, Voter!AfterVote, AfterVote,
                Voter!observe_qc, observe_qc, Voter!MaxOf, MaxOf, Voter!safe_to_vote,
                safe_to_vote, Voter!verify_preferred_round, verify_preferred_round,
                Voter!verify_last_vote_round, verify_last_vote_round
  <2> QED BY <2>3, <2>4 DEF Voter!Next
<1>5. ASSUME NEW t \in Timeouts, NEW tc \in TimeoutCerts, SignTimeout(t, tc)
      PROVE  Storage' /\ [Voter!Next]_<<store, sent>>
  <2> DEFINE d == record_timeout(store, t.round)
  <2>1. /\ MayTimeout(store, t, tc)
        /\ IF t.round > store.last_voted_round THEN PersistThenSend(d, t) ELSE Send(t)
    BY <1>0, <1>5 DEF SignTimeout
  <2>2. /\ t \in Timeout /\ d \in SafetyData /\ d.epoch = store.epoch
        /\ t.round <= store.last_voted_round => d = store
    BY Zenon, <1>0, InputFacts, TimeoutData DEF Timeout
  <2>3. t.round \in Nat /\ store.last_voted_round \in Nat
    BY <1>0, <2>2 DEF Timeout, SafetyData
  <2> HIDE DEF d
  <2>4. /\ Storage'
        /\ \/ store' = d /\ sent' \in {sent, sent \cup {t}}
           \/ UNCHANGED <<store, sent>>
    <3>1. CASE t.round > store.last_voted_round
      BY <2>1, <2>2, <3>1, PersistThenSendStorage
    <3>2. CASE ~(t.round > store.last_voted_round)
      BY <2>1, <2>2, <2>3, <3>2, SendStorage
    <3> QED BY <3>1, <3>2
  <2>5. store' = d /\ sent' \in {sent, sent \cup {t}} => Voter!SendTimeout
    BY <2>1 DEF d, Voter!SendTimeout, Voter!MayTimeout, MayTimeout, Voter!record_timeout,
                record_timeout, Voter!MaxOf, MaxOf, Voter!safe_to_timeout, safe_to_timeout,
                Voter!safe_to_sign_timeout, safe_to_sign_timeout
  <2> QED BY <2>4, <2>5 DEF Voter!Next
<1>6. CASE Restart
  <2>1. NoCache \in SafetyData
    BY NewDataType DEF NoCache
  <2> QED
    BY <1>6, <2>1, InputFacts
       DEF Restart, Storage, TypeOK, CacheCoherent, EpochWithinWaypoint, NoCache, Keys
<1>7. CASE UNCHANGED vars
  BY <1>7 DEF vars, Storage, TypeOK, CacheCoherent, EpochWithinWaypoint, NoCache
<1> QED BY <1>1, <1>2, <1>3, <1>4, <1>5, <1>6, <1>7 DEF Next
--------------------------------------------------------------------------------
\* Everything handed out, and the vote that storage holds but that a failed write
\* or a crash may have kept from the caller: it can still be returned.
Recorded == sent \cup ({store.last_vote} \ {NoVote})

RecordedVotes == {m \in Recorded : m \in Proposal}

\* The stored SafetyData covers all that is recorded, and the two voting rules
\* hold in it.
RecordedIsCovered == \A m \in Recorded :
    \/ m.epoch < store.epoch
    \/ m.epoch = store.epoch /\ m.round <= store.last_voted_round

QCsAreCovered == \A v \in RecordedVotes : v.epoch = store.epoch =>
    v.qc_round <= store.one_chain_round /\ v.qc_parent_round <= store.preferred_round

RecordedOnce == \A v, w \in RecordedVotes : v.epoch = w.epoch /\ v.round = w.round => v = w

SecondRule(v, m) ==
    v.epoch = m.epoch =>
        IF TwoChain[v.epoch]
        THEN m \in Timeout /\ v.round <= m.round => v.qc_round <= m.hqc_round
        ELSE m \in Proposal /\ v.round < m.round => v.qc_parent_round <= m.qc_round

RecordedSecondRule == \A v \in RecordedVotes, m \in Recorded : SecondRule(v, m)

History ==
    /\ store \in SafetyData
    /\ \A m \in Recorded : (m \in Proposal \/ m \in Timeout) /\ m.epoch \in Epoch
    /\ RecordedIsCovered
    /\ QCsAreCovered
    /\ RecordedOnce
    /\ RecordedSecondRule

\* Nothing is recorded at first.
LEMMA HistoryInit == store = NewSafetyData(1) /\ sent = {} => History
<1> SUFFICES ASSUME store = NewSafetyData(1), sent = {} PROVE History
  OBVIOUS
<1>1. store \in SafetyData
  BY NewDataType
<1>2. Recorded = {}
  BY DEF Recorded, NewSafetyData
<1> QED
  BY <1>1, <1>2 DEF History, RecordedIsCovered, QCsAreCovered, RecordedOnce,
                    RecordedSecondRule, RecordedVotes

\* A vote is no timeout: the two kinds of record have different fields.
LEMMA VoteIsNoTimeout == \A m : ~(m \in Proposal /\ m \in Timeout)
<1> SUFFICES ASSUME NEW m, m \in Proposal, m \in Timeout PROVE FALSE
  OBVIOUS
<1>1. DOMAIN m = {"epoch", "round", "qc_round", "qc_parent_round"}
  BY DEF Proposal
<1>2. DOMAIN m = {"epoch", "round", "hqc_round"}
  BY DEF Timeout
<1> QED BY <1>1, <1>2

\* Recording nothing new, with data that covers no less, keeps History.
LEMMA HistoryKept ==
    ASSUME History, store' \in SafetyData, Recorded' \subseteq Recorded,
           \/ store'.epoch > store.epoch
           \/ /\ store'.epoch = store.epoch
              /\ store'.last_voted_round >= store.last_voted_round
              /\ store'.one_chain_round >= store.one_chain_round
              /\ store'.preferred_round >= store.preferred_round
    PROVE  History'
<1>1. \A m \in Recorded' : (m \in Proposal \/ m \in Timeout) /\ m.epoch \in Epoch
  BY DEF History
<1>2. \A m \in Recorded : m.epoch \in Nat /\ m.round \in Nat
  BY DEF History, Proposal, Timeout
<1>3. \A v \in RecordedVotes : v.qc_round \in Nat /\ v.qc_parent_round \in Nat
  BY DEF RecordedVotes, Proposal
<1>4. RecordedVotes' \subseteq RecordedVotes
  BY DEF RecordedVotes
<1>5. RecordedIsCovered'
  BY <1>2 DEF RecordedIsCovered, History, SafetyData
<1>6. QCsAreCovered'
  <2> SUFFICES ASSUME NEW v \in RecordedVotes', v.epoch = store'.epoch
               PROVE  /\ v.qc_round <= store'.one_chain_round
                      /\ v.qc_parent_round <= store'.preferred_round
    BY DEF QCsAreCovered
  <2>1. v \in RecordedVotes /\ v \in Recorded
    BY <1>4 DEF RecordedVotes
  <2>2. v.epoch <= store.epoch
    BY <1>2, <2>1 DEF History, RecordedIsCovered, SafetyData
  <2>3. store'.epoch = store.epoch
    BY <1>2, <2>1, <2>2 DEF History, SafetyData
  <2> QED BY <1>3, <2>1, <2>3 DEF History, QCsAreCovered, SafetyData
<1>7. RecordedOnce'
  BY <1>4 DEF History, RecordedOnce
<1>8. RecordedSecondRule'
  BY <1>4 DEF History, RecordedSecondRule, SecondRule
<1> QED BY <1>1, <1>5, <1>6, <1>7, <1>8 DEF History

\* Facts about what is recorded that the two signing steps use.
LEMMA RecordedFacts ==
    ASSUME History
    PROVE  /\ \A m \in Recorded : /\ m.epoch \in Epoch /\ m.epoch \in Nat /\ m.round \in Nat
                                  /\ m.epoch = store.epoch => m.round <= store.last_voted_round
           /\ \A v \in RecordedVotes :
                 /\ v \in Recorded /\ v \in Proposal
                 /\ v.qc_round \in Nat /\ v.qc_parent_round \in Nat
                 /\ v.epoch = store.epoch => /\ v.qc_round <= store.one_chain_round
                                             /\ v.qc_parent_round <= store.preferred_round
<1>1. \A m \in Recorded : m.epoch \in Epoch /\ m.epoch \in Nat /\ m.round \in Nat
  BY DEF History, Proposal, Timeout
<1>2. \A m \in Recorded : m.epoch = store.epoch => m.round <= store.last_voted_round
  BY <1>1 DEF History, RecordedIsCovered, SafetyData
<1>3. \A v \in RecordedVotes : v \in Recorded /\ v \in Proposal
                               /\ v.qc_round \in Nat /\ v.qc_parent_round \in Nat
  BY DEF RecordedVotes, Proposal
<1> QED BY <1>1, <1>2, <1>3 DEF History, QCsAreCovered

\* A vote that the rules of its epoch allow keeps History.
LEMMA VoteHistory ==
    ASSUME History, NEW p \in Proposals, NEW tc \in TimeoutCerts, MayVote(store, p, tc),
           store' = AfterVote(store, p), sent' \in {sent, sent \cup {p}}
    PROVE  History'
<1>1. p \in Proposal /\ p.epoch \in Epoch /\ p.epoch = store.epoch /\ store \in SafetyData
  BY InputFacts DEF MayVote, History
<1>2. /\ store' \in SafetyData
      /\ store'.epoch = store.epoch /\ store'.last_voted_round = p.round
      /\ store'.last_vote = p
      /\ store'.one_chain_round >= store.one_chain_round
      /\ store'.one_chain_round >= p.qc_round
      /\ store'.preferred_round >= store.preferred_round
      /\ store'.preferred_round >= p.qc_parent_round
  BY <1>1, AfterVoteData
<1>3. p.round > store.last_voted_round
  BY DEF MayVote, verify_last_vote_round
<1>4. ~TwoChain[p.epoch] => p.qc_round >= store.preferred_round
  BY DEF MayVote, verify_preferred_round
<1>5. Recorded' \subseteq Recorded \cup {p}
  BY <1>2 DEF Recorded
<1>6. RecordedVotes' \subseteq RecordedVotes \cup {p}
  BY <1>5 DEF RecordedVotes
<1>7. /\ p.round \in Nat /\ p.qc_round \in Nat /\ p.qc_parent_round \in Nat
      /\ store.last_voted_round \in Nat /\ store.epoch \in Nat
      /\ store.one_chain_round \in Nat /\ store.preferred_round \in Nat
      /\ store'.one_chain_round \in Nat /\ store'.preferred_round \in Nat
  BY <1>1, <1>2 DEF Proposal, SafetyData
<1>8. \A m \in Recorded : m.epoch = p.epoch => m.round < p.round
  BY <1>1, <1>3, <1>7, RecordedFacts
<1>9. \A m \in Recorded' : (m \in Proposal \/ m \in Timeout) /\ m.epoch \in Epoch
  BY <1>1, <1>5 DEF History
<1>10. RecordedIsCovered'
  BY <1>1, <1>2, <1>3, <1>5, <1>7, RecordedFacts DEF RecordedIsCovered, History
<1>11. QCsAreCovered'
  BY <1>2, <1>6, <1>7, RecordedFacts DEF QCsAreCovered
<1>12. RecordedOnce'
  BY <1>6, <1>7, <1>8, RecordedFacts DEF History, RecordedOnce
<1>13. RecordedSecondRule'
  <2> SUFFICES ASSUME NEW v \in RecordedVotes \cup {p}, NEW m \in Recorded \cup {p}
               PROVE  SecondRule(v, m)
    BY <1>5, <1>6 DEF RecordedSecondRule, SecondRule
  <2>1. CASE v \in RecordedVotes /\ m \in Recorded
    BY <2>1 DEF History, RecordedSecondRule
  <2>2. CASE v = p /\ m \in Recorded
    BY <1>7, <1>8, <2>2, RecordedFacts DEF SecondRule
  <2>3. CASE m = p
    <3>1. m \notin Timeout
      BY <1>1, <2>3, VoteIsNoTimeout
    <3>2. v = p => SecondRule(v, m)
      BY <1>7, <2>3, <3>1 DEF SecondRule
    <3>3. v \in RecordedVotes => SecondRule(v, m)
      BY <1>1, <1>4, <1>7, <2>3, <3>1, RecordedFacts DEF SecondRule
    <3> QED BY <3>2, <3>3
  <2> QED BY <2>1, <2>2, <2>3
<1> QED BY <1>2, <1>9, <1>10, <1>11, <1>12, <1>13 DEF History

\* A timeout that the rules of its epoch allow keeps History.
LEMMA TimeoutHistory ==
    ASSUME History, NEW t \in Timeouts, NEW tc \in TimeoutCerts, MayTimeout(store, t, tc),
           store' = record_timeout(store, t.round), sent' \in {sent, sent \cup {t}}
    PROVE  History'
<1>1. /\ t \in Timeout /\ t.epoch \in Epoch /\ t.epoch = store.epoch /\ store \in SafetyData
      /\ t \notin Proposal /\ t.round \in Nat
  BY InputFacts, VoteIsNoTimeout DEF MayTimeout, History, Timeout
<1>2. /\ store' \in SafetyData
      /\ store'.epoch = store.epoch /\ store'.last_vote = store.last_vote
      /\ store'.one_chain_round = store.one_chain_round
      /\ store'.preferred_round = store.preferred_round
      /\ store'.last_voted_round >= store.last_voted_round
      /\ store'.last_voted_round >= t.round
  BY <1>1, TimeoutData
<1>3. TwoChain[t.epoch] => t.hqc_round >= store.one_chain_round
  BY DEF MayTimeout, safe_to_timeout
<1>4. Recorded' \subseteq Recorded \cup {t}
  BY <1>2 DEF Recorded
<1>5. RecordedVotes' \subseteq RecordedVotes
  BY <1>1, <1>4 DEF RecordedVotes
<1>6. /\ t.hqc_round \in Nat /\ store.last_voted_round \in Nat /\ store.epoch \in Nat
      /\ store'.last_voted_round \in Nat /\ store.one_chain_round \in Nat
  BY <1>1, <1>2 DEF Timeout, SafetyData
<1>7. \A m \in Recorded' : (m \in Proposal \/ m \in Timeout) /\ m.epoch \in Epoch
  BY <1>1, <1>4 DEF History
<1>8. RecordedIsCovered'
  BY <1>1, <1>2, <1>4, <1>6, RecordedFacts DEF RecordedIsCovered, History
<1>9. QCsAreCovered'
  BY <1>2, <1>5 DEF QCsAreCovered, History
<1>10. RecordedOnce'
  BY <1>5 DEF History, RecordedOnce
<1>11. RecordedSecondRule'
  <2> SUFFICES ASSUME NEW v \in RecordedVotes, NEW m \in Recorded \cup {t}
               PROVE  SecondRule(v, m)
    BY <1>4, <1>5 DEF RecordedSecondRule, SecondRule
  <2>1. CASE m \in Recorded
    BY <2>1 DEF History, RecordedSecondRule
  <2>2. CASE m = t
    BY <1>1, <1>3, <1>6, <2>2, RecordedFacts DEF SecondRule
  <2> QED BY <2>1, <2>2
<1> QED BY <1>2, <1>7, <1>8, <1>9, <1>10, <1>11 DEF History

\* Every step of AtomicVoter keeps History.
LEMMA HistoryStep ==
    ASSUME History, [Voter!Next]_<<store, sent>>
    PROVE  History'
<1>0. store \in SafetyData
  BY DEF History
<1>1. CASE Voter!NewEpoch
  <2> PICK e \in Voter!Epoch : /\ e > store.epoch
                               /\ store' = Voter!NewSafetyData(e)
                               /\ sent' = sent
    BY <1>1 DEF Voter!NewEpoch
  <2>1. e \in Nat /\ store' = NewSafetyData(e)
    BY InputFacts DEF Voter!Epoch, Epoch, Voter!NewSafetyData, NewSafetyData, Voter!NoVote, NoVote
  <2>2. store' \in SafetyData /\ store'.epoch > store.epoch
    BY <2>1, NewDataType
  <2>3. Recorded' \subseteq Recorded
    BY <2>1 DEF Recorded, NewSafetyData
  <2> QED BY <2>2, <2>3, HistoryKept
<1>2. CASE Voter!Vote
  <2> PICK p \in Proposals, tc \in TimeoutCerts :
           /\ Voter!MayVote(store, p, tc)
           /\ store' = Voter!AfterVote(store, p)
           /\ sent' \in {sent, sent \cup {p}}
    BY <1>2 DEF Voter!Vote
  <2>1. MayVote(store, p, tc) /\ store' = AfterVote(store, p)
    BY DEF Voter!MayVote, MayVote, Voter!AfterVote, AfterVote,
           Voter!observe_qc, observe_qc, Voter!MaxOf, MaxOf, Voter!safe_to_vote,
           safe_to_vote, Voter!verify_preferred_round, verify_preferred_round,
           Voter!verify_last_vote_round, verify_last_vote_round
  <2> QED BY <2>1, VoteHistory
<1>3. CASE Voter!VoteAgain
  <2>1. Recorded' = Recorded /\ store' = store
    BY <1>3 DEF Voter!VoteAgain, Recorded, Voter!NoVote, NoVote
  <2> QED BY <1>0, <2>1, HistoryKept DEF SafetyData
<1>4. CASE Voter!SendTimeout
  <2> PICK t \in Timeouts, tc \in TimeoutCerts :
           /\ Voter!MayTimeout(store, t, tc)
           /\ store' = Voter!record_timeout(store, t.round)
           /\ sent' \in {sent, sent \cup {t}}
    BY <1>4 DEF Voter!SendTimeout
  <2>1. MayTimeout(store, t, tc) /\ store' = record_timeout(store, t.round)
    BY DEF Voter!MayTimeout, MayTimeout, Voter!record_timeout,
           record_timeout, Voter!MaxOf, MaxOf, Voter!safe_to_timeout, safe_to_timeout,
           Voter!safe_to_sign_timeout, safe_to_sign_timeout
  <2> QED BY <2>1, TimeoutHistory
<1>5. CASE UNCHANGED <<store, sent>>
  <2>1. Recorded' = Recorded /\ store' = store
    BY <1>5 DEF Recorded
  <2> QED BY <1>0, <2>1, HistoryKept DEF SafetyData
<1> QED BY <1>1, <1>2, <1>3, <1>4, <1>5 DEF Voter!Next
--------------------------------------------------------------------------------
\* Both invariants hold throughout, and every step is a step of AtomicVoter.
LEMMA Invariance == Spec => [](Storage /\ History) /\ [][Voter!Next]_<<store, sent>>
<1>1. Init => Storage /\ History
  BY StorageInit, HistoryInit DEF Init
<1>2. Storage /\ History /\ [Next]_vars
        => (Storage /\ History)' /\ [Voter!Next]_<<store, sent>>
  BY Step, HistoryStep
<1> QED BY <1>1, <1>2, PTL DEF Spec

\* The variables keep their Rust types.
THEOREM TypeCorrect == Spec => []TypeOK
<1>1. Storage /\ History => TypeOK
  BY DEF Storage
<1> QED BY <1>1, Invariance, PTL

\* A cached SafetyData is the stored one, whichever writes fail.
THEOREM CacheIsCoherent == Spec => []CacheCoherent
<1>1. Storage /\ History => CacheCoherent
  BY DEF Storage
<1> QED BY <1>1, Invariance, PTL

\* The SafetyData is never of an epoch that the waypoint does not reach.
THEOREM EpochStaysWithinWaypoint == Spec => []EpochWithinWaypoint
<1>1. Storage /\ History => EpochWithinWaypoint
  BY DEF Storage
<1> QED BY <1>1, Invariance, PTL

\* Storage covers every vote and timeout ever handed out.
THEOREM SentStaysPersisted == Spec => []SentIsPersisted
<1>1. Storage /\ History => SentIsPersisted
  BY DEF History, RecordedIsCovered, Recorded, SentIsPersisted
<1> QED BY <1>1, Invariance, PTL

\* No two votes in a round, through crashes, restarts and failed writes.
THEOREM OneVotePerRound == Spec => []VotesOncePerRound
<1>1. Storage /\ History => VotesOncePerRound
  BY DEF History, RecordedOnce, RecordedVotes, Recorded, VotesOncePerRound, Votes
<1> QED BY <1>1, Invariance, PTL

\* The second voting rule holds between any two messages handed out.
THEOREM SecondRuleIsKept == Spec => []SecondRuleHolds
<1>1. Storage /\ History => SecondRuleHolds
  BY DEF History, RecordedSecondRule, SecondRule, RecordedVotes, Recorded, SecondRuleHolds, Votes
<1> QED BY <1>1, Invariance, PTL

\* A SafetyRules with cache, failing storage and restarts implements AtomicVoter.
THEOREM Refinement == Spec => ImplementsVoter
<1>1. Init => Voter!Init
  BY DEF Init, Voter!Init, Voter!NewSafetyData, NewSafetyData, Voter!NoVote, NoVote
<1> QED BY <1>1, Invariance, PTL DEF Spec, ImplementsVoter, Voter!Spec

\* A proposal is never signed for a round that a message handed out has passed.
THEOREM ProposalsAboveSent == Spec => ProposesAboveSent
<1>1. Storage /\ History /\ [Next]_vars =>
        [proposed' # proposed =>
            \A m \in sent : m.epoch = proposed'.epoch => m.round < proposed'.round]_vars
  <2> SUFFICES ASSUME Storage, History, Next, proposed' # proposed
               PROVE  \A m \in sent : m.epoch = proposed'.epoch => m.round < proposed'.round
    BY Zenon
  <2>1. PICK p \in Proposals : SignProposal(p)
    BY Zenon DEF Next, InitializeStopsAtWaypoint, InitializeStopsAtEpoch, Initialize,
           ReturnLastVote, ConstructAndSignVote, SignTimeout, PersistThenSend, Send, Restart
  <2>2. /\ p.epoch = store.epoch /\ p.round > store.last_voted_round
        /\ proposed' = [epoch |-> p.epoch, round |-> p.round]
    BY <2>1, ReadsTheStore DEF SignProposal
  <2>3. p.round \in Nat /\ store.last_voted_round \in Nat
    BY InputFacts DEF Proposal, History, SafetyData
  <2> QED BY <2>2, <2>3, RecordedFacts DEF Recorded
<1> QED BY <1>1, Invariance, PTL DEF Spec, ProposesAboveSent
================================================================================
