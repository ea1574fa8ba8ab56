------------------------------ MODULE SafetyRules ------------------------------
(***************************************************************************)
(* One validator's SafetyRules with its persistent storage: the SafetyData *)
(* and the waypoint in secure storage, the cached copy of the SafetyData,  *)
(* the consensus key in use, and the epoch it was initialized for.         *)
(*                                                                         *)
(* A write to secure storage may succeed, or return an error with or       *)
(* without having taken effect.  A read that fails makes the handler       *)
(* return before it has changed anything, except in guarded_initialize,    *)
(* where every partial outcome is modelled.  The process may crash between *)
(* two calls; a crash inside a call is a failed write followed by one.     *)
(*                                                                         *)
(* The epoch change whose ledger info ends epoch k is version k; version 0 *)
(* is genesis.  Signatures and quorum certificates that fail to verify     *)
(* change nothing, so every input here is one that verifies.               *)
(***************************************************************************)
EXTENDS VoterData

CONSTANTS
    CacheEnabled,    \* enable_cached_safety_data
    NoKey,           \* no signer, or not in the validator set
    ExpectedKey,     \* [1..MaxEpoch -> key]: this validator's key in the set of the epoch
    HeldKeys         \* the keys in its secure storage

VARIABLES
    store,           \* SafetyData in secure storage
    waypoint,        \* waypoint in secure storage, as a version
    cache,           \* cached_safety_data
    signer,          \* the key of validator_signer
    epoch_state,     \* the epoch of epoch_state; 0 is None
    sent,            \* votes and timeouts returned to the caller, ever
    proposed         \* the last block whose proposal was signed, by epoch and round

vars == <<store, waypoint, cache, signer, epoch_state, sent, proposed>>

Keys == HeldKeys \cup {ExpectedKey[e] : e \in Epoch} \cup {NoKey}

\* cached_safety_data = None.
NoCache == NewSafetyData(0)

Init ==
    /\ store = NewSafetyData(1)
    /\ waypoint = 0
    /\ cache = NoCache
    /\ signer = NoKey
    /\ epoch_state = 0
    /\ sent = {}
    /\ proposed = [epoch |-> 0, round |-> 0]
--------------------------------------------------------------------------------
\* Persistent storage.

safety_data == IF CacheEnabled /\ cache # NoCache THEN cache ELSE store

\* What reading it does to the cache.
ReadSafetyData == cache' = IF CacheEnabled THEN safety_data ELSE cache

\* Mutants: the cache is not refreshed by a write, or not dropped when one fails.
set_safety_data_Mutant(d) == store' = d /\ UNCHANGED cache

set_safety_data_fails_Mutant(d) == store' \in {store, d} /\ UNCHANGED cache

\* set_safety_data returning Ok, and returning an error.
set_safety_data(d) == store' = d /\ cache' = d

set_safety_data_fails(d) == store' \in {store, d} /\ cache' = NoCache
--------------------------------------------------------------------------------
\* guarded_initialize on a proof that leads from the waypoint to version w,
\* by where it stops.

\* At the waypoint: writing it fails, or what follows fails before any write
\* (the SafetyData cannot be read, or is of a later epoch).
InitializeStopsAtWaypoint(w) ==
    /\ w > waypoint
    /\ waypoint' \in {waypoint, w}
    /\ UNCHANGED <<store, cache, signer, epoch_state, sent, proposed>>

\* Mutant: the SafetyData of the new epoch is written before the waypoint.
InitializeStopsAtEpoch_Mutant(w) ==
    /\ w >= waypoint
    /\ safety_data.epoch < w + 1
    /\ set_safety_data_fails(NewSafetyData(w + 1))
    /\ UNCHANGED <<waypoint, signer, epoch_state, sent, proposed>>

\* At the SafetyData of the new epoch, whose write fails.
InitializeStopsAtEpoch(w) ==
    /\ w >= waypoint
    /\ waypoint' = w
    /\ safety_data.epoch < w + 1
    /\ set_safety_data_fails(NewSafetyData(w + 1))
    /\ UNCHANGED <<signer, epoch_state, sent, proposed>>

\* The signer once the epoch is e: unchanged if the author cannot be read; the
\* expected key if it is in use or found; none if there is none or it is not found.
ReconcileKey(e) ==
    \/ signer' = signer
    \/ /\ ExpectedKey[e] \in HeldKeys
       /\ signer' = ExpectedKey[e]
    \/ /\ signer # ExpectedKey[e]
       /\ signer' = NoKey

\* Mutant: initialize in the current epoch starts the epoch over.
Initialize_Mutant(w) ==
    /\ w >= waypoint
    /\ waypoint' = w
    /\ safety_data.epoch <= w + 1
    /\ set_safety_data(NewSafetyData(w + 1))
    /\ epoch_state' = w + 1
    /\ ReconcileKey(w + 1)
    /\ UNCHANGED <<sent, proposed>>

\* It gets to the keys.
Initialize(w) ==
    /\ w >= waypoint
    /\ waypoint' = w
    /\ safety_data.epoch <= w + 1
    /\ IF safety_data.epoch < w + 1 THEN set_safety_data(NewSafetyData(w + 1))
                                    ELSE ReadSafetyData /\ UNCHANGED store
    /\ epoch_state' = w + 1
    /\ ReconcileKey(w + 1)
    /\ UNCHANGED <<sent, proposed>>
--------------------------------------------------------------------------------
\* Mutant: the outcome of the write is not looked at.
PersistThenSend_Mutant(d, m) ==
    /\ set_safety_data(d) \/ set_safety_data_fails(d)
    /\ sent' = sent \cup {m}
    /\ UNCHANGED <<waypoint, signer, epoch_state, proposed>>

\* Persist d, then hand m out; a failed write hands nothing out.
PersistThenSend(d, m) ==
    /\ \/ set_safety_data(d) /\ sent' = sent \cup {m}
       \/ set_safety_data_fails(d) /\ sent' = sent
    /\ UNCHANGED <<waypoint, signer, epoch_state, proposed>>

\* Hand m out without a write.
Send(m) ==
    /\ ReadSafetyData
    /\ sent' = sent \cup {m}
    /\ UNCHANGED <<store, waypoint, signer, epoch_state, proposed>>

\* signer()? and epoch_state()?
Ready == signer # NoKey /\ epoch_state # 0

\* guarded_construct_and_sign_vote and its two-chain twin: a second call for the
\* round of the last vote gets that vote.
ReturnLastVote(p) ==
    /\ Ready
    /\ p.epoch = safety_data.epoch
    /\ safety_data.last_vote.round = p.round
    /\ Send(safety_data.last_vote)

ConstructAndSignVote(p, tc) ==
    /\ Ready
    /\ MayVote(safety_data, p, tc)
    /\ PersistThenSend(AfterVote(safety_data, p), p)

\* guarded_sign_timeout and guarded_sign_timeout_with_qc.
SignTimeout(t, tc) ==
    /\ Ready
    /\ MayTimeout(safety_data, t, tc)
    /\ IF t.round > safety_data.last_voted_round
       THEN PersistThenSend(record_timeout(safety_data, t.round), t)
       ELSE Send(t)

\* Mutant: the round of the proposal is not compared with the last vote.
SignProposal_Mutant(p) ==
    /\ Ready
    /\ p.epoch = safety_data.epoch
    /\ verify_preferred_round(safety_data, p.qc_round)
    /\ proposed' = [epoch |-> p.epoch, round |-> p.round]
    /\ ReadSafetyData
    /\ UNCHANGED <<store, waypoint, signer, epoch_state, sent>>

\* guarded_sign_proposal persists nothing.
SignProposal(p) ==
    /\ Ready
    /\ p.epoch = safety_data.epoch
    /\ p.round > safety_data.last_voted_round
    /\ verify_preferred_round(safety_data, p.qc_round)
    /\ proposed' = [epoch |-> p.epoch, round |-> p.round]
    /\ ReadSafetyData
    /\ UNCHANGED <<store, waypoint, signer, epoch_state, sent>>

\* A restart: SafetyRules::new on the same storage.
Restart ==
    /\ cache' = NoCache /\ signer' = NoKey /\ epoch_state' = 0
    /\ UNCHANGED <<store, waypoint, sent, proposed>>

Next ==
    \/ \E w \in 0..(MaxEpoch - 1) :
          InitializeStopsAtWaypoint(w) \/ InitializeStopsAtEpoch(w) \/ Initialize(w)
    \/ \E p \in Proposals :
          ReturnLastVote(p) \/ SignProposal(p)
    \/ \E p \in Proposals, tc \in TimeoutCerts : ConstructAndSignVote(p, tc)
    \/ \E t \in Timeouts, tc \in TimeoutCerts : SignTimeout(t, tc)
    \/ Restart

Spec == Init /\ [][Next]_vars
--------------------------------------------------------------------------------
Votes == {m \in sent : m \in Proposal}

\* Every variable holds a value of its Rust type.
TypeOK ==
    /\ store \in SafetyData
    /\ cache \in SafetyData
    /\ store.epoch \in Epoch
    /\ cache.epoch \in Epoch \/ cache = NoCache
    /\ waypoint \in 0..(MaxEpoch - 1)
    /\ signer \in Keys
    /\ epoch_state \in 0..MaxEpoch
    /\ \A m \in sent : m \in Proposal \/ m \in Timeout
    /\ proposed \in [epoch : Nat, round : Nat]

\* PersistentSafetyStorage: a cached SafetyData is the stored one, although a
\* write that returns an error may have taken effect.
CacheCoherent == cache # NoCache => cache = store

\* Initialize writes the waypoint before the SafetyData of the epoch it opens, so
\* that, whatever fails in between, the SafetyData is never of an epoch that the
\* waypoint does not reach and initialize never ends in WaypointOutOfDate.
EpochWithinWaypoint == store.epoch <= waypoint + 1

\* No message leaves before it is recorded: what a restarted validator finds in
\* storage covers every vote and timeout it ever handed out.
SentIsPersisted == \A m \in sent :
    \/ m.epoch < store.epoch
    \/ m.epoch = store.epoch /\ m.round <= store.last_voted_round

\* One vote in a round of an epoch, through crashes, failed writes and repeated
\* initialization (README of the TCB: "can never vote on the same round twice").
VotesOncePerRound == \A v, w \in Votes :
    v.epoch = w.epoch /\ v.round = w.round => v = w

\* The second voting rule holds between any two messages handed out in an epoch,
\* although a failed write may have recorded a vote nobody saw.  2-chain: the QC
\* in a timeout is not below the QC of an earlier vote; 3-chain: the QC of a vote
\* is not below the preferred round that an earlier vote showed.
SecondRuleHolds == \A v \in Votes, m \in sent :
    v.epoch = m.epoch =>
        IF TwoChain[v.epoch]
        THEN m \in Timeout /\ v.round <= m.round => v.qc_round <= m.hqc_round
        ELSE m \in Proposal /\ v.round < m.round => v.qc_parent_round <= m.qc_round

\* sign_proposal persists nothing and yet never signs a proposal for a round that
\* a vote or a timeout handed out before has passed.
ProposesAboveSent == [][proposed' # proposed =>
    \A m \in sent : m.epoch = proposed'.epoch => m.round < proposed'.round]_vars

\* What the messages handed out look like to the protocol.
Voter == INSTANCE AtomicVoter WITH data <- store

\* SafetyRules with its cache, its failing storage and its restarts is one atomic
\* SafetyData as far as the protocol can tell.
ImplementsVoter == Voter!Spec

\* The specification of the TCB: LSR "must not participate in any other operation
\* unless LSR has access to" the consensus key of the current epoch.
SignsWithExpectedKey == [][\A m \in sent' \ sent : signer = ExpectedKey[m.epoch]]_vars
================================================================================
