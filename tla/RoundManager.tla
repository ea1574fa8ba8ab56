----------------------------- MODULE RoundManager ------------------------------
(***************************************************************************)
(* The validators of one epoch as their RoundManagers drive them: rounds   *)
(* and their timers, proposals, votes, timeouts and the SyncInfo that      *)
(* every message carries.                                                  *)
(*                                                                         *)
(* A RoundManager takes one event at a time and finishes its handler,      *)
(* awaits included, before the next; handlers of different validators      *)
(* interleave.  A message sent may reach its receivers late, in any order, *)
(* any number of times or never.  A handler yields one of its Outcomes:    *)
(* the new state of the validator and what it sends.                       *)
(*                                                                         *)
(* Of the block store only what the handlers look at is kept: the blocks,  *)
(* the highest certificates, and that inserting a QC whose block is        *)
(* missing fetches the block and its ancestors, which may fail half-way.   *)
(* Validators follow the protocol; one that does not, or is down, is one   *)
(* that sends nothing.                                                     *)
(***************************************************************************)
EXTENDS RoundState, VotingRules

CONSTANTS
    Validator,    \* the validators of the epoch
    Nil,          \* the payload of a NIL block; a proposal's is its author
    Proposer,     \* [rounds -> Validator]: proposer_election
    Configs,      \* the settings below to choose from
    MaxRestarts   \* bound on restarts

VARIABLES
    config,       \* the setting of the epoch; it never changes
    node,         \* [Validator -> state of the validator]
    msgs,         \* every message ever sent
    restarts

vars == <<config, node, msgs, restarts>>

\* two_chain: onchain_config.two_chain(); up: the validators that take part;
\* sync_only: those whose sync_only() holds; crashable: those that may restart;
\* max_round: bound, no vote is cast in this round.
Config == [two_chain : BOOLEAN, up : SUBSET Validator, sync_only : SUBSET Validator,
           crashable : SUBSET Validator, max_round : Nat \ {0}]

ASSUME ConfigAssumption ==
    Configs \subseteq Config /\ Validator \cup {Nil} \subseteq Payload

\* SyncInfo::new: a timeout certificate not above the QC is left out.
sync_info(s) == [qc |-> s.qc, tc |-> IF s.tc.round > round(s.qc) THEN s.tc ELSE NoTC]

highest_round(si) == MaxOf(round(si.qc), si.tc.round)

has_newer_certificates(si, other) ==
    round(si.qc) > round(other.qc) \/ si.tc.round > other.tc.round

Outcome(s, M) == [node |-> s, sends |-> M]
--------------------------------------------------------------------------------
\* Rounds and certificates.

\* process_new_round_event: the proposer of the round proposes on its highest QC,
\* if its SafetyRules have not gone past the round.
Propose(n, s) ==
    LET r == s.rs.current_round
        b == Append(s.qc, [round |-> r, payload |-> n])
    IN  {[type |-> "Proposal", author |-> n, block |-> b, sync |-> sync_info(s)] :
            x \in {y \in {n} : r < config.max_round /\ Proposer[r] = y /\ verify_last_vote_round(s.safety, r)
                                 /\ verify_preferred_round(s.safety, round(s.qc))}}

\* process_certificates: the round follows the highest certificate.
StartRound(n, s) ==
    LET t == [s EXCEPT !.rs = process_certificates(s.rs, highest_round(sync_info(s)))]
    IN  Outcome(t, IF t.rs.current_round > s.rs.current_round THEN Propose(n, t) ELSE {})

\* BlockStore::insert_quorum_cert; the ancestors of a fetched block come with it.
insert_quorum_cert(s, b) ==
    [s EXCEPT !.blocks = @ \cup {SubSeq(b, 1, i) : i \in 0..Len(b)},
              !.qc = IF round(b) > round(@) THEN b ELSE @]

\* insert_2chain_timeout_certificate replaces a lower certificate, and
\* insert_timeout_certificate any, since it compares with the other kind.
insert_timeout_certificate(s, tc) ==
    IF tc.round > (IF config.two_chain THEN s.tc.round ELSE 0) THEN [s EXCEPT !.tc = tc] ELSE s

\* fetch_quorum_cert: the missing blocks up to b are retrieved, then inserted from the
\* oldest on, each after its QC.  It gets as far as the block at height "fetched" of
\* the chain and no further: to b, if that is not lower.
Fetched(s, b, fetched) ==
    IF b \in s.blocks \/ fetched >= Len(b) THEN b ELSE SubSeq(b, 1, fetched)

\* add_certs takes what is newer, and stops at a QC whose block cannot be fetched.
SyncFails(s, si, fetched) ==
    has_newer_certificates(si, sync_info(s)) /\ Fetched(s, si.qc, fetched) # si.qc

\* What add_certs has taken when it returns, with an error or without.
AddCerts(s, si, fetched) ==
    LET t == insert_quorum_cert(s, Fetched(s, si.qc, fetched))
    IN  IF SyncFails(s, si, fetched) THEN t ELSE insert_timeout_certificate(t, si.tc)

\* sync_up: help the peer, then take its certificates; the round follows those taken,
\* also when an error ends the sync.
SyncUp(n, s, si, peer, help, fetched) ==
    LET reply == IF help /\ has_newer_certificates(sync_info(s), si)
                 THEN {[type |-> "SyncInfo", author |-> n, to |-> {peer}, sync |-> sync_info(s)]}
                 ELSE {}
        o == StartRound(n, AddCerts(s, si, fetched))
    IN  IF has_newer_certificates(si, sync_info(s))
        THEN Outcome(o.node, o.sends \cup reply)
        ELSE Outcome(s, reply)
--------------------------------------------------------------------------------
\* Votes.

\* execute_and_insert_block, which needs the parent.
Inserted(s, b) == IF parent(b) \in s.blocks THEN [s EXCEPT !.blocks = @ \cup {b}] ELSE s

MayVote(s, b) ==
    \/ round(s.safety.last_vote) = round(b)
    \/ /\ verify_last_vote_round(s.safety, round(b))
       /\ IF config.two_chain THEN safe_to_vote(round(b), qc_round(b), s.tc)
                      ELSE verify_preferred_round(s.safety, qc_round(b))

\* execute_and_vote up to the signature.
VoteIsRefused(n, s, b) ==
    \/ parent(b) \notin s.blocks
    \/ s.rs.vote_sent # {}
    \/ n \in config.sync_only
    \/ ~MayVote(s, b)

\* What SafetyRules record: nothing if they voted in the round before.
Signs(s, b) ==
    IF round(s.safety.last_vote) = round(b) THEN Inserted(s, b)
    ELSE [Inserted(s, b) EXCEPT !.safety =
            [observe_qc([s.safety EXCEPT !.last_voted_round = round(b)],
                        qc_round(b), qc_parent_round(b)) EXCEPT !.last_vote = b]]

\* save_vote: the vote for the last block signed, in the ConsensusDB.
Saved(n, s) == [s EXCEPT !.saved_vote =
                  {[author |-> n, block |-> s.safety.last_vote, timeout |-> {}]}]

execute_and_vote(n, s, b) == Saved(n, Signs(s, b))

VoteMsg(v, s) == [type |-> "Vote", vote |-> v, sync |-> sync_info(s)]

\* process_proposal, after which the vote goes to the next proposer.
process_proposal(n, s, b) ==
    IF VoteIsRefused(n, s, b) THEN Outcome(Inserted(s, b), {})
    ELSE LET t == execute_and_vote(n, s, b)
             v == CHOOSE w \in t.saved_vote : TRUE
         IN  Outcome([t EXCEPT !.rs = record_vote(@, v)], {VoteMsg(v, t)})

MayTimeout(s, r) ==
    /\ r >= s.safety.last_voted_round
    /\ IF config.two_chain THEN safe_to_timeout(s.safety, r, round(s.qc), s.tc)
                   ELSE safe_to_sign_timeout(s.safety, r)

\* Mutant: a vote is not sent again once it carries the timeout.
SignTimeout_Mutant(s, v) ==
    LET w == [v EXCEPT !.timeout = {IF config.two_chain THEN round(s.qc) ELSE 0}]
        t == [s EXCEPT !.safety = record_timeout(@, round(v.block)), !.rs = record_vote(@, w)]
    IN  IF is_timeout(v) \/ ~MayTimeout(s, round(v.block))
        THEN Outcome(s, {})
        ELSE Outcome(t, {VoteMsg(w, t)})

\* process_local_timeout once there is a vote of the round to add the timeout to.
SignTimeout(s, v) ==
    LET hqc == IF config.two_chain THEN round(s.qc) ELSE 0
        w == IF is_timeout(v) THEN v ELSE [v EXCEPT !.timeout = {hqc}]
        t == [s EXCEPT !.safety = IF is_timeout(v) THEN @ ELSE record_timeout(@, round(v.block)),
                       !.rs = record_vote(@, w)]
    IN  IF is_timeout(v) \/ MayTimeout(s, round(v.block))
        THEN Outcome(t, {VoteMsg(w, t)})
        ELSE Outcome(s, {})

NilBlock(s) == Append(s.qc, [round |-> s.rs.current_round, payload |-> Nil])

\* process_local_timeout of the current round (a timer of an earlier one is ignored):
\* the vote of the round is sent to everyone, with a timeout; it is a vote for a
\* NIL block if there is none.
process_local_timeout(n, s) ==
    IF n \in config.sync_only \/ s.rs.current_round = config.max_round
    THEN Outcome(s, {[type |-> "SyncInfo", author |-> n, to |-> config.up,
                      sync |-> sync_info(s)]})
    ELSE IF s.rs.vote_sent # {}
         THEN SignTimeout(s, CHOOSE v \in s.rs.vote_sent : TRUE)
         ELSE IF VoteIsRefused(n, s, NilBlock(s))
              THEN Outcome(Inserted(s, NilBlock(s)), {})
              ELSE LET t == execute_and_vote(n, s, NilBlock(s))
                   IN  SignTimeout(t, CHOOSE v \in t.saved_vote : TRUE)

\* process_vote: a plain vote is for the next proposer only, and a certificate it
\* completes starts the next round, unless the fetch of its block fails.  (With a QC for
\* the block of the vote the round would be over already.)
process_vote(n, s, v, fetched) ==
    LET p == s.rs.pending_votes
        r == s.rs.current_round
        t == [s EXCEPT !.rs.pending_votes = AfterInsert(p, v)]
    IN  IF \/ ~is_timeout(v) /\ Proposer[r + 1] # n
           \/ EquivocateVote(p, v) \/ DuplicateVote(p, v)
        THEN Outcome(s, {})
        ELSE IF NewQuorumCertificate(p, v)
        THEN StartRound(n, insert_quorum_cert(t, Fetched(s, v.block, fetched)))
        ELSE IF NewTimeoutCertificate(p, v)
        THEN StartRound(n, insert_timeout_certificate(t, TimeoutCertificate(Signed(p, v), r)))
        ELSE Outcome(t, {})
--------------------------------------------------------------------------------
\* Events.

\* Mutant: messages of earlier rounds are processed.
IsStale_Mutant(s, r) == FALSE

IsStale(s, r) == r < s.rs.current_round

\* Mutant: the result of the sync is dropped.
InRound_Mutant(s, t, r, si, fetched) == r = t.rs.current_round

\* After a sync that turned s into t the message is one of the current round.
InRound(s, t, r, si, fetched) == ~SyncFails(s, si, fetched) /\ r = t.rs.current_round

\* ensure_round_and_sync_up, whose sync has outcome o, and the handler of a message of
\* the current round, with outcome p.
EnsureRound(n, r, si, fetched, o, p) ==
    IF IsStale(node[n], r) THEN {}
    ELSE IF InRound(node[n], o.node, r, si, fetched)
    THEN {Outcome(p.node, o.sends \cup p.sends)}
    ELSE {o}

\* process_proposal_msg; a proposal from beyond the deadline of the round is not
\* voted on.
process_proposal_msg(n, m, fetched) ==
    LET o == SyncUp(n, node[n], m.sync, m.author, TRUE, fetched)
        EnsureRoundThen(p) == EnsureRound(n, round(m.block), m.sync, fetched, o, p)
    IN  EnsureRoundThen(process_proposal(n, o.node, m.block))
          \cup EnsureRoundThen(Outcome(o.node, {}))

\* process_vote_msg; a plain vote is sent to the next proposer only.  The QC that the
\* vote completes may need a fetch of its own.
process_vote_msg(n, m, fetched, refetched) ==
    LET r == round(m.vote.block)
        o == SyncUp(n, node[n], m.sync, m.vote.author, TRUE, fetched)
    IN  IF is_timeout(m.vote) \/ n = Proposer[r + 1]
        THEN EnsureRound(n, r, m.sync, fetched, o, process_vote(n, o.node, m.vote, refetched))
        ELSE {}

\* process_sync_info_msg.
process_sync_info_msg(n, m, fetched) ==
    LET o == SyncUp(n, node[n], m.sync, m.author, FALSE, fetched)
    IN  IF n \in m.to
        THEN EnsureRound(n, highest_round(m.sync) + 1, m.sync, fetched, o, Outcome(o.node, {}))
        ELSE {}

\* The arms of start() for the messages of peers.
Handle(n, m, fetched, refetched) ==
    CASE m.type = "Proposal" -> process_proposal_msg(n, m, fetched)
      [] m.type = "Vote" -> process_vote_msg(n, m, fetched, refetched)
      [] m.type = "SyncInfo" -> process_sync_info_msg(n, m, fetched)

\* The block whose QC a vote may complete.
Voted(m) == IF m.type = "Vote" THEN m.vote.block ELSE Genesis

\* How far n may get when it fetches b.
Fetches(n, b) == IF b \in node[n].blocks THEN {Len(b)} ELSE 0..Len(b)

\* The handler of an event of n ends with outcome o.
Ends(n, o) ==
    /\ node' = [node EXCEPT ![n] = o.node]
    /\ msgs' = msgs \cup o.sends
    /\ UNCHANGED config

Receive(n, m, fetched, refetched) ==
    /\ \E o \in Handle(n, m, fetched, refetched) : Ends(n, o)
    /\ UNCHANGED restarts

LocalTimeout(n) == Ends(n, process_local_timeout(n, node[n])) /\ UNCHANGED restarts

\* A crash, and the restart from what is persistent: RoundState::new and init with
\* the saved vote.
Restarted(n, s) ==
    LET rs == process_certificates(NewRoundState, highest_round(sync_info(s)))
        t == [s EXCEPT !.rs = IF s.saved_vote = {} THEN rs
                              ELSE record_vote(rs, CHOOSE v \in s.saved_vote : TRUE)]
    IN  Outcome(t, Propose(n, t))

\* Where the crash can find the handler of a timeout or of a proposal of the round, the
\* sync of which is done: before it, or with the vote signed and not saved, or saved
\* and not sent.
Interrupted(n, s) ==
    LET blocks == {NilBlock(s)} \cup
            {m.block : m \in {k \in msgs : /\ k.type = "Proposal"
                                          /\ round(k.block) = s.rs.current_round
                                          /\ ~has_newer_certificates(k.sync, sync_info(s))}}
        voted == {b \in blocks : ~VoteIsRefused(n, s, b)}
    IN  {s} \cup {Signs(s, b) : b \in voted} \cup {execute_and_vote(n, s, b) : b \in voted}

Restart(n) ==
    /\ n \in config.crashable /\ restarts < MaxRestarts
    /\ \E s \in Interrupted(n, node[n]) : Ends(n, Restarted(n, s))
    /\ restarts' = restarts + 1

\* An epoch starts from its genesis block and its QC.
NewNode == [qc |-> Genesis, tc |-> NoTC, blocks |-> {Genesis}, rs |-> NewRoundState,
            saved_vote |-> {},
            safety |-> [last_voted_round |-> 0, preferred_round |-> 0,
                        one_chain_round |-> 0, last_vote |-> Genesis]]

Init ==
    /\ config \in Configs
    /\ node = [n \in Validator |-> StartRound(n, NewNode).node]
    /\ msgs = UNION {StartRound(n, NewNode).sends : n \in config.up}
    /\ restarts = 0

Next == \E n \in config.up :
    \/ \E m \in msgs : \E fetched \in Fetches(n, m.sync.qc), refetched \in Fetches(n, Voted(m)) :
          Receive(n, m, fetched, refetched)
    \/ LocalTimeout(n)
    \/ Restart(n)

\* What m broadcasts each time its timer expires.
Rebroadcast(m) == process_local_timeout(m, node[m]).sends

\* The timer of a round is set again when it expires, so its broadcast is repeated
\* as long as the round lasts: it is received at last, with a fetch that succeeds.
\* No proposal, plain vote or answer is sure to be received.
Repeated == \E n \in config.up :
    \/ LocalTimeout(n)
    \/ \E m \in config.up : \E k \in Rebroadcast(m) \cap msgs :
          Receive(n, k, Len(k.sync.qc), Len(Voted(k)))

Done(n, o) == o.node = node[n] /\ o.sends \subseteq msgs

\* Nothing that is repeated changes anything any more: ~ENABLED <<Repeated>>_vars.
Quiescent == \A n \in config.up :
    /\ Done(n, process_local_timeout(n, node[n]))
    /\ \A m \in config.up : \A k \in Rebroadcast(m) \cap msgs :
          \A o \in Handle(n, k, Len(k.sync.qc), Len(Voted(k))) : Done(n, o)

\* WF_vars(Repeated), with its ENABLED written out.
Fairness == []<>Quiescent \/ []<><<Repeated>>_vars

Spec == Init /\ [][Next]_vars /\ Fairness
--------------------------------------------------------------------------------
\* Properties.

Votes == {m.vote : m \in {k \in msgs : k.type = "Vote"}}

SafetyData == [last_voted_round : Nat, preferred_round : Nat, one_chain_round : Nat,
               last_vote : Block]

Vote == [author : Validator, block : Block, timeout : SUBSET Nat]

TimeoutCert == [round : Nat, hqc_round : Nat]

\* Every field has its Rust type, and vote_sent is a vote of the current round.
TypeOK ==
    /\ config \in Config
    /\ restarts \in Nat
    /\ \A n \in Validator :
         LET s == node[n]
         IN  /\ s.qc \in Block /\ s.tc \in TimeoutCert /\ s.blocks \subseteq Block
             /\ s.safety \in SafetyData
             /\ s.saved_vote \subseteq Vote
             /\ s.rs.current_round \in Nat \ {0}
             /\ s.rs.pending_votes.author_to_vote \subseteq Vote
             /\ s.rs.pending_votes.partial_tc \subseteq Vote
             /\ \A v \in s.rs.vote_sent :
                   v \in Vote /\ v.author = n /\ round(v.block) = s.rs.current_round

\* RoundState ("Current round is max{highest_qc, highest_tc} + 1"): through syncs that
\* fail half-way, certificates aggregated here or received, and restarts.
RoundIsHighest == \A n \in Validator :
    node[n].rs.current_round = MaxOf(round(node[n].qc), node[n].tc.round) + 1

\* No certificate that the block store holds is replaced by a lower one, and no round
\* is entered again, over restarts too, although insert_timeout_certificate does not
\* compare the certificate with the one it replaces.
NeverRegresses == [][\A n \in Validator :
    /\ round(node'[n].qc) >= round(node[n].qc)
    /\ node'[n].tc.round >= node[n].tc.round
    /\ node'[n].rs.current_round >= node[n].rs.current_round]_vars

\* A validator is never in a round that its SafetyRules refuse to let it time out of:
\* they would sign a vote for the NIL block of the round, if it has not voted, and
\* the timeout.  Whoever sent the certificates, the QC that a timeout certificate
\* refers to has come with it or before it.
CanTimeOut == \A n \in Validator :
    LET s == node[n]
        voted == s.rs.vote_sent # {}
    IN  /\ voted \/ MayVote(s, NilBlock(s))
        /\ MayTimeout(IF voted THEN s ELSE Signs(s, NilBlock(s)), s.rs.current_round)

\* PendingVotes makes a certificate only out of the votes of a quorum: repeated votes,
\* a vote and the same vote with a timeout, and votes left from an insertion that
\* failed are not counted twice.  The QC of a validator is for a block that a quorum
\* voted for; its timeout certificate is over the timeouts of a quorum, with the
\* highest of the QCs that some quorum of them carries.
CertificatesAreBacked == \A n \in Validator :
    LET s == node[n]
        signed == {v \in Votes : round(v.block) = s.tc.round /\ is_timeout(v)}
    IN  /\ s.qc = Genesis \/ check_voting_power({v \in Votes : v.block = s.qc})
        /\ s.tc = NoTC \/ check_voting_power({v \in signed :
                                \A h \in v.timeout : h <= s.tc.hqc_round})

\* Every validator leaves every round: with a timer that is set again when it expires
\* and repeats its vote, lost proposals, votes and answers delay a round and do not
\* block it, whoever voted for what, and a validator that lags or restarts catches up.
RoundsAdvance ==
    <>[](\A n \in config.up : node[n].rs.current_round = config.max_round)
================================================================================
