----------------------------- MODULE SharedMempool -----------------------------
(***************************************************************************)
(* The mempool of a node and the broadcast of its timeline to the upstream *)
(* peers: batches, acknowledgements, retries, back-off, peers that come    *)
(* and go.  The coordinator takes one event at a time; transactions come   *)
(* in and leave between its steps.                                         *)
(*                                                                         *)
(* A batch is the range <<start, end>> of timeline ids it was read from,   *)
(* start excluded.  Messages may be lost and overtake each other and the   *)
(* news of a connection; identical ones under way are one.  A peer is      *)
(* known by its place in the order of compare_prioritized_peers.           *)
(***************************************************************************)
EXTENDS Mempool

VARIABLES
    index,         \* the TimelineIndex: id of each entry, and the next id
    sync_states,   \* [peers connected -> PeerSyncState]
    scheduled,     \* [peers -> how many broadcasts wait for their time, by backoff]
    wire,          \* messages under way
    received,      \* [peers -> ids the peer has taken from a batch]
    faults         \* how often a peer was lost, or its mempool full

broadcast_vars == <<sync_states, scheduled, wire, received, faults>>

shared_vars == <<vars, index, broadcast_vars>>

Live == DOMAIN index.timeline
--------------------------------------------------------------------------------
\* TimelineIndex.

\* What a step of the mempool does to the timeline: a transaction enters it with a new
\* id, also one that replaces another at a higher gas price.
Reindexed ==
    LET new == Ordered({p \in mempool'.timeline :
                  p \notin mempool.timeline \/ mempool'.txns[p].gas # mempool.txns[p].gas})
        kept == {i \in Live : index.timeline[i] \in mempool'.timeline \ ToSet(new)}
        end == index.next + Len(new)
    IN  IF config.peers = {} THEN UNCHANGED index
        ELSE /\ end \in index.next .. (config.max_id + 1)
             /\ index' = [next |-> end,
                          timeline |-> [i \in kept \cup (index.next .. (end - 1)) |->
                             IF i < index.next THEN index.timeline[i]
                             ELSE new[i - index.next + 1]]]

timeline_range(b) == {i \in Live : b[1] < i /\ i <= b[2]}

read_timeline(id) ==
    LET above == {i \in Live : i > id}
    IN  {i \in above : Cardinality({j \in above : j < i}) < config.shared_mempool_batch_size}
--------------------------------------------------------------------------------
\* MempoolNetworkInterface.

\* sent_batches tells which batches have expired.
NewPeerSyncState ==
    [timeline_id |-> 0, sent_batches |-> << >>, retry_batches |-> {}, backoff_mode |-> FALSE]

\* Full nodes broadcast to the first peers in order of priority.
check_peer_prioritized(connected, p) ==
    config.is_validator \/ Cardinality({q \in connected : q < p}) <= config.default_failovers

\* Batches whose transactions have all left the mempool are not tracked.
Tracked(s) ==
    [s EXCEPT !.sent_batches = Restrict(@, {b \in DOMAIN @ : timeline_range(b) # {}})]

Expired(s) == {b \in DOMAIN s.sent_batches : s.sent_batches[b]}

TooManyPendingBroadcasts(s) ==
    Cardinality(DOMAIN s.sent_batches \ Expired(s)) >= config.max_broadcasts_per_peer

Earliest(B) == CHOOSE b \in B : \A c \in B : b[1] < c[1] \/ (b[1] = c[1] /\ b[2] <= c[2])

\* A determine_broadcast_batch that sends again only what the peer asked for: mutant.
determine_broadcast_batch_Mutant(s) ==
    LET fresh == read_timeline(s.timeline_id)
    IN  IF s.retry_batches # {} THEN Earliest(s.retry_batches)
        ELSE <<s.timeline_id, IF fresh = {} THEN s.timeline_id ELSE Max(fresh)>>

\* The batch to send again, expired or to be retried, or else a fresh one.
determine_broadcast_batch(s) ==
    LET again == Expired(s) \cup s.retry_batches
        fresh == read_timeline(s.timeline_id)
    IN  IF again # {} THEN Earliest(again)
        ELSE <<s.timeline_id, IF fresh = {} THEN s.timeline_id ELSE Max(fresh)>>

update_broadcast_state(s, b) ==
    [timeline_id |-> Max({s.timeline_id, b[2]}),
     sent_batches |-> [c \in DOMAIN s.sent_batches \cup {b} |-> c # b /\ s.sent_batches[c]],
     retry_batches |-> s.retry_batches \ {b},
     backoff_mode |-> FALSE]

\* execute_broadcast of tasks.rs to peer p, of state s, for which n broadcasts were
\* scheduled: it ends with scheduling the next.  outcome tells what becomes of a message.
execute_broadcast(p, s, n, backoff, states, outcome) ==
    LET t == Tracked(s)
        b == determine_broadcast_batch(t)
        skip == ~check_peer_prioritized(DOMAIN states \cup {p}, p) \/ (s.backoff_mode /\ ~backoff)
        idle == TooManyPendingBroadcasts(t) \/ timeline_range(b) = {}
        u == IF skip THEN s
             ELSE IF idle \/ outcome = "NetworkError" THEN t
             ELSE update_broadcast_state(t, b)
    IN  /\ sync_states' = [q \in DOMAIN states \cup {p} |-> IF q = p THEN u ELSE states[q]]
        /\ scheduled' = [scheduled EXCEPT ![p] = [n EXCEPT ![u.backoff_mode] = @ + 1]]
        /\ outcome = "sent" => Cardinality(wire) < config.max_wire
        /\ wire' = IF skip \/ idle \/ outcome # "sent" THEN wire
                   ELSE wire \cup {[type |-> "Request", peer |-> p, batch |-> b,
                                    ids |-> timeline_range(b)]}

\* A process_broadcast_ack that takes every answer for an acceptance: mutant.
process_broadcast_ack_Mutant(s, b, retry) ==
    IF b \notin DOMAIN s.sent_batches THEN s
    ELSE [s EXCEPT !.sent_batches = Restrict(@, DOMAIN @ \ {b}),
                   !.backoff_mode = @ \/ retry]

\* process_broadcast_ack on the state of a peer.
process_broadcast_ack(s, b, retry) ==
    IF b \notin DOMAIN s.sent_batches THEN s
    ELSE [s EXCEPT !.sent_batches = Restrict(@, DOMAIN @ \ {b}),
                   !.retry_batches = IF retry THEN @ \cup {b} ELSE @,
                   !.backoff_mode = @ \/ retry]
--------------------------------------------------------------------------------
\* Steps.

Outcomes == {"sent", "lost", "NetworkError"}

\* The mempool goes on.
Core == Next /\ Reindexed /\ UNCHANGED broadcast_vars

NewPeer(p, outcome) ==
    /\ p \in config.peers \ DOMAIN sync_states
    /\ execute_broadcast(p, NewPeerSyncState, scheduled[p], FALSE, sync_states, outcome)
    /\ UNCHANGED <<vars, index, received, faults>>

\* What was scheduled for the peer stays scheduled.
LostPeer(p) ==
    /\ p \in DOMAIN sync_states /\ faults < config.max_faults
    /\ sync_states' = Restrict(sync_states, DOMAIN sync_states \ {p})
    /\ faults' = faults + 1
    /\ UNCHANGED <<vars, index, scheduled, wire, received>>

\* A scheduled broadcast is dropped if the peer is not connected.
ScheduledBroadcast(p, backoff, outcome) ==
    /\ scheduled[p][backoff] > 0
    /\ LET n == [scheduled[p] EXCEPT ![backoff] = @ - 1]
       IN  IF p \in DOMAIN sync_states
           THEN execute_broadcast(p, sync_states[p], n, backoff, sync_states, outcome)
           ELSE /\ outcome = "sent"
                /\ scheduled' = [scheduled EXCEPT ![p] = n]
                /\ UNCHANGED <<sync_states, wire>>
    /\ UNCHANGED <<vars, index, received, faults>>

\* The time to wait for the acknowledgement of a batch is over.
AckTimeout(p, b) ==
    /\ p \in DOMAIN sync_states /\ b \in DOMAIN sync_states[p].sent_batches
    /\ sync_states' = [sync_states EXCEPT ![p].sent_batches[b] = TRUE]
    /\ UNCHANGED <<vars, index, scheduled, wire, received, faults>>

\* process_transaction_broadcast of the peer, which asks for a retry if its mempool is full.
process_transaction_broadcast(m, full, ack_lost) ==
    /\ m.type = "Request" /\ (full => faults < config.max_faults)
    /\ faults' = IF full THEN faults + 1 ELSE faults
    /\ received' = IF full THEN received ELSE [received EXCEPT ![m.peer] = @ \cup m.ids]
    /\ wire' = (wire \ {m}) \cup
         (IF ack_lost THEN {} ELSE {[type |-> "Response", peer |-> m.peer, batch |-> m.batch,
                                     retry |-> full]})
    /\ UNCHANGED <<vars, index, sync_states, scheduled>>

Response(m) ==
    /\ m.type = "Response"
    /\ wire' = wire \ {m}
    /\ sync_states' = [p \in DOMAIN sync_states |->
          IF p = m.peer THEN process_broadcast_ack(sync_states[p], m.batch, m.retry)
          ELSE sync_states[p]]
    /\ UNCHANGED <<vars, index, scheduled, received, faults>>

SharedInit ==
    /\ Init
    /\ index = [next |-> 1, timeline |-> << >>]
    /\ sync_states = << >>
    /\ scheduled = [p \in config.peers |-> [b \in BOOLEAN |-> 0]]
    /\ wire = {} /\ faults = 0
    /\ received = [p \in config.peers |-> {}]

SharedNext ==
    \/ Core
    \/ \E p \in config.peers, o \in Outcomes : NewPeer(p, o)
    \/ \E p \in config.peers : LostPeer(p)
    \/ \E p \in config.peers, b \in BOOLEAN, o \in Outcomes : ScheduledBroadcast(p, b, o)
    \/ \E p \in DOMAIN sync_states : \E b \in DOMAIN sync_states[p].sent_batches : AckTimeout(p, b)
    \/ \E m \in wire, full \in BOOLEAN, l \in BOOLEAN : process_transaction_broadcast(m, full, l)
    \/ \E m \in wire : Response(m)

Peers == UNION {c.peers : c \in Configs}

\* Timers fire and the coordinator takes its events; in the end connections stay, peers
\* have room, and of the messages sent again and again, one arrives.
Fairness == \A p \in Peers :
    /\ WF_shared_vars(NewPeer(p, "sent"))
    /\ \A b \in BOOLEAN : SF_shared_vars(p \in config.peers /\ ScheduledBroadcast(p, b, "sent"))
    /\ WF_shared_vars(p \in DOMAIN sync_states /\
          \E b \in DOMAIN sync_states[p].sent_batches : AckTimeout(p, b))
    /\ SF_shared_vars(\E m \in wire : m.peer = p /\ process_transaction_broadcast(m, FALSE, FALSE))
    /\ WF_shared_vars(\E m \in wire : m.peer = p /\ Response(m))

SharedSpec == SharedInit /\ [][SharedNext]_shared_vars /\ Fairness
--------------------------------------------------------------------------------
\* Properties.

\* What a peer is past in the timeline it has taken, or it is in a batch that will be sent
\* again, whatever became of the messages, in whatever order acknowledgements, time-outs
\* and the news of a connection come, and whatever leaves the mempool in the meantime.
NothingIsSkipped == \A p \in DOMAIN sync_states, i \in Live :
    i <= sync_states[p].timeline_id =>
        \/ i \in received[p]
        \/ \E b \in DOMAIN sync_states[p].sent_batches \cup sync_states[p].retry_batches :
             b[1] < i /\ i <= b[2]

\* Peer p has taken all transactions in the timeline, unless it has no priority.
HasAll(p) ==
    \/ Live \subseteq received[p]
    \/ ~check_peer_prioritized(DOMAIN sync_states \cup {p}, p)

\* "When a new transaction is added, mempool shares this transaction with other
\* validators": when no new ones come, every peer gets all that stay in the timeline,
\* whatever was lost, refused or sent before the peer was lost and came back.
EveryTransactionIsShared == []<>(\A p \in config.peers : HasAll(p))

\* A batch to be retried has nothing left in the mempool: determine_broadcast_batch
\* keeps choosing it, and sends nothing.
Stuck(p) == p \in DOMAIN sync_states /\
    \E b \in sync_states[p].retry_batches : timeline_range(b) = {}

\* The same but for the peers that such a batch blocks.
SharedUnlessStuck == []<>(\A p \in config.peers : HasAll(p) \/ Stuck(p))
================================================================================
