-------------------------- MODULE SharedMempoolProofs --------------------------
(***************************************************************************)
(* No transaction of the timeline is skipped by the broadcast, for every   *)
(* configuration.  Of the core mempool the proof uses only that it never   *)
(* changes the configuration: what it does to the timeline is Reindexed.   *)
(* The broadcast leaves the core mempool alone, so that what MempoolProofs *)
(* shows of it holds here as well.                                         *)
(***************************************************************************)
EXTENDS SharedMempool, MempoolProofs, WellFoundedInduction

Batch == Nat \X Nat

Request == [type : {"Request"}, peer : config.peers, batch : Batch, ids : SUBSET Nat]

Answer == [type : {"Response"}, peer : config.peers, batch : Batch, retry : BOOLEAN]

\* The batches of a peer that are not acknowledged.
Pending(s) == DOMAIN s.sent_batches \cup s.retry_batches

\* A PeerSyncState has its type, and its batches end where it has read to, or before.
SyncStateOK(s, next) ==
    /\ s = [timeline_id |-> s.timeline_id, sent_batches |-> s.sent_batches,
            retry_batches |-> s.retry_batches, backoff_mode |-> s.backoff_mode]
    /\ s.timeline_id \in 0..(next - 1)
    /\ s.sent_batches \in [DOMAIN s.sent_batches -> BOOLEAN]
    /\ s.backoff_mode \in BOOLEAN
    /\ Pending(s) \subseteq Batch
    /\ \A b \in Pending(s) : b[2] <= s.timeline_id

\* NothingIsSkipped of one peer in state s that has got these ids.
Covered(s, got, live) ==
    \A i \in live : i <= s.timeline_id =>
        i \in got \/ \E b \in Pending(s) : b[1] < i /\ i <= b[2]

\* Ids are given out in order.
IndexOK ==
    /\ index.next \in Nat \ {0}
    /\ Live \subseteq 1..(index.next - 1)

\* A message was sent for ids given out before it, with all of them that are still there.
\* A peer that accepted a batch has taken them.
MessageOK(m) ==
    /\ m \in Request \cup Answer
    /\ m.batch[2] < index.next
    /\ m.type = "Request" => timeline_range(m.batch) \subseteq m.ids
    /\ m.type = "Response" /\ ~m.retry => timeline_range(m.batch) \subseteq received[m.peer]

\* The inductive invariant.
BroadcastInv ==
    /\ IndexOK
    /\ received \in [config.peers -> SUBSET Nat]
    /\ DOMAIN sync_states \subseteq config.peers
    /\ \A p \in DOMAIN sync_states :
          /\ SyncStateOK(sync_states[p], index.next)
          /\ Covered(sync_states[p], received[p], Live)
    /\ \A m \in wire : MessageOK(m)
--------------------------------------------------------------------------------
\* What is chosen exists.

\* A non-empty set of naturals has a least element.
LEMMA NatMinimum ==
    ASSUME NEW T \in SUBSET Nat, T # {}
    PROVE  \E x \in T : \A y \in T : x <= y
<1> DEFINE R == OpToRel(<, Nat)
<1>1. IsWellFoundedOn(R, Nat)
  BY Zenon, NatLessThanWellFounded
<1>2. PICK x \in T : \A y \in T : ~(<<y, x>> \in R)
  <2> HIDE DEF R
  <2> QED BY Zenon, <1>1, WFMin
<1>3. \A y \in T : ~(y < x)
  BY Zenon, <1>2 DEF OpToRel
<1> QED BY <1>3

\* A non-empty bounded set of naturals has a greatest element.
LEMMA NatMaximum ==
    ASSUME NEW T \in SUBSET Nat, T # {}, NEW R \in Nat, \A y \in T : y <= R
    PROVE  Max(T) \in T /\ \A y \in T : y <= Max(T)
<1> DEFINE U == {k \in Nat : \A y \in T : y <= k}
<1>1. U \in SUBSET Nat /\ U # {}
  OBVIOUS
<1>2. PICK x \in U : \A k \in U : x <= k
  BY Zenon, <1>1, NatMinimum
<1>3. x \in T
  <2> SUFFICES ASSUME x \notin T PROVE FALSE
    OBVIOUS
  <2>1. \A y \in T : y \in Nat /\ y < x
    OBVIOUS
  <2>2. PICK z \in T : TRUE
    BY Zenon
  <2>3. x - 1 \in Nat /\ \A y \in T : y <= x - 1
    BY <2>1, <2>2
  <2> QED BY <1>2, <2>3
<1>4. \E m \in T : \A y \in T : m >= y
  BY Zenon, <1>3
<1>5. Max(T) \in T /\ \A y \in T : Max(T) >= y
  BY Zenon, <1>4 DEF Max
<1> QED BY Zenon, <1>5

\* The batch that is sent again is one of those to be sent again.
LEMMA EarliestIsOne ==
    ASSUME NEW B \in SUBSET Batch, B # {}
    PROVE  Earliest(B) \in B
<1> DEFINE starts == {b[1] : b \in B}
           Ends(x) == {b[2] : b \in {c \in B : c[1] = x}}
<1>1. starts \in SUBSET Nat /\ starts # {}
  BY DEF Batch
<1>2. PICK x \in starts : \A y \in starts : x <= y
  <2> HIDE DEF starts
  <2> QED BY Zenon, <1>1, NatMinimum
<1>3. Ends(x) \in SUBSET Nat /\ Ends(x) # {}
  BY Zenon, <1>2 DEF Batch
<1>4. PICK z \in Ends(x) : \A y \in Ends(x) : z <= y
  <2> HIDE DEF Ends
  <2> QED BY Zenon, <1>3, NatMinimum
<1>5. PICK b \in B : b[1] = x /\ b[2] = z
  BY Zenon, <1>4
<1>6. \A c \in B : c[1] \in Nat /\ x <= c[1] /\ x \in Nat /\ (c[1] = x => z <= c[2])
  BY ZenonT(30), <1>1, <1>2, <1>4
<1>7. \A c \in B : b[1] < c[1] \/ (b[1] = c[1] /\ b[2] <= c[2])
  BY <1>5, <1>6
<1> QED BY Zenon, <1>7 DEF Earliest
--------------------------------------------------------------------------------
\* PeerSyncState.

\* What is dropped from sent_batches has nothing left to send.
LEMMA TrackedOK ==
    ASSUME NEW next \in Nat, NEW s, NEW got, SyncStateOK(s, next), Covered(s, got, Live)
    PROVE  /\ SyncStateOK(Tracked(s), next)
           /\ Covered(Tracked(s), got, Live)
<1> DEFINE D == {b \in DOMAIN s.sent_batches : timeline_range(b) # {}}
           t == Tracked(s)
<1>1. /\ t = [timeline_id |-> s.timeline_id, sent_batches |-> [b \in D |-> s.sent_batches[b]],
              retry_batches |-> s.retry_batches, backoff_mode |-> s.backoff_mode]
  BY DEF Tracked, Restrict, SyncStateOK
<1>2. /\ t.timeline_id = s.timeline_id /\ t.sent_batches = [b \in D |-> s.sent_batches[b]]
      /\ t.retry_batches = s.retry_batches /\ t.backoff_mode = s.backoff_mode
      /\ t = [timeline_id |-> t.timeline_id, sent_batches |-> t.sent_batches,
              retry_batches |-> t.retry_batches, backoff_mode |-> t.backoff_mode]
  BY <1>1
<1>3. DOMAIN t.sent_batches = D
  BY Zenon, <1>2
<1> HIDE DEF t
<1>4. Pending(t) \subseteq Pending(s)
  BY ZenonT(30), <1>2, <1>3 DEF Pending
<1>5. t.sent_batches \in [DOMAIN t.sent_batches -> BOOLEAN]
  BY <1>2, <1>3 DEF SyncStateOK
<1>6. SyncStateOK(t, next)
  BY ZenonT(30), <1>2, <1>4, <1>5 DEF SyncStateOK
<1>7. ASSUME NEW i \in Live, NEW b \in Pending(s), b[1] < i, i <= b[2] PROVE b \in Pending(t)
  BY ZenonT(30), <1>2, <1>3, <1>7 DEF Pending, timeline_range
<1>8. Covered(t, got, Live)
  BY Zenon, <1>2, <1>7 DEF Covered
<1> QED BY <1>6, <1>8 DEF t

\* The batch of a broadcast that sends something: one that is not acknowledged, or the
\* one that follows what the peer has read.
Follows(s, b, next) ==
    /\ b \in Batch
    /\ b[2] < next
    /\ b \in Pending(s) \/ b[1] = s.timeline_id

\* determine_broadcast_batch returns a batch of the timeline as it is: one of the peer's that
\* is pending, or a new one that starts where the peer has read to.
LEMMA BatchFollows ==
    ASSUME IndexOK, NEW s, SyncStateOK(s, index.next)
    PROVE  Follows(s, determine_broadcast_batch(s), index.next)
<1> DEFINE again == Expired(s) \cup s.retry_batches
           fresh == read_timeline(s.timeline_id)
<1>1. s.timeline_id \in Nat /\ s.timeline_id < index.next
  BY DEF SyncStateOK, IndexOK
<1>2. CASE again # {}
  <2>1. again \in SUBSET Batch /\ again \subseteq Pending(s)
    BY Zenon DEF Expired, Pending, SyncStateOK
  <2>2. Earliest(again) \in again
    BY Zenon, <1>2, <2>1, EarliestIsOne
  <2>3. determine_broadcast_batch(s) = Earliest(again)
    BY Zenon, <1>2 DEF determine_broadcast_batch
  <2>4. \A b \in Pending(s) : b \in Batch /\ b[2] <= s.timeline_id /\ b[2] \in Nat
    BY DEF SyncStateOK, Batch
  <2> QED BY SMTT(30), <1>1, <2>1, <2>2, <2>3, <2>4 DEF Follows, IndexOK
<1>3. CASE again = {} /\ fresh = {}
  <2>1. determine_broadcast_batch(s) = <<s.timeline_id, s.timeline_id>>
    BY Zenon, <1>3 DEF determine_broadcast_batch
  <2> QED BY <1>1, <2>1 DEF Follows, Batch
<1>4. CASE again = {} /\ fresh # {}
  <2>1. determine_broadcast_batch(s) = <<s.timeline_id, Max(fresh)>>
    BY Zenon, <1>4 DEF determine_broadcast_batch
  <2>2. fresh \in SUBSET Nat /\ index.next - 1 \in Nat /\ \A i \in fresh : i <= index.next - 1
    <3>1. fresh \subseteq Live
      BY Zenon DEF read_timeline
    <3> HIDE DEF fresh
    <3> QED BY <3>1 DEF IndexOK
  <2>3. Max(fresh) \in fresh
    <3> HIDE DEF fresh
    <3> QED BY Zenon, <1>4, <2>2, NatMaximum
  <2>4. Max(fresh) \in Nat /\ Max(fresh) < index.next
    BY <2>2, <2>3 DEF IndexOK
  <2> QED BY <1>1, <2>1, <2>4 DEF Follows, Batch
<1> QED BY Zenon, <1>2, <1>3, <1>4

\* update_broadcast_state moves past the ids of the batch and keeps track of it.
LEMMA UpdateOK ==
    ASSUME NEW next \in Nat, NEW s, NEW got, NEW live \in SUBSET Nat, NEW b,
           SyncStateOK(s, next), Covered(s, got, live), Follows(s, b, next)
    PROVE  /\ SyncStateOK(update_broadcast_state(s, b), next)
           /\ Covered(update_broadcast_state(s, b), got, live)
<1> DEFINE u == update_broadcast_state(s, b)
           D == DOMAIN s.sent_batches \cup {b}
           id == Max({s.timeline_id, b[2]})
<1>1. s.timeline_id \in Nat /\ s.timeline_id < next /\ b[1] \in Nat /\ b[2] \in Nat /\ b[2] < next
  BY DEF SyncStateOK, Follows, Batch
<1>2. id \in Nat /\ s.timeline_id <= id /\ b[2] <= id /\ id \in {s.timeline_id, b[2]}
  BY Zenon, <1>1, MaxOfTwo
<1> HIDE DEF id
<1>3. u = [timeline_id |-> id, sent_batches |-> [c \in D |-> c # b /\ s.sent_batches[c]],
           retry_batches |-> s.retry_batches \ {b}, backoff_mode |-> FALSE]
  BY Zenon DEF update_broadcast_state, id
<1>4. /\ u.timeline_id = id /\ u.sent_batches = [c \in D |-> c # b /\ s.sent_batches[c]]
      /\ u.retry_batches = s.retry_batches \ {b} /\ u.backoff_mode = FALSE
      /\ u = [timeline_id |-> u.timeline_id, sent_batches |-> u.sent_batches,
              retry_batches |-> u.retry_batches, backoff_mode |-> u.backoff_mode]
  BY <1>3
<1>5. DOMAIN u.sent_batches = D
  BY ZenonT(30), <1>4
<1> HIDE DEF u
<1>6. Pending(u) = Pending(s) \cup {b}
  BY ZenonT(30), <1>4, <1>5 DEF Pending
<1>7. u.sent_batches \in [DOMAIN u.sent_batches -> BOOLEAN]
  BY ZenonT(30), <1>4, <1>5
<1>8. \A c \in Pending(s) : c \in Batch /\ c[2] \in Nat /\ c[2] <= s.timeline_id
  BY DEF SyncStateOK, Batch
<1>9. Pending(u) \subseteq Batch /\ \A c \in Pending(u) : c[2] <= u.timeline_id
  BY SMTT(30), <1>1, <1>2, <1>4, <1>6, <1>8 DEF Follows
<1>10. u.timeline_id \in 0..(next - 1)
  BY SMTT(30), <1>1, <1>2, <1>4
<1>11. SyncStateOK(u, next)
  BY Zenon, <1>4, <1>7, <1>9, <1>10 DEF SyncStateOK
<1>12. ASSUME NEW i \in live, i <= u.timeline_id
       PROVE  i \in got \/ \E c \in Pending(u) : c[1] < i /\ i <= c[2]
  <2>1. CASE i <= s.timeline_id
    BY Zenon, <2>1, <1>6 DEF Covered
  <2>2. CASE ~(i <= s.timeline_id)
    <3>1. id = b[2] /\ i <= b[2] /\ ~(b[2] <= s.timeline_id)
      BY <1>1, <1>2, <1>4, <1>12, <2>2
    <3>2. b[1] = s.timeline_id
      BY Zenon, <1>8, <3>1 DEF Follows
    <3> QED BY SMTT(30), <1>1, <1>6, <2>2, <3>1, <3>2
  <2> QED BY ZenonT(30), <2>1, <2>2
<1>13. Covered(u, got, live)
  BY Zenon, <1>12 DEF Covered
<1> QED BY ZenonT(30), <1>11, <1>13 DEF u

\* process_broadcast_ack: what is no longer pending the peer has taken.
LEMMA AckOK ==
    ASSUME NEW next \in Nat, NEW s, NEW got, NEW b, NEW retry \in BOOLEAN,
           SyncStateOK(s, next), Covered(s, got, Live), ~retry => timeline_range(b) \subseteq got
    PROVE  /\ SyncStateOK(process_broadcast_ack(s, b, retry), next)
           /\ Covered(process_broadcast_ack(s, b, retry), got, Live)
<1> DEFINE u == process_broadcast_ack(s, b, retry)
           D == DOMAIN s.sent_batches \ {b}
<1>1. CASE b \notin DOMAIN s.sent_batches
  BY Zenon, <1>1 DEF process_broadcast_ack
<1>2. CASE b \in DOMAIN s.sent_batches
  <2>1. u = [timeline_id |-> s.timeline_id, sent_batches |-> [c \in D |-> s.sent_batches[c]],
             retry_batches |-> IF retry THEN s.retry_batches \cup {b} ELSE s.retry_batches,
             backoff_mode |-> s.backoff_mode \/ retry]
    BY Zenon, <1>2 DEF process_broadcast_ack, Restrict, SyncStateOK
  <2>2. /\ u.timeline_id = s.timeline_id /\ u.sent_batches = [c \in D |-> s.sent_batches[c]]
        /\ u.retry_batches = IF retry THEN s.retry_batches \cup {b} ELSE s.retry_batches
        /\ u.backoff_mode = (s.backoff_mode \/ retry)
        /\ u = [timeline_id |-> u.timeline_id, sent_batches |-> u.sent_batches,
                retry_batches |-> u.retry_batches, backoff_mode |-> u.backoff_mode]
    BY <2>1
  <2>3. DOMAIN u.sent_batches = D
    BY Zenon, <2>2
  <2> HIDE DEF u
  <2>4. Pending(u) \subseteq Pending(s) /\ Pending(s) \subseteq Pending(u) \cup {b}
    BY ZenonT(30), <1>2, <2>2, <2>3 DEF Pending
  <2>5. retry => b \in Pending(u)
    BY ZenonT(30), <2>2 DEF Pending
  <2>6. u.sent_batches \in [DOMAIN u.sent_batches -> BOOLEAN]
    BY <2>2, <2>3 DEF SyncStateOK
  <2>7. u.backoff_mode \in BOOLEAN
    BY Zenon, <2>2 DEF SyncStateOK
  <2>8. SyncStateOK(u, next)
    BY ZenonT(30), <2>2, <2>4, <2>6, <2>7 DEF SyncStateOK
  <2>9. ASSUME NEW i \in Live, i <= u.timeline_id
        PROVE  i \in got \/ \E c \in Pending(u) : c[1] < i /\ i <= c[2]
    <3>1. i \in got \/ \E c \in Pending(s) : c[1] < i /\ i <= c[2]
      BY Zenon, <2>2, <2>9 DEF Covered
    <3>2. b[1] < i /\ i <= b[2] => i \in timeline_range(b)
      BY DEF timeline_range
    <3> QED BY ZenonT(30), <2>4, <2>5, <3>1, <3>2
  <2>10. Covered(u, got, Live)
    BY Zenon, <2>9 DEF Covered
  <2> QED BY ZenonT(30), <2>8, <2>10 DEF u
<1> QED BY Zenon, <1>1, <1>2
--------------------------------------------------------------------------------
\* Steps.

\* What a step may do to the index and to what peers have taken.
Grows ==
    /\ config' = config
    /\ index'.next \in Nat \ {0} /\ index.next <= index'.next
    /\ Live' \subseteq 1..(index'.next - 1)
    /\ \A i \in Live' : i < index.next => i \in Live
    /\ received' \in [config.peers -> SUBSET Nat]
    /\ \A p \in config.peers : received[p] \subseteq received'[p]

\* A peer stays covered while ids leave the timeline and others are given out.
LEMMA StateKept ==
    ASSUME IndexOK, Grows, NEW p \in config.peers, NEW s,
           SyncStateOK(s, index.next), Covered(s, received[p], Live)
    PROVE  /\ SyncStateOK(s, index'.next)
           /\ Covered(s, received'[p], Live')
<1>1. s.timeline_id \in Nat /\ s.timeline_id < index.next
  BY DEF SyncStateOK, IndexOK
<1>2. s.timeline_id \in 0..(index'.next - 1)
  BY <1>1 DEF Grows, IndexOK
<1>3. SyncStateOK(s, index'.next)
  BY Zenon, <1>2 DEF SyncStateOK
<1>4. ASSUME NEW i \in Live', i <= s.timeline_id PROVE i \in Live
  BY <1>1, <1>4 DEF Grows, IndexOK
<1>5. Covered(s, received'[p], Live')
  BY Zenon, <1>4 DEF Covered, Grows
<1> QED BY ZenonT(30), <1>3, <1>5

\* So does a message stay valid.
LEMMA MessageKept ==
    ASSUME IndexOK, Grows, NEW m, MessageOK(m)
    PROVE  MessageOK(m)'
<1>1. m.batch[2] \in Nat /\ m.peer \in config.peers
  BY DEF MessageOK, Request, Answer, Batch
<1>2. m.batch[2] < index.next /\ m.batch[2] < index'.next
  BY <1>1 DEF MessageOK, Grows, IndexOK
<1>3. timeline_range(m.batch)' \subseteq timeline_range(m.batch)
  <2>1. ASSUME NEW i \in Live', i <= m.batch[2] PROVE i \in Live
    BY SMTT(30), <1>1, <1>2, <2>1 DEF Grows, IndexOK
  <2> QED BY Zenon, <2>1 DEF timeline_range
<1>4. (m \in Request \cup Answer)'
  BY Zenon DEF MessageOK, Request, Answer, Grows
<1> QED BY Zenon, <1>1, <1>2, <1>3, <1>4 DEF MessageOK, Grows

\* The steps that leave the index alone and forget nothing that peers have taken.
LEMMA SameIndexGrows ==
    ASSUME BroadcastInv, UNCHANGED <<config, index>>,
           received' \in [config.peers -> SUBSET Nat],
           \A p \in config.peers : received[p] \subseteq received'[p]
    PROVE  Grows
<1>1. Live' = Live
  BY Zenon DEF Live
<1>2. index.next \in Nat \ {0} /\ Live \subseteq 1..(index.next - 1)
  BY DEF BroadcastInv, IndexOK
<1> QED BY <1>1, <1>2 DEF Grows

\* The invariant after a step, from what is new in it.
LEMMA InvariantKept ==
    ASSUME BroadcastInv, Grows, DOMAIN sync_states' \subseteq config.peers,
           \A p \in DOMAIN sync_states' :
              \/ p \in DOMAIN sync_states /\ sync_states'[p] = sync_states[p]
              \/ /\ SyncStateOK(sync_states'[p], index.next)
                 /\ Covered(sync_states'[p], received[p], Live),
           \A m \in wire' : m \in wire \/ MessageOK(m)'
    PROVE  BroadcastInv'
<1>1. IndexOK /\ IndexOK'
  BY Zenon DEF BroadcastInv, Grows, IndexOK
<1>2. ASSUME NEW p \in DOMAIN sync_states'
      PROVE  /\ SyncStateOK(sync_states'[p], index'.next)
             /\ Covered(sync_states'[p], received'[p], Live')
  <2>1. p \in config.peers
    OBVIOUS
  <2>2. /\ SyncStateOK(sync_states'[p], index.next)
        /\ Covered(sync_states'[p], received[p], Live)
    BY Zenon DEF BroadcastInv
  <2> QED BY Zenon, <1>1, <2>1, <2>2, StateKept
<1>3. \A m \in wire' : MessageOK(m)'
  BY Zenon, <1>1, MessageKept DEF BroadcastInv
<1>4. received' \in [config'.peers -> SUBSET Nat] /\ DOMAIN sync_states' \subseteq config'.peers
  BY Zenon DEF Grows
<1> QED BY Zenon, <1>1, <1>2, <1>3, <1>4 DEF BroadcastInv

\* execute_broadcast to a connected peer or to one that has just connected.
LEMMA ExecuteKeeps ==
    ASSUME BroadcastInv, NEW p \in config.peers, NEW s, NEW n, NEW backoff, NEW outcome,
           SyncStateOK(s, index.next), Covered(s, received[p], Live),
           execute_broadcast(p, s, n, backoff, sync_states, outcome),
           UNCHANGED <<config, index, received>>
    PROVE  BroadcastInv'
<1> DEFINE t == Tracked(s)
           b == determine_broadcast_batch(t)
           skip == ~check_peer_prioritized(DOMAIN sync_states \cup {p}, p)
                     \/ (s.backoff_mode /\ ~backoff)
           idle == TooManyPendingBroadcasts(t) \/ timeline_range(b) = {}
           u == IF skip THEN s
                ELSE IF idle \/ outcome = "NetworkError" THEN t
                ELSE update_broadcast_state(t, b)
           m == [type |-> "Request", peer |-> p, batch |-> b, ids |-> timeline_range(b)]
<1>1. IndexOK /\ index.next \in Nat /\ Live \in SUBSET Nat
  BY DEF BroadcastInv, IndexOK
<1>2. /\ sync_states' = [q \in DOMAIN sync_states \cup {p} |-> IF q = p THEN u ELSE sync_states[q]]
      /\ wire' = wire \/ wire' = wire \cup {m}
  BY Zenon DEF execute_broadcast
<1>3. SyncStateOK(t, index.next) /\ Covered(t, received[p], Live)
  BY Zenon, <1>1, TrackedOK
<1> HIDE DEF t
<1>4. Follows(t, b, index.next)
  BY Zenon, <1>1, <1>3, BatchFollows
<1> HIDE DEF b
<1>5. /\ SyncStateOK(update_broadcast_state(t, b), index.next)
      /\ Covered(update_broadcast_state(t, b), received[p], Live)
  BY Zenon, <1>1, <1>3, <1>4, UpdateOK
<1>6. SyncStateOK(u, index.next) /\ Covered(u, received[p], Live)
  BY Zenon, <1>3, <1>5
<1> HIDE DEF u
<1>7. Grows
  BY Zenon, SameIndexGrows DEF BroadcastInv
<1>8. ASSUME NEW r, r = m PROVE MessageOK(r)'
  <2>1. b \in Batch /\ b[2] < index.next
    BY ZenonT(30), <1>4 DEF Follows
  <2>2. timeline_range(b) \in SUBSET Nat
    BY ZenonT(30), <1>1 DEF timeline_range
  <2>3. m \in Request /\ m.type = "Request" /\ m.batch = b /\ m.ids = timeline_range(b)
    BY ZenonT(30), <2>1, <2>2 DEF Request
  <2> HIDE DEF m
  <2>4. MessageOK(r)
    BY ZenonT(30), <1>8, <2>1, <2>3 DEF MessageOK
  <2> QED BY Zenon, <1>1, <1>7, <2>4, MessageKept
<1> HIDE DEF m
<1>9. DOMAIN sync_states' = DOMAIN sync_states \cup {p}
  BY ZenonT(30), <1>2
<1>10. \A q \in DOMAIN sync_states' :
          \/ q \in DOMAIN sync_states /\ sync_states'[q] = sync_states[q]
          \/ SyncStateOK(sync_states'[q], index.next) /\ Covered(sync_states'[q], received[q], Live)
  <2> TAKE q \in DOMAIN sync_states'
  <2>1. CASE q = p
    <3>1. sync_states'[q] = u
      BY ZenonT(30), <1>2, <2>1
    <3> QED BY Zenon, <1>6, <2>1, <3>1
  <2>2. CASE q # p
    BY ZenonT(30), <1>2, <1>9, <2>2
  <2> QED BY Zenon, <2>1, <2>2
<1>11. DOMAIN sync_states' \subseteq config.peers
  BY ZenonT(30), <1>9 DEF BroadcastInv
<1>12. \A r \in wire' : r \in wire \/ MessageOK(r)'
  BY Zenon, <1>2, <1>8
<1> QED BY Zenon, <1>7, <1>10, <1>11, <1>12, InvariantKept

\* A step of the core mempool never changes the configuration.
LEMMA ConfigKept == ASSUME Next PROVE config' = config
BY Zenon DEF Next, Adds, Submit, Discard, Add, ChainCommits, Notify, Reject, GC, Becomes

\* Additions, commits, evictions and expirations.
LEMMA CoreKeeps == ASSUME BroadcastInv, Core PROVE BroadcastInv'
<1>1. config' = config /\ UNCHANGED <<sync_states, wire, received>>
  BY Zenon, ConfigKept DEF Core, broadcast_vars
<1>2. index.next \in Nat \ {0} /\ Live \subseteq 1..(index.next - 1)
  BY DEF BroadcastInv, IndexOK
<1>3. /\ index'.next \in Nat \ {0} /\ index.next <= index'.next
      /\ Live' \subseteq 1..(index'.next - 1)
      /\ \A i \in Live' : i < index.next => i \in Live
  <2>1. CASE UNCHANGED index
    BY <1>2, <2>1 DEF Live
  <2>2. CASE ~UNCHANGED index
    <3> DEFINE new == Ordered({p \in mempool'.timeline :
                          p \notin mempool.timeline \/ mempool'.txns[p].gas # mempool.txns[p].gas})
               kept == {i \in Live : index.timeline[i] \in mempool'.timeline \ ToSet(new)}
               end == index.next + Len(new)
    <3>1. /\ end \in index.next .. (config.max_id + 1)
          /\ index' = [next |-> end,
                       timeline |-> [i \in kept \cup (index.next .. (end - 1)) |->
                          IF i < index.next THEN index.timeline[i]
                          ELSE new[i - index.next + 1]]]
      BY Zenon, <2>2 DEF Core, Reindexed
    <3>2. kept \subseteq Live
      BY Zenon
    <3> HIDE DEF new, kept, end
    <3>3. index'.next = end /\ DOMAIN index'.timeline = kept \cup (index.next .. (end - 1))
      BY ZenonT(30), <3>1
    <3>4. end \in Nat \ {0} /\ index.next <= end
      BY SMTT(30), <1>2, <3>1
    <3>5. ASSUME NEW i \in Live'
          PROVE  i \in 1..(end - 1) /\ (i < index.next => i \in Live)
      <4>1. i \in Live \/ i \in index.next .. (end - 1)
        BY Zenon, <3>2, <3>3, <3>5 DEF Live
      <4>2. i \in Live => i \in 1..(index.next - 1)
        BY Zenon, <1>2
      <4>3. i \in 1..(end - 1)
        BY SMTT(30), <1>2, <3>4, <4>1, <4>2
      <4>4. i \in index.next .. (end - 1) => ~(i < index.next)
        BY SMTT(30), <1>2, <3>4
      <4> QED BY Zenon, <4>1, <4>3, <4>4
    <3> QED BY Zenon, <3>3, <3>4, <3>5
  <2> QED BY ZenonT(30), <2>1, <2>2
<1>4. Grows
  BY ZenonT(30), <1>1, <1>3 DEF Grows, BroadcastInv
<1> QED BY Zenon, <1>1, <1>4, InvariantKept DEF BroadcastInv

\* A peer connects: nothing is read for it yet, and ids start at 1.
LEMMA NewPeerKeeps ==
    ASSUME BroadcastInv, NEW p \in config.peers, NEW outcome, NewPeer(p, outcome)
    PROVE  BroadcastInv'
<1> DEFINE s == NewPeerSyncState
<1>1. /\ s.timeline_id = 0 /\ s.sent_batches = << >> /\ s.retry_batches = {}
      /\ s.backoff_mode = FALSE
      /\ s = [timeline_id |-> s.timeline_id, sent_batches |-> s.sent_batches,
              retry_batches |-> s.retry_batches, backoff_mode |-> s.backoff_mode]
  BY DEF NewPeerSyncState
<1>2. DOMAIN s.sent_batches = {} /\ s.sent_batches \in [DOMAIN s.sent_batches -> BOOLEAN]
  BY SMTT(30), <1>1
<1> HIDE DEF s
<1>3. Pending(s) = {}
  BY Zenon, <1>1, <1>2 DEF Pending
<1>4. index.next \in Nat \ {0} /\ Live \subseteq 1..(index.next - 1)
  BY DEF BroadcastInv, IndexOK
<1>5. s.timeline_id \in 0..(index.next - 1)
  BY SMTT(30), <1>1, <1>4
<1>6. SyncStateOK(s, index.next)
  BY Zenon, <1>1, <1>2, <1>3, <1>5 DEF SyncStateOK
<1>7. Covered(s, received[p], Live)
  BY SMTT(30), <1>1, <1>4 DEF Covered
<1>8. /\ execute_broadcast(p, s, scheduled[p], FALSE, sync_states, outcome)
      /\ UNCHANGED <<config, index, received>>
  BY Zenon DEF NewPeer, vars, s
<1> QED BY Zenon, <1>6, <1>7, <1>8, ExecuteKeeps

\* A peer is lost: its state is dropped, what it has taken it keeps.
LEMMA LostPeerKeeps ==
    ASSUME BroadcastInv, NEW p \in config.peers, LostPeer(p)
    PROVE  BroadcastInv'
<1>1. UNCHANGED <<config, index, received, wire>>
  BY Zenon DEF LostPeer, vars
<1>2. sync_states' = [q \in DOMAIN sync_states \ {p} |-> sync_states[q]]
  BY Zenon DEF LostPeer, Restrict
<1>3. /\ DOMAIN sync_states' \subseteq DOMAIN sync_states
      /\ \A q \in DOMAIN sync_states' : sync_states'[q] = sync_states[q]
  BY ZenonT(30), <1>2
<1>4. Grows
  BY Zenon, <1>1, SameIndexGrows DEF BroadcastInv
<1>5. DOMAIN sync_states' \subseteq config.peers
  BY ZenonT(30), <1>3 DEF BroadcastInv
<1> QED BY Zenon, <1>1, <1>3, <1>4, <1>5, InvariantKept

\* A scheduled broadcast, to a peer that is connected or not.
LEMMA ScheduledBroadcastKeeps ==
    ASSUME BroadcastInv, NEW p \in config.peers, NEW backoff, NEW outcome,
           ScheduledBroadcast(p, backoff, outcome)
    PROVE  BroadcastInv'
<1> DEFINE n == [scheduled[p] EXCEPT ![backoff] = @ - 1]
<1>1. UNCHANGED <<config, index, received>>
  BY Zenon DEF ScheduledBroadcast, vars
<1>2. CASE p \in DOMAIN sync_states
  <2>1. execute_broadcast(p, sync_states[p], n, backoff, sync_states, outcome)
    BY Zenon, <1>2 DEF ScheduledBroadcast
  <2>2. SyncStateOK(sync_states[p], index.next) /\ Covered(sync_states[p], received[p], Live)
    BY Zenon, <1>2 DEF BroadcastInv
  <2> HIDE DEF n
  <2> QED BY Zenon, <1>1, <2>1, <2>2, ExecuteKeeps
<1>3. CASE p \notin DOMAIN sync_states
  <2>1. UNCHANGED <<sync_states, wire>>
    BY Zenon, <1>3 DEF ScheduledBroadcast
  <2>2. Grows
    BY Zenon, <1>1, SameIndexGrows DEF BroadcastInv
  <2> QED BY Zenon, <2>1, <2>2, InvariantKept DEF BroadcastInv
<1> QED BY Zenon, <1>2, <1>3

\* A batch that has timed out is still pending.
LEMMA AckTimeoutKeeps ==
    ASSUME BroadcastInv, NEW p, NEW b, AckTimeout(p, b)
    PROVE  BroadcastInv'
<1> DEFINE s == sync_states[p]
           u == sync_states'[p]
<1>1. UNCHANGED <<config, index, received, wire>>
  BY Zenon DEF AckTimeout, vars
<1>2. p \in DOMAIN sync_states /\ b \in DOMAIN s.sent_batches /\ SyncStateOK(s, index.next)
      /\ Covered(s, received[p], Live)
  BY Zenon DEF AckTimeout, BroadcastInv
<1>3. sync_states' = [sync_states EXCEPT ![p].sent_batches[b] = TRUE]
  BY Zenon DEF AckTimeout
<1>4. /\ DOMAIN sync_states' = DOMAIN sync_states
      /\ \A q \in DOMAIN sync_states : q # p => sync_states'[q] = sync_states[q]
      /\ u = [s EXCEPT !.sent_batches = [s.sent_batches EXCEPT ![b] = TRUE]]
  BY ZenonT(30), <1>2, <1>3
<1> HIDE DEF u
<1>5. /\ u.timeline_id = s.timeline_id /\ u.sent_batches = [s.sent_batches EXCEPT ![b] = TRUE]
      /\ u.retry_batches = s.retry_batches /\ u.backoff_mode = s.backoff_mode
      /\ u = [timeline_id |-> u.timeline_id, sent_batches |-> u.sent_batches,
              retry_batches |-> u.retry_batches, backoff_mode |-> u.backoff_mode]
  BY Zenon, <1>2, <1>4 DEF SyncStateOK
<1>6. /\ DOMAIN u.sent_batches = DOMAIN s.sent_batches
      /\ u.sent_batches \in [DOMAIN u.sent_batches -> BOOLEAN]
  BY ZenonT(30), <1>2, <1>5 DEF SyncStateOK
<1>7. Pending(u) = Pending(s)
  BY ZenonT(30), <1>5, <1>6 DEF Pending
<1>8. SyncStateOK(u, index.next)
  BY Zenon, <1>2, <1>5, <1>6, <1>7 DEF SyncStateOK
<1>9. Covered(u, received[p], Live)
  BY Zenon, <1>2, <1>5, <1>7 DEF Covered
<1>10. Grows
  BY Zenon, <1>1, SameIndexGrows DEF BroadcastInv
<1>11. DOMAIN sync_states' \subseteq config.peers
  BY ZenonT(30), <1>4 DEF BroadcastInv
<1>12. \A q \in DOMAIN sync_states' :
          \/ q \in DOMAIN sync_states /\ sync_states'[q] = sync_states[q]
          \/ SyncStateOK(sync_states'[q], index.next) /\ Covered(sync_states'[q], received[q], Live)
  BY Zenon, <1>4, <1>8, <1>9 DEF u
<1> QED BY Zenon, <1>1, <1>10, <1>11, <1>12, InvariantKept

\* The peer takes a batch, all that is left of it, or refuses it.
LEMMA PeerKeeps ==
    ASSUME BroadcastInv, NEW m \in wire, NEW full \in BOOLEAN, NEW ack_lost,
           process_transaction_broadcast(m, full, ack_lost)
    PROVE  BroadcastInv'
<1> DEFINE a == [type |-> "Response", peer |-> m.peer, batch |-> m.batch, retry |-> full]
<1>1. UNCHANGED <<config, index, sync_states>> /\ m.type = "Request"
  BY Zenon DEF process_transaction_broadcast, vars
<1>2. \A r \in wire' : r \in wire \/ r = a
  BY Zenon DEF process_transaction_broadcast
<1>3. MessageOK(m) /\ IndexOK /\ received \in [config.peers -> SUBSET Nat]
  BY Zenon DEF BroadcastInv
<1>4. m.peer \in config.peers /\ m.batch \in Batch /\ m.ids \in SUBSET Nat
  BY ZenonT(30), <1>1, <1>3 DEF MessageOK, Request, Answer
<1>5. /\ received' \in [config.peers -> SUBSET Nat]
      /\ \A p \in config.peers : received[p] \subseteq received'[p]
      /\ ~full => m.ids \subseteq received'[m.peer]
  BY ZenonT(30), <1>3, <1>4 DEF process_transaction_broadcast
<1>6. Grows
  BY Zenon, <1>1, <1>5, SameIndexGrows
<1>7. /\ a.type = "Response" /\ a.peer = m.peer /\ a.batch = m.batch /\ a.retry = full
      /\ a \in Answer
  BY ZenonT(30), <1>4 DEF Answer
<1> HIDE DEF a
<1>8. /\ timeline_range(m.batch)' = timeline_range(m.batch)
      /\ timeline_range(m.batch) \subseteq m.ids /\ m.batch[2] < index.next
  BY Zenon, <1>1, <1>3 DEF MessageOK, timeline_range, Live
<1>9. (a \in Answer)'
  BY Zenon, <1>1, <1>7 DEF Answer
<1>10. MessageOK(a)'
  BY ZenonT(30), <1>1, <1>5, <1>7, <1>8, <1>9 DEF MessageOK
<1>11. \A r \in wire' : r \in wire \/ MessageOK(r)'
  BY Zenon, <1>2, <1>10
<1> QED BY Zenon, <1>1, <1>6, <1>11, InvariantKept DEF BroadcastInv

\* An acknowledgement arrives, perhaps after the connection it belongs to.
LEMMA ResponseKeeps == ASSUME BroadcastInv, NEW m \in wire, Response(m) PROVE BroadcastInv'
<1> DEFINE u == process_broadcast_ack(sync_states[m.peer], m.batch, m.retry)
<1>1. UNCHANGED <<config, index, received>> /\ wire' \subseteq wire /\ m.type = "Response"
  BY Zenon DEF Response, vars
<1>2. sync_states' = [p \in DOMAIN sync_states |-> IF p = m.peer THEN
          process_broadcast_ack(sync_states[p], m.batch, m.retry) ELSE sync_states[p]]
  BY Zenon DEF Response
<1>3. /\ DOMAIN sync_states' = DOMAIN sync_states
      /\ \A q \in DOMAIN sync_states' : q # m.peer => sync_states'[q] = sync_states[q]
      /\ m.peer \in DOMAIN sync_states => sync_states'[m.peer] = u
  BY Zenon, <1>2
<1> HIDE DEF u
<1>4. m.retry \in BOOLEAN /\ (~m.retry => timeline_range(m.batch) \subseteq received[m.peer])
  BY ZenonT(30), <1>1 DEF BroadcastInv, MessageOK, Request, Answer
<1>5. index.next \in Nat
  BY DEF BroadcastInv, IndexOK
<1>6. m.peer \in DOMAIN sync_states =>
        SyncStateOK(u, index.next) /\ Covered(u, received[m.peer], Live)
  BY Zenon, <1>4, <1>5, AckOK DEF BroadcastInv, u
<1>7. Grows
  BY Zenon, <1>1, SameIndexGrows DEF BroadcastInv
<1>8. DOMAIN sync_states' \subseteq config.peers
  BY Zenon, <1>3 DEF BroadcastInv
<1>9. \A q \in DOMAIN sync_states' :
         \/ q \in DOMAIN sync_states /\ sync_states'[q] = sync_states[q]
         \/ SyncStateOK(sync_states'[q], index.next) /\ Covered(sync_states'[q], received[q], Live)
  BY Zenon, <1>3, <1>6
<1> QED BY Zenon, <1>1, <1>7, <1>8, <1>9, InvariantKept
--------------------------------------------------------------------------------
\* The invariant holds, whatever the settings: ids are given out in order, a batch ends
\* where its peer has read to, and an acknowledgement is for what the peer has taken.
THEOREM BroadcastInvariant == SharedSpec => []BroadcastInv
<1>1. SharedInit => BroadcastInv
  <2> SUFFICES ASSUME SharedInit PROVE BroadcastInv
    BY Zenon
  <2>1. index.next = 1 /\ index.timeline = << >>
    BY Zenon DEF SharedInit
  <2>2. IndexOK
    BY <2>1 DEF IndexOK, Live
  <2>3. DOMAIN sync_states = {} /\ wire = {}
    BY DEF SharedInit
  <2>4. received \in [config.peers -> SUBSET Nat]
    BY DEF SharedInit
  <2> QED BY ZenonT(30), <2>2, <2>3, <2>4 DEF BroadcastInv
<1>2. BroadcastInv /\ [SharedNext]_shared_vars => BroadcastInv'
  <2> SUFFICES ASSUME BroadcastInv, [SharedNext]_shared_vars PROVE BroadcastInv'
    OBVIOUS
  <2>1. CASE Core
    BY Zenon, <2>1, CoreKeeps
  <2>2. ASSUME NEW p \in config.peers, NEW o \in Outcomes, NewPeer(p, o) PROVE BroadcastInv'
    BY Zenon, <2>2, NewPeerKeeps
  <2>3. ASSUME NEW p \in config.peers, LostPeer(p) PROVE BroadcastInv'
    BY Zenon, <2>3, LostPeerKeeps
  <2>4. ASSUME NEW p \in config.peers, NEW b \in BOOLEAN, NEW o \in Outcomes,
               ScheduledBroadcast(p, b, o)
        PROVE  BroadcastInv'
    BY Zenon, <2>4, ScheduledBroadcastKeeps
  <2>5. ASSUME NEW p, NEW b, AckTimeout(p, b) PROVE BroadcastInv'
    BY Zenon, <2>5, AckTimeoutKeeps
  <2>6. ASSUME NEW m \in wire, NEW full \in BOOLEAN, NEW l \in BOOLEAN,
               process_transaction_broadcast(m, full, l)
        PROVE  BroadcastInv'
    BY Zenon, <2>6, PeerKeeps
  <2>7. ASSUME NEW m \in wire, Response(m) PROVE BroadcastInv'
    BY Zenon, <2>7, ResponseKeeps
  <2>8. CASE UNCHANGED shared_vars
    <3>1. UNCHANGED <<config, index, sync_states, wire, received>>
      BY Zenon, <2>8 DEF shared_vars, vars, broadcast_vars
    <3>2. Grows
      BY Zenon, <3>1, SameIndexGrows DEF BroadcastInv
    <3> QED BY Zenon, <3>1, <3>2, InvariantKept DEF BroadcastInv
  <2> QED BY Zenon, <2>1, <2>2, <2>3, <2>4, <2>5, <2>6, <2>7, <2>8 DEF SharedNext
<1> QED BY <1>1, <1>2, PTL DEF SharedSpec

\* What a peer is past in the timeline it has taken, or it is in a batch that will be sent
\* again, for every number of peers, batch size and order of messages and time-outs.
THEOREM NothingIsEverSkipped == SharedSpec => []NothingIsSkipped
<1>1. BroadcastInv => NothingIsSkipped
  BY Zenon DEF BroadcastInv, Covered, Pending, NothingIsSkipped
<1> QED BY <1>1, BroadcastInvariant, PTL

\* What can be executed next is ready also while the timeline is broadcast: its steps and
\* messages leave the core mempool as it is.
THEOREM NextIsAlwaysReadyShared == SharedSpec => []NextIsReady
<1>1. SharedInit => MempoolInv
  BY Zenon, MempoolStarts DEF SharedInit
<1>2. [SharedNext]_shared_vars => [Next]_vars
  BY Zenon DEF SharedNext, shared_vars, Core, NewPeer, LostPeer, ScheduledBroadcast, AckTimeout,
     process_transaction_broadcast, Response
<1>3. MempoolInv /\ [SharedNext]_shared_vars => MempoolInv'
  BY Zenon, <1>2, MempoolStep
<1>4. MempoolInv => NextIsReady
  BY Zenon, InvariantIsReady
<1> QED BY <1>1, <1>3, <1>4, PTL DEF SharedSpec
================================================================================
