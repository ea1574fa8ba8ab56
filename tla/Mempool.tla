-------------------------------- MODULE Mempool --------------------------------
(***************************************************************************)
(* The core mempool of a node: transactions by account and sequence        *)
(* number, the priority index that consensus draws blocks from, the        *)
(* timeline that is broadcast to peers and the parking lot of transactions *)
(* that are not ready.  The mempool is locked by each of its operations;   *)
(* a submission reads the sequence number of the account in the DB before  *)
(* it takes the lock, and the chain goes on in the meantime.               *)
(*                                                                         *)
(* A transaction is <<account, sequence number>> and a gas price, which    *)
(* stands for its ranking score; clients choose expiration times, so that  *)
(* any transactions may expire.  The indexes by expiration time and hash   *)
(* are always those of the transactions stored and are not kept.           *)
(* Accounts have sequence numbers, not conflict-resistant nonces.          *)
(***************************************************************************)
EXTENDS Naturals, Sequences, FiniteSets, SequencesExt, FiniteSetsExt, Functions

CONSTANT
    Configs             \* the settings below to choose from

VARIABLES
    config,             \* the setting; it never changes
    mempool,            \* the Mempool
    db,                 \* [accounts -> next sequence number in the DB]
    notified,           \* [accounts -> the one after the last commit notification]
    inflight,           \* what the submissions under way have read in the DB
    raced               \* accounts whose cached number was lost and may have gone back

vars == <<config, mempool, db, notified, inflight, raced>>

\* accounts are numbers, ordered as addresses are; max_seq, max_gas and max_commits (of
\* an account) are bounds.  The fields from peers on are for SharedMempool.
Config == [accounts : SUBSET Nat, max_seq : Nat, max_gas : Nat, max_commits : Nat,
           capacity : Nat, capacity_per_user : Nat, workers_available : Nat,
           peers : SUBSET Nat, is_validator : BOOLEAN, default_failovers : Nat,
           shared_mempool_batch_size : Nat \ {0}, max_broadcasts_per_peer : Nat \ {0},
           max_id : Nat, max_faults : Nat, max_wire : Nat]

ASSUME ConfigAssumption == Configs \subseteq Config

Pointers == config.accounts \X (0..config.max_seq)

\* A TimelineState; the position of a Ready one in the timeline is left out.
TimelineState == {"Ready", "NotReady", "NonQualified"}

Ordered(S) == SetToSortSeq(S, LAMBDA p, q : p[1] < q[1] \/ (p[1] = q[1] /\ p[2] < q[2]))
--------------------------------------------------------------------------------
\* ParkingLotIndex.

NewParkingLot == [data |-> << >>, account_indices |-> << >>, size |-> 0]

park(l, p) ==
    LET i == l.account_indices[p[1]]
    IN  IF p[1] \notin DOMAIN l.account_indices
        THEN [data |-> Append(l.data, [account |-> p[1], txns |-> {p[2]}]),
              account_indices |-> [a \in DOMAIN l.account_indices \cup {p[1]} |->
                  IF a = p[1] THEN Len(l.data) + 1 ELSE l.account_indices[a]],
              size |-> l.size + 1]
        ELSE [l EXCEPT !.data[i].txns = @ \cup {p[2]},
                       !.size = IF p[2] \in l.data[i].txns THEN @ ELSE @ + 1]

\* Vec::swap_remove.
swap_remove(data, i) ==
    [j \in 1..(Len(data) - 1) |-> IF j = i THEN Last(data) ELSE data[j]]

unpark_Mutant(l, p) ==
    LET i == l.account_indices[p[1]]
    IN  IF p[1] \notin DOMAIN l.account_indices THEN l
        ELSE IF l.data[i].txns = {p[2]}
        THEN [data |-> swap_remove(l.data, i),
              account_indices |-> Restrict(l.account_indices, DOMAIN l.account_indices \ {p[1]}),
              size |-> l.size - 1]
        ELSE [l EXCEPT !.data[i].txns = @ \ {p[2]},
                       !.size = IF p[2] \in l.data[i].txns THEN @ - 1 ELSE @]

unpark(l, p) ==
    LET i == l.account_indices[p[1]]
        data == swap_remove(l.data, i)
    IN  IF p[1] \notin DOMAIN l.account_indices THEN l
        ELSE IF l.data[i].txns = {p[2]}
        THEN [data |-> data,
              account_indices |-> [a \in DOMAIN l.account_indices \ {p[1]} |->
                  IF i <= Len(data) /\ data[i].account = a THEN i ELSE l.account_indices[a]],
              size |-> l.size - 1]
        ELSE [l EXCEPT !.data[i].txns = @ \ {p[2]},
                       !.size = IF p[2] \in l.data[i].txns THEN @ - 1 ELSE @]

unpark_each(l, P) == FoldLeft(unpark, l, Ordered(P))

park_each(l, P) == FoldLeft(park, l, Ordered(P))

\* gc, for each expired transaction, parks what follows it up to the next expired one
\* and takes it out.
gc_each(l, expired, follows) ==
    LET Between(e) == {p \in follows \ expired : p[1] = e[1] /\ p[2] > e[2]
                         /\ \A q \in expired : q[1] = e[1] /\ q[2] > e[2] => p[2] < q[2]}
        Collected(k, e) == unpark(park_each(k, Between(e)), e)
    IN  FoldLeft(Collected, l, Ordered(expired))

\* What get_poppable may return: of some account the last transaction parked.
get_poppable_Mutant(m) ==
    {p \in DOMAIN m.txns : \A q \in DOMAIN m.txns : q[1] = p[1] => q[2] <= p[2]}

get_poppable(m) ==
    {<<m.parking.data[i].account, Max(m.parking.data[i].txns)>> : i \in DOMAIN m.parking.data}
--------------------------------------------------------------------------------
\* TransactionStore.

\* txns maps the transactions stored to their gas price and timeline state, cache is
\* sequence_number_cache.
NewMempool == [txns |-> << >>, priority |-> {}, timeline |-> {}, parking |-> NewParkingLot,
               cache |-> << >>]

\* Removal of a transaction from the store and all indexes.
index_remove(m, p) ==
    [m EXCEPT !.txns = Restrict(@, DOMAIN @ \ {p}), !.priority = @ \ {p},
              !.timeline = @ \ {p}, !.parking = unpark(@, p)]

remove_each(m, P) ==
    [m EXCEPT !.txns = Restrict(@, DOMAIN @ \ P), !.priority = @ \ P,
              !.timeline = @ \ P, !.parking = unpark_each(@, P)]

process_ready_transactions(m, a, seq) ==
    LET ready == {p \in DOMAIN m.txns :
                    p[1] = a /\ p[2] >= seq /\ \A s \in seq..p[2] : <<a, s>> \in DOMAIN m.txns}
        end == seq + Cardinality(ready)
        broadcast == {p \in ready : m.txns[p].state = "NotReady"}
        parked == {p \in DOMAIN m.txns : p[1] = a /\ p[2] > end /\ m.txns[p].state # "Ready"}
    IN  [m EXCEPT
          !.txns = [p \in DOMAIN @ |-> IF p \in broadcast THEN [@[p] EXCEPT !.state = "Ready"]
                                       ELSE @[p]],
          !.priority = @ \cup ready,
          !.timeline = @ \cup broadcast,
          !.parking = park_each(unpark_each(@, ready), parked)]

clean_committed_transactions(m, a, seq) ==
    remove_each(m, {p \in DOMAIN m.txns : p[1] = a /\ p[2] < seq})

commit_transaction_Mutant(m, a, seq) == clean_committed_transactions(m, a, seq)

commit_transaction(m, a, seq) ==
    process_ready_transactions(clean_committed_transactions(m, a, seq), a, seq)

reject_transaction(m, a) == remove_each(m, {p \in DOMAIN m.txns : p[1] = a})

check_txn_ready(m, p, seq) ==
    \/ p[2] = seq
    \/ /\ p[2] > 0 /\ <<p[1], p[2] - 1>> \in DOMAIN m.txns
       /\ m.txns[<<p[1], p[2] - 1>>].state = "Ready"

Size(m) == Cardinality(DOMAIN m.txns)

\* check_is_full_after_eviction: the states after the eviction, if there is one.
Evicted(m, p, seq) ==
    IF Size(m) >= config.capacity /\ check_txn_ready(m, p, seq) /\ get_poppable(m) # {}
    THEN {index_remove(m, q) : q \in get_poppable(m)}
    ELSE {m}

\* The rest of insert, once it has room.
Inserted(m, p, txn, seq) ==
    LET c == clean_committed_transactions(m, p[1], seq)
        new == [q \in DOMAIN c.txns \cup {p} |-> IF q = p THEN txn ELSE c.txns[q]]
    IN  IF Cardinality({q \in DOMAIN c.txns : q[1] = p[1]}) >= config.capacity_per_user THEN c
        ELSE process_ready_transactions([c EXCEPT !.txns = new], p[1], seq)

\* insert: a higher gas price updates a transaction, anything else that is stored stays.
insert(m, p, txn, seq) ==
    IF p \in DOMAIN m.txns /\ m.txns[p].gas >= txn.gas THEN {m}
    ELSE {IF Size(e) >= config.capacity THEN e ELSE Inserted(e, p, txn, seq) :
            e \in Evicted(IF p \in DOMAIN m.txns THEN index_remove(m, p) ELSE m, p, seq)}

\* gc of expired transactions: in each account those after an expired one are parked.
gc(m, expired) ==
    LET follows == {p \in DOMAIN m.txns : \E q \in expired : q[1] = p[1] /\ q[2] <= p[2]}
    IN  [m EXCEPT !.txns = Restrict(@, DOMAIN @ \ expired), !.priority = @ \ follows,
                  !.timeline = @ \ follows, !.parking = gc_each(@, expired, follows)]
--------------------------------------------------------------------------------
\* Mempool.

Cached(m, a) == IF a \in DOMAIN m.cache THEN m.cache[a] ELSE 0

Cache(m, a, seq) ==
    [m EXCEPT !.cache = [b \in DOMAIN @ \cup {a} |-> IF b = a THEN seq ELSE @[b]]]

Uncache(m, A) == [m EXCEPT !.cache = Restrict(@, DOMAIN @ \ A)]

\* add_txn with the sequence number read in the DB.
add_txn(m, p, txn, db_seq) ==
    LET seq == Max({Cached(m, p[1]), db_seq})
        c == Cache(m, p[1], seq)
    IN  IF p[2] < seq THEN {c} ELSE insert(c, p, txn, seq)

remove_transaction(m, p, is_rejected) ==
    LET seq == Max({Cached(m, p[1]), p[2] + 1})
    IN  IF ~is_rejected THEN commit_transaction(Cache(m, p[1], seq), p[1], seq)
        ELSE IF p[2] >= Cached(m, p[1]) THEN reject_transaction(Uncache(m, {p[1]}), p[1])
        ELSE Uncache(m, {p[1]})

\* get_block: include a transaction that is next, or after one that was seen.
is_next_Mutant(m, p, seen) == p[1] \in DOMAIN m.cache /\ m.cache[p[1]] <= p[2]

is_next(m, p, seen) ==
    \/ p[2] > 0 /\ <<p[1], p[2] - 1>> \in seen
    \/ p[1] \in DOMAIN m.cache /\ m.cache[p[1]] = p[2]

\* The step of the loop for one transaction, and the ones skipped before that follow it.
Visit(m, batch_size, b, p) ==
    LET follow == {q \in b.skipped : q[1] = p[1] /\ q[2] > p[2] /\
                     \A s \in (p[2] + 1)..q[2] : <<p[1], s>> \in b.skipped}
        room == batch_size - Len(b.result)
        taken == SubSeq(<<p>> \o Ordered(follow), 1, Min({room, Cardinality(follow) + 1}))
    IN  IF room = 0 \/ p \in b.seen THEN b
        ELSE IF is_next(m, p, b.seen)
        THEN [b EXCEPT !.seen = @ \cup ToSet(taken), !.result = @ \o taken]
        ELSE [b EXCEPT !.skipped = @ \cup {p}]

get_block(m, queue, batch_size, seen) ==
    FoldLeft(LAMBDA b, p : Visit(m, batch_size, b, p),
             [seen |-> seen, skipped |-> {}, result |-> << >>], queue).result
--------------------------------------------------------------------------------
\* Steps.

Becomes(m) == mempool' = m /\ UNCHANGED <<config, db>>

\* The cached number of an account is lost while a submission under way has read, or a
\* notification to come will tell, an older one.
Lost(A) ==
    raced' = raced \cup {a \in A \cap DOMAIN mempool.cache :
        \/ notified[a] < mempool.cache[a]
        \/ \E t \in inflight : t.account = a /\ t.db_seq < mempool.cache[a]}

\* process_incoming_transactions: the sequence number is read, and the transaction is
\* validated, before the mempool is locked.  The BoundedExecutor runs several at once;
\* submissions that have read the same are one element of inflight.
Submit(a) ==
    /\ Cardinality(inflight) < config.workers_available
    /\ inflight' = inflight \cup {[account |-> a, db_seq |-> db[a]]}
    /\ UNCHANGED <<config, mempool, db, notified, raced>>

\* The transaction is too old or not valid.
Discard(t) ==
    /\ inflight' = inflight \ {t}
    /\ UNCHANGED <<config, mempool, db, notified, raced>>

Add(t, p, txn) ==
    /\ p[1] = t.account /\ p[2] >= t.db_seq
    /\ \/ inflight' = inflight \ {t}
       \/ inflight' = inflight /\ config.workers_available > 1
    /\ \E m \in add_txn(mempool, p, txn, t.db_seq) : Becomes(m)
    /\ UNCHANGED <<notified, raced>>

\* The chain commits a transaction, of this mempool or not.
ChainCommits(a) ==
    /\ db[a] < config.max_commits
    /\ db' = [db EXCEPT ![a] = @ + 1]
    /\ UNCHANGED <<config, mempool, notified, inflight, raced>>

\* process_committed_transactions: the notification, and what has expired.
Notify(a, expired) ==
    /\ notified[a] < db[a]
    /\ notified' = [notified EXCEPT ![a] = @ + 1]
    /\ LET m == remove_transaction(mempool, <<a, notified[a]>>, FALSE)
       IN  Becomes(gc(m, expired \cap DOMAIN m.txns))
    /\ UNCHANGED <<inflight, raced>>

\* RejectNotification of a transaction that an execution has discarded.
Reject(p) ==
    /\ Becomes(remove_transaction(mempool, p, TRUE))
    /\ Lost({p[1]})
    /\ UNCHANGED <<notified, inflight>>

\* Periodic gc, gc before a GetBlockRequest, and the oldest entries of a full cache.
GC(expired, A) ==
    /\ Becomes(Uncache(gc(mempool, expired), A))
    /\ Lost(A)
    /\ UNCHANGED <<notified, inflight>>

Init ==
    /\ config \in Configs
    /\ mempool = NewMempool
    /\ db = [a \in config.accounts |-> 0]
    /\ notified = [a \in config.accounts |-> 0]
    /\ inflight = {}
    /\ raced = {}

Adds ==
    \E t \in inflight, p \in Pointers, g \in 1..config.max_gas,
       s \in {"NotReady", "NonQualified"} : Add(t, p, [gas |-> g, state |-> s])

Next ==
    \/ \E a \in config.accounts : Submit(a)
    \/ \E t \in inflight : Discard(t)
    \/ Adds
    \/ \E a \in config.accounts : ChainCommits(a)
    \/ \E a \in config.accounts, E \in SUBSET DOMAIN mempool.txns : Notify(a, E)
    \/ \E p \in Pointers : Reject(p)
    \/ \E E \in SUBSET DOMAIN mempool.txns, A \in SUBSET DOMAIN mempool.cache : GC(E, A)

Spec == Init /\ [][Next]_vars
--------------------------------------------------------------------------------
\* Properties.

\* Every transaction stored is in the priority index or in the parking lot, and in both
\* only if the cached number of its account has gone back; the timeline holds only ready
\* ones; the mempool respects its capacities; and the parking lot keeps its "DS
\* invariants" although removals move its entries around.
IndexesAgree ==
    LET m == mempool
        l == m.parking
        parked == UNION {{<<l.data[i].account, s>> : s \in l.data[i].txns} : i \in DOMAIN l.data}
    IN  /\ DOMAIN m.txns = m.priority \cup parked
        /\ \A p \in m.priority \cap parked : p[1] \in raced
        /\ \A p \in m.timeline : p \in m.priority /\ m.txns[p].state = "Ready"
        /\ Size(m) <= config.capacity
        /\ \A a \in config.accounts :
             Cardinality({p \in DOMAIN m.txns : p[1] = a}) <= config.capacity_per_user
        /\ l.size = Cardinality(parked)
        /\ \A i \in DOMAIN l.data : l.data[i].txns # {}
        /\ DOMAIN l.account_indices = {l.data[i].account : i \in DOMAIN l.data}
        /\ \A a \in DOMAIN l.account_indices :
             \E i \in DOMAIN l.data : l.account_indices[a] = i /\ l.data[i].account = a

\* Once the mempool knows of the last commit of an account, no transaction that can be
\* executed next is left in the parking lot, wherever the sequence number came from: a
\* submission, which may have read an old one, a notification or the cache.  The
\* exception is an account whose cached number has gone back.
NextIsReady == \A a \in DOMAIN mempool.cache \ raced :
    notified[a] = db[a] =>
        \A s \in mempool.cache[a]..config.max_seq :
            (\A q \in mempool.cache[a]..s : <<a, q>> \in DOMAIN mempool.txns)
                => <<a, s>> \in mempool.priority

\* The queues that the priority index may be: by gas price, ties in any order.
Queues ==
    LET P == mempool.priority
    IN  {q \in [1..Cardinality(P) -> P] :
           /\ \A i, j \in DOMAIN q : i < j =>
                q[i] # q[j] /\ mempool.txns[q[i]].gas >= mempool.txns[q[j]].gas}

\* Transactions of pending blocks are after those known to be committed.
SeenBy(k) == {p \in Pointers : notified[p[1]] <= p[2] /\ p[2] < k[p[1]]}

\* A block drawn for consensus has the transactions of an account in the order of their
\* sequence numbers, after the cached number or one of a pending block and without gaps
\* or repetitions, although the queue is by gas price; and it leaves no such
\* transaction out while there is room.
BlockIsExecutable ==
  \A k \in [config.accounts -> 0..config.max_seq], n \in 1..config.capacity, queue \in Queues :
    LET seen == SeenBy(k)
        block == get_block(mempool, queue, n, seen)
        rest == mempool.priority \ seen
        starts == {p \in rest : \/ p[1] \in DOMAIN mempool.cache /\ mempool.cache[p[1]] = p[2]
                                \/ \E q \in seen : q[1] = p[1] /\ q[2] + 1 = p[2]}
        fits == {p \in rest : \E q \in starts : q[1] = p[1] /\ q[2] <= p[2] /\
                                \A s \in q[2]..p[2] : <<p[1], s>> \in rest}
        Before(i) == {block[j] : j \in 1..(i - 1)}
    IN  /\ ToSet(block) \subseteq fits
        /\ Len(block) = Min({n, Cardinality(fits)})
        /\ \A i \in DOMAIN block :
             /\ block[i] \notin Before(i)
             /\ block[i] \in starts \/ <<block[i][1], block[i][2] - 1>> \in Before(i)

\* To make room for a transaction the mempool never drops one that is ready: an Add leaves
\* the priority index as it is, but for transactions that have been committed and for
\* accounts whose cached number has gone back.
EvictionSparesReady ==
    [][\A p \in mempool.priority :
         \/ p \in mempool'.priority
         \/ p[1] \in raced
         \/ Adds => p[2] < mempool'.cache[p[1]]]_vars
================================================================================
