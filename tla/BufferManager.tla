----------------------------- MODULE BufferManager -----------------------------
(***************************************************************************)
(* Decoupled execution: the BufferManager of a validator takes blocks that *)
(* are ordered through execution, signing, aggregation of commit votes and *)
(* persisting, each in a task of its own.                                  *)
(*                                                                         *)
(* The blocks of the epoch that get ordered are a chain; a block is its    *)
(* place in it, and an item of the buffer is the batch of blocks first to  *)
(* last that one commit of the block store ordered.  Execution is          *)
(* deterministic, so that a commit vote is right or wrong ("ok").  The     *)
(* channels between the tasks are queues.  The handlers of a BufferManager *)
(* run one at a time and are operators from its state to its state.        *)
(*                                                                         *)
(* Validators that are not modelled may vote and decide as they like; the  *)
(* Faulty ones also vote for results that are wrong.                       *)
(***************************************************************************)
EXTENDS Naturals, Sequences, FiniteSets, FiniteSetsExt

CONSTANTS
    Validator,
    Quorum,       \* sets of validators with quorum voting power
    Faulty,
    Configs       \* the settings below to choose from

VARIABLES
    config,       \* the setting; it never changes
    chain,        \* the last block ordered by some validator
    bm,           \* [config.nodes -> state of the validator]
    votes,        \* commit votes broadcast by the nodes
    decided,      \* commit proofs of blocks persisted by the nodes
    faults        \* errors and crashes so far

vars == <<config, chain, bm, votes, decided, faults>>

\* nodes: the validators modelled; max_block: bound on the chain; reconfig: the block
\* that ends the epoch, or 0; limit: back_pressure_limit, in blocks; max_faults: bound on
\* errors of the phases, failed syncs and crashes.
Config == [nodes : SUBSET Validator, max_block : Nat, reconfig : Nat, limit : Nat,
           max_faults : Nat]

ASSUME ConfigAssumption ==
    /\ Configs \subseteq Config
    /\ Faulty \subseteq Validator
    /\ Quorum \subseteq SUBSET Validator

\* Signatures are of an author and right or wrong for the result of the block.
Authors(sigs) == {g.author : g \in sigs}

check_voting_power(S) == \E Q \in Quorum : Q \subseteq S

\* OrderedItem, ExecutedItem, SignedItem; an aggregated item leaves the buffer at once.
Stage == {"Ordered", "Executed", "Signed"}

\* The state at a start with blocks up to ledger persisted: ordered is the last block
\* ordered by the block store, block_rx the batches it sent, execution_root and
\* signing_root are blocks or 0, executed is the last block the executor holds a result
\* of, ledger the last one persisted or synced to (with the commit root of the block
\* store) and syncing the target of a sync, or 0.  Two facts are recorded: lost says
\* that blocks were dropped and not persisted, stale that a reset overtook batches in
\* block_rx, which it stays until a reset finds neither those nor requests to persist.
NewNode(ledger) ==
    [ordered |-> ledger, block_rx |-> << >>, buffer |-> << >>, execution_root |-> 0,
     signing_root |-> 0, exec_req |-> << >>, exec_resp |-> << >>, signing |-> << >>,
     persisting |-> << >>, executed |-> ledger, ledger |-> ledger, syncing |-> 0,
     lost |-> FALSE, stale |-> FALSE, stop |-> FALSE]
--------------------------------------------------------------------------------
\* The buffer.

\* The index of the item with a key, or 0; keys are the ids of the last blocks.
Index(s, key) ==
    LET I == {i \in 1..Len(s.buffer) : s.buffer[i].last = key}
    IN  IF I = {} THEN 0 ELSE Min(I)

\* The same for an item that is not prior to the cursor.
find_elem_by_key_Mutant(s, cursor, key) == Index(s, key)

find_elem_by_key(s, cursor, key) ==
    IF cursor # 0 /\ Index(s, key) >= Index(s, cursor) THEN Index(s, key) ELSE 0

\* The index of the first item in a stage that is not prior to the cursor or, if that
\* is None, to the head.
find_elem_from(s, cursor, stage) ==
    LET from == IF cursor = 0 THEN 1 ELSE Index(s, cursor)
        I == {i \in 1..Len(s.buffer) : from > 0 /\ i >= from /\ s.buffer[i].stage = stage}
    IN  IF I = {} THEN 0 ELSE Min(I)

advance_execution_root(s) ==
    LET i == find_elem_from(s, s.execution_root, "Ordered")
        item == s.buffer[i]
    IN  IF i = 0 THEN [s EXCEPT !.execution_root = 0]
        ELSE [s EXCEPT !.execution_root = item.last,
                       !.exec_req = Append(@, [first |-> item.first, last |-> item.last])]

advance_signing_root(s) ==
    LET i == find_elem_from(s, s.signing_root, "Executed")
    IN  IF i = 0 THEN [s EXCEPT !.signing_root = 0]
        ELSE [s EXCEPT !.signing_root = s.buffer[i].last,
                       !.signing = Append(@, s.buffer[i].last)]

IfNone(root, advanced, s) == IF root = 0 THEN advanced ELSE s

\* advance_head to the item at index i, which is aggregated, with the signatures of its
\* proof: the blocks from first on are persisted; computed says that each has its result.
AdvanceHead(s, i, first, proof) ==
    LET popped == {s.buffer[j].last : j \in 1..i}
        request == [first |-> first, last |-> s.buffer[i].last, proof |-> proof,
                    computed |-> \A j \in 1..(i - 1) : s.buffer[j].stage # "Ordered"]
        Cleared(root) == IF root \in popped THEN 0 ELSE root
    IN  [s EXCEPT !.buffer = SubSeq(@, i + 1, Len(@)),
                  !.execution_root = Cleared(@),
                  !.signing_root = Cleared(@),
                  !.persisting = Append(@, request)]

advance_head_Mutant(s, i, proof) == AdvanceHead(s, i, s.buffer[i].first, proof)

advance_head(s, i, proof) == AdvanceHead(s, i, s.buffer[1].first, proof)

\* process_reset_request.
process_reset_request(s, stop) ==
    [s EXCEPT !.buffer = << >>, !.execution_root = 0, !.signing_root = 0, !.stop = stop]
--------------------------------------------------------------------------------
\* The handlers.

process_ordered_blocks(s, batch) ==
    LET item == [first |-> batch.first, last |-> batch.last, stage |-> "Ordered", sigs |-> {}]
        t == [s EXCEPT !.buffer = Append(@, item)]
    IN  IfNone(t.execution_root, advance_execution_root(t), t)

\* advance_to_executed_or_aggregated: the signatures that came before the result are
\* verified against it.
Aggregate_Mutant(sigs) == sigs

Aggregate(sigs) == {g \in sigs : g.ok}

Executed(s, i) ==
    LET valid == Aggregate(s.buffer[i].sigs)
    IN  IF check_voting_power(Authors(valid))
        THEN advance_head(s, i, valid)
        ELSE [s EXCEPT !.buffer[i].stage = "Executed", !.buffer[i].sigs = valid]

is_reconfiguration_suffix(b) == config.reconfig > 0 /\ b > config.reconfig

process_execution_response_Mutant(s, resp) ==
    LET i == find_elem_by_key(s, s.execution_root, resp.last)
        u == advance_execution_root(Executed(s, i))
    IN  IF i = 0 \/ ~resp.ok \/ is_reconfiguration_suffix(resp.first) THEN s
        ELSE IfNone(u.signing_root, advance_signing_root(u), u)

process_execution_response(s, resp) ==
    LET i == find_elem_by_key(s, s.execution_root, resp.last)
        t == IF i = 0 \/ ~resp.ok \/ is_reconfiguration_suffix(resp.first)
             THEN s ELSE Executed(s, i)
        u == advance_execution_root(t)
    IN  IfNone(u.signing_root, advance_signing_root(u), u)

\* The item, if any, that the response signs.
ToSign(s, last, ok) ==
    LET i == find_elem_by_key(s, s.signing_root, last)
    IN  {j \in {i} : j > 0 /\ ok /\ s.buffer[j].stage = "Executed"}

process_signing_response(s, last, ok) ==
    advance_signing_root(
        [s EXCEPT !.buffer = [i \in DOMAIN @ |->
            IF i \in ToSign(s, last, ok) THEN [@[i] EXCEPT !.stage = "Signed"] ELSE @[i]]])

\* What start() does once an item has been aggregated.
AfterAggregation(s) ==
    LET t == IfNone(s.execution_root, advance_execution_root(s), s)
    IN  IfNone(t.signing_root, advance_signing_root(t), t)

\* process_commit_message on a vote: kept unverified until the item is executed, one
\* for each author.
process_commit_vote(s, v) ==
    LET i == Index(s, v.block)
        item == s.buffer[i]
        sigs == {g \in item.sigs : g.author # v.author} \cup {[author |-> v.author, ok |-> v.ok]}
        matched == item.stage = "Ordered" \/ v.ok
    IN  IF i = 0 \/ ~matched THEN s
        ELSE IF item.stage # "Ordered" /\ check_voting_power(Authors(sigs))
        THEN AfterAggregation(advance_head(s, i, sigs))
        ELSE [s EXCEPT !.buffer[i].sigs = sigs]

\* process_commit_message on a commit decision.
process_commit_decision(s, d) ==
    LET i == Index(s, d.block)
    IN  IF i = 0 THEN s
        ELSE IF s.buffer[i].stage = "Ordered"
        THEN [s EXCEPT !.buffer[i].sigs = d.proof]
        ELSE AfterAggregation(advance_head(s, i, d.proof))
--------------------------------------------------------------------------------
\* Steps.

Becomes(n, s) == bm' = [bm EXCEPT ![n] = s]

Running(n) == ~bm[n].stop

\* sync_only by back pressure: the validator does not vote.
back_pressure(n) == bm[n].ordered > config.limit + bm[n].ledger

\* The validators order a block; those that are not modelled are never under pressure.
MayExtend ==
    /\ chain < config.max_block
    /\ \E Q \in Quorum : \A n \in Q \cap config.nodes : Running(n) /\ ~back_pressure(n)

Extend ==
    /\ MayExtend
    /\ chain' = chain + 1
    /\ UNCHANGED <<config, bm, votes, decided, faults>>

\* The block store of n is not in the middle of a sync.
InOrder(n) == Running(n) /\ bm[n].syncing = 0

\* BlockStore::commit passes on what it learns to be ordered, through the channel of
\* OrderingStateComputer::commit.
Order(n, last) ==
    /\ InOrder(n) /\ last \in (bm[n].ordered + 1)..chain
    /\ LET batch == [first |-> bm[n].ordered + 1, last |-> last]
       IN  Becomes(n, [bm[n] EXCEPT !.block_rx = Append(@, batch), !.ordered = last])
    /\ UNCHANGED <<config, chain, votes, decided, faults>>

OrderedBlocks(n) ==
    /\ Running(n) /\ bm[n].block_rx # << >>
    /\ Becomes(n, process_ordered_blocks([bm[n] EXCEPT !.block_rx = Tail(@)],
                                         Head(bm[n].block_rx)))
    /\ UNCHANGED <<config, chain, votes, decided, faults>>

\* ExecutionPhase: the parent has to be known to the executor, whose root has another
\* id once the epoch-ending block is persisted.
CanExecute(s, req) ==
    /\ req.first - 1 \in s.ledger..s.executed
    /\ ~(config.reconfig > 0 /\ s.ledger >= config.reconfig)

Faults(ok) == faults' = faults + (IF ok THEN 0 ELSE 1) /\ faults' <= config.max_faults

ExecuteRequest(n, ok) ==
    /\ bm[n].exec_req # << >>
    /\ LET s == bm[n]
           req == Head(s.exec_req)
           done == ok /\ CanExecute(s, req)
       IN  Becomes(n, [s EXCEPT !.exec_req = Tail(@),
                !.exec_resp = Append(@, [first |-> req.first, last |-> req.last, ok |-> done]),
                !.executed = IF done THEN Max({@, req.last}) ELSE @])
    /\ Faults(ok)
    /\ UNCHANGED <<config, chain, votes, decided>>

ExecutionResponse(n) ==
    /\ Running(n) /\ bm[n].exec_resp # << >>
    /\ Becomes(n, process_execution_response([bm[n] EXCEPT !.exec_resp = Tail(@)],
                                             Head(bm[n].exec_resp)))
    /\ UNCHANGED <<config, chain, votes, decided, faults>>

\* SigningPhase and the handler of its response, which broadcasts the vote.
SigningResponse(n, ok) ==
    /\ Running(n) /\ bm[n].signing # << >>
    /\ LET last == Head(bm[n].signing)
           s == [bm[n] EXCEPT !.signing = Tail(@)]
       IN  /\ Becomes(n, process_signing_response(s, last, ok))
           /\ votes' = votes \cup {[author |-> n, block |-> last, ok |-> TRUE] :
                                      i \in ToSign(s, last, ok)}
    /\ Faults(ok)
    /\ UNCHANGED <<config, chain, decided>>

PeerVotes == {v \in [author : Validator \ config.nodes, block : 1..chain, ok : BOOLEAN] :
                v.ok \/ v.author \in Faulty}

CommitVote(n, v) ==
    /\ Running(n)
    /\ Becomes(n, process_commit_vote(bm[n], v))
    /\ UNCHANGED <<config, chain, votes, decided, faults>>

PeerDecisions ==
    [block : 1..chain,
     proof : {[author : Q, ok : {TRUE}] : Q \in {P \in Quorum : P \cap config.nodes = {}}}]

\* sync_to_highest_commit_cert: the ledger info of a SyncInfo is passed on if its block is
\* between the roots of the block store.
sync_to_highest_commit_cert_Mutant(s, d) == d.block > s.ledger /\ d.block < s.ordered

sync_to_highest_commit_cert(s, d) == d.block > s.ledger /\ d.block <= s.ordered

CommitDecision(n, d) ==
    /\ InOrder(n)
    /\ sync_to_highest_commit_cert(bm[n], d)
    /\ Becomes(n, process_commit_decision(bm[n], d))
    /\ UNCHANGED <<config, chain, votes, decided, faults>>

\* PersistingPhase; nobody is told of an error of commit.
Persist(n, ok) ==
    /\ bm[n].persisting # << >>
    /\ LET s == bm[n]
           p == Head(s.persisting)
           done == ok /\ p.first = s.ledger + 1 /\ p.last <= s.executed
       IN  /\ Becomes(n, [s EXCEPT !.persisting = Tail(@),
                            !.ledger = IF done THEN p.last ELSE @,
                            !.lost = @ \/ (~done /\ p.last > s.ledger)])
           /\ decided' = IF done THEN decided \cup {[block |-> p.last, proof |-> p.proof]}
                         ELSE decided
    /\ Faults(ok)
    /\ UNCHANGED <<config, chain, votes>>

\* OrderingStateComputer::sync_to, for a ledger info beyond what can be in the buffer:
\* the reset that it waits for.
SyncTo(n, d) ==
    /\ InOrder(n)
    /\ bm[n].ordered + config.limit < d.block
    /\ LET s == bm[n]
       IN  Becomes(n, [process_reset_request(s, FALSE) EXCEPT
                         !.syncing = d.block,
                         !.lost = @ \/ s.buffer # << >>,
                         !.stale = s.block_rx # << >> \/ (@ /\ s.persisting # << >>)])
    /\ UNCHANGED <<config, chain, votes, decided, faults>>

\* The rest of it: state sync, which refuses a target before the ledger, and reset of the
\* executor.  The block store is rebuilt from the ledger unless the sync failed.
SyncDone(n, ok) ==
    /\ Running(n) /\ bm[n].syncing # 0
    /\ LET s == [bm[n] EXCEPT !.syncing = 0]
           T == bm[n].syncing
       IN  Becomes(n, IF ok /\ T >= s.ledger
             THEN [s EXCEPT !.ledger = T, !.executed = T, !.ordered = T, !.lost = FALSE]
             ELSE [s EXCEPT !.executed = s.ledger])
    /\ Faults(ok)
    /\ UNCHANGED <<config, chain, votes, decided>>

EndsEpoch(block) == config.reconfig > 0 /\ block >= config.reconfig

\* EpochManager::initiate_new_epoch: sync_to the ledger info that ends the epoch.
initiate_new_epoch(n, d) ==
    /\ Running(n) /\ EndsEpoch(d.block) /\ d.block > bm[n].ledger
    /\ Becomes(n, [bm[n] EXCEPT !.ledger = d.block, !.executed = d.block])
    /\ UNCHANGED <<config, chain, votes, decided, faults>>

\* EpochManager::shutdown_current_processor, after the notification of the new epoch.
Shutdown(n) ==
    /\ InOrder(n) /\ EndsEpoch(bm[n].ledger)
    /\ Becomes(n, process_reset_request(bm[n], TRUE))
    /\ UNCHANGED <<config, chain, votes, decided, faults>>

\* A crash: the ledger is what is left, and the block store orders again what follows.
Restart(n) ==
    /\ Running(n) /\ ~EndsEpoch(bm[n].ledger)
    /\ Becomes(n, NewNode(bm[n].ledger))
    /\ Faults(FALSE)
    /\ UNCHANGED <<config, chain, votes, decided>>

Init ==
    /\ config \in Configs
    /\ chain = 0
    /\ bm = [n \in config.nodes |-> NewNode(0)]
    /\ votes = {} /\ decided = {}
    /\ faults = 0

\* retry_broadcasting_commit_votes: the votes of the items that n has signed, from the
\* head to the first item that it has not.
retry_broadcasting_commit_votes(n) ==
    LET b == bm[n].buffer
        I == {i \in 1..Len(b) : \A j \in 1..i : b[j].stage = "Signed"}
    IN  {[author |-> n, block |-> b[i].last, ok |-> TRUE] : i \in I}

\* What reaches n at last: votes that are broadcast again and again, those of correct
\* peers for the last block among them, and the ledger info of the last block that a
\* node persisted, which is in each of its messages.
RepeatedVotes ==
    UNION {retry_broadcasting_commit_votes(m) : m \in config.nodes}
        \cup {v \in PeerVotes : v.author \notin Faulty /\ v.block = chain}

RepeatedDecisions == {d \in decided : \E m \in config.nodes : bm[m].ledger = d.block}

Repeated(n) ==
    \/ \E v \in RepeatedVotes : CommitVote(n, v)
    \/ \E d \in RepeatedDecisions : CommitDecision(n, d)

\* The steps of the tasks.
Manager(n) ==
    \/ OrderedBlocks(n)
    \/ ExecutionResponse(n)
    \/ \E ok \in BOOLEAN : SigningResponse(n, ok) \/ SyncDone(n, ok)

ExecutionPhase(n) == \E ok \in BOOLEAN : ExecuteRequest(n, ok)

PersistingPhase(n) == \E ok \in BOOLEAN : Persist(n, ok)

Next ==
    \/ Extend
    \/ \E n \in config.nodes :
        \/ \E last \in 1..chain : Order(n, last)
        \/ Manager(n) \/ ExecutionPhase(n) \/ PersistingPhase(n)
        \/ \E v \in votes \cup PeerVotes : CommitVote(n, v)
        \/ \E d \in decided \cup PeerDecisions :
             CommitDecision(n, d) \/ SyncTo(n, d) \/ initiate_new_epoch(n, d)
        \/ Shutdown(n)
        \/ Restart(n)

\* When the steps of n can change the state.
HasEvent(n) ==
    /\ Running(n)
    /\ bm[n].block_rx \o bm[n].exec_resp \o bm[n].signing # << >> \/ bm[n].syncing # 0

MayOrder(n) == InOrder(n) /\ bm[n].ordered < chain

MayReceive(n) ==
    \/ Running(n) /\ \E v \in RepeatedVotes : process_commit_vote(bm[n], v) # bm[n]
    \/ InOrder(n) /\ \E d \in RepeatedDecisions :
         /\ sync_to_highest_commit_cert(bm[n], d)
         /\ process_commit_decision(bm[n], d) # bm[n]

\* Weak fairness: the tasks run, rounds go on, and what is repeated arrives.
Fairness ==
    /\ []<>~MayExtend \/ []<><<Extend>>_vars
    /\ \A n \in Validator :
        LET Not(P) == n \in config.nodes => ~P
        IN  /\ []<>Not(HasEvent(n)) \/ []<><<Manager(n)>>_vars
            /\ []<>Not(bm[n].exec_req # << >>) \/ []<><<ExecutionPhase(n)>>_vars
            /\ []<>Not(bm[n].persisting # << >>) \/ []<><<PersistingPhase(n)>>_vars
            /\ []<>Not(MayOrder(n)) \/ []<><<Order(n, chain)>>_vars
            /\ []<>Not(MayReceive(n)) \/ []<><<Repeated(n)>>_vars

Spec == Init /\ [][Next]_vars /\ Fairness
--------------------------------------------------------------------------------
\* Properties.

First(s, stage) == LET i == find_elem_from(s, 0, stage) IN IF i = 0 THEN 0 ELSE s.buffer[i].last

\* The roots are the first item to execute and the first to sign, whatever late, repeated
\* or failed responses came after resets and aggregations, and a request for each is in
\* the queues: nothing in the buffer is forgotten.
RootsAreDriven == \A n \in config.nodes :
    LET s == bm[n]
        requested == {s.exec_req[i].last : i \in DOMAIN s.exec_req} \cup
                     {s.exec_resp[i].last : i \in DOMAIN s.exec_resp}
    IN  /\ s.execution_root = First(s, "Ordered")
        /\ s.signing_root = First(s, "Executed")
        /\ s.execution_root # 0 => s.execution_root \in requested
        /\ s.signing_root # 0 => \E i \in DOMAIN s.signing : s.signing[i] = s.signing_root

\* The asserts, unwraps and panics of the handlers of execution responses do not fire:
\* a result that finds an item is the result of exactly the blocks of that item, which
\* has not been executed before.
ResultsFit == \A n \in config.nodes :
    LET s == bm[n]
    IN  Running(n) /\ s.exec_resp # << >> =>
          LET resp == Head(s.exec_resp)
              i == find_elem_by_key(s, s.execution_root, resp.last)
          IN  i > 0 => s.buffer[i].stage = "Ordered" /\ s.buffer[i].first = resp.first

\* The requests to persist, then the buffer and block_rx, hold each block once and in order,
\* whatever was aggregated before what precedes it, and every block after the ledger up to
\* the last one ordered, unless the code lost it, by a failed commit or the reset of a sync
\* that failed, or the epoch is over.  What the ledger is past has left the buffer, and no
\* request to persist is half done, unless a reset overtook batches in block_rx.
NothingIsLost == \A n \in config.nodes :
    LET s == bm[n]
        items == s.persisting \o s.buffer \o s.block_rx
    IN  /\ \A i, j \in DOMAIN items : i < j => items[i].last < items[j].first
        /\ \/ s.lost \/ EndsEpoch(s.ledger)
           \/ \A b \in (s.ledger + 1)..s.ordered :
                \E i \in DOMAIN items : b \in items[i].first..items[i].last
        /\ \/ s.stale \/ EndsEpoch(s.ledger)
           \/ \A i \in DOMAIN items : i > Len(s.persisting) \/ items[i].last > s.ledger =>
                items[i].first > s.ledger

\* What is persisted has been executed, every block of it, and its proof consists of
\* right votes of a quorum: unverified signatures and those of faulty validators are
\* not counted.
PersistsCertified == \A n \in config.nodes : \A i \in DOMAIN bm[n].persisting :
    LET p == bm[n].persisting[i]
    IN  /\ p.computed
        /\ check_voting_power(Authors(p.proof))
        /\ \A g \in p.proof :
             g.ok /\ (g.author \in config.nodes =>
                       [author |-> g.author, block |-> p.last, ok |-> TRUE] \in votes)

\* Every block is ordered and persisted by every node, although votes get lost and a node
\* does not repeat its vote once it has aggregated the block, and although back pressure
\* stops the validators from voting.
EveryBlockIsPersisted ==
    config.reconfig = 0 =>
        <>[](\/ \A n \in config.nodes : bm[n].ledger = config.max_block
             \/ \E n \in config.nodes : bm[n].lost \/ bm[n].stale)
================================================================================
