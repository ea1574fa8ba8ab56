# Formal models of Diem consensus

TLA+ models of the consensus of Diem and of the mempool that feeds it, translated
from the Rust code under `src/`, checked with TLC on small instances and, for most
of the safety properties, proved with TLAPS for every instance. `PROJECT.json` maps every definition to the lines it models and lists
components, runs, hazards, findings and theorems.

## 1. Inventory

A Diem validator is a set of components in one process that talk over channels;
validators talk over an authenticated network. Sizes are non-test Rust lines.

| Part | Where | Lines | Here |
|---|---|---|---|
| Consensus: safety rules, voting, block store, round and epoch management, decoupled execution | `consensus/` | 20k | the subject of this project |
| Execution | `execution/` | 6k | deterministic: a payload stands for its result |
| State sync | `state-sync/` | 17k | one call that moves the ledger or fails; not modelled itself |
| Mempool | `mempool/` | 4k | the core mempool and the broadcast to peers |
| Storage (DiemDB, Jellyfish Merkle tree, backup) | `storage/` | 28k | an atomic save; not modelled |
| Network (peer manager, connectivity, Noise) | `network/` | 19k | lost, repeated and reordered messages; not modelled itself |
| Secure storage and key manager | `secure/` | 6k | writes that fail, keys held |
| Types, config, crates | `types/`, `config/`, `crates/` | 57k | data; what consensus reads of it is in `Chain` and `VoterData` |
| Move language, VM, framework | `language/`, `diem-move/` | 216k | not modelled: sequential programs over unbounded data |
| JSON-RPC, REST API, SDK, test and developer tools | `json-rpc/`, `api/`, `sdk/`, `testsuite/`, `devtools/` | 35k | not modelled: I/O and formatting |

How the parts of consensus interact. `RoundManager` is one task. It takes
proposals, votes, sync infos and local timeouts from its queue; asks
`SafetyRules` (in the process, in a thread, or in another process) to sign; keeps
blocks and certificates in `BlockStore`, which writes them to the consensus DB
before its memory; and commits through `StateComputer`, which moves the ledger and
later, in a task of its own, calls back to prune the block tree. With decoupled
execution, `StateComputer` only passes ordered blocks on to `BufferManager`, which takes
them through execution, signing, aggregation of commit votes and persisting in tasks of
their own; `RoundManager` stops voting while that lags. `SafetyRules`
persists its `SafetyData` before a signature leaves it. A node that is far behind
fetches certified blocks from a peer, synchronizes its ledger and rebuilds its
tree. After a crash everything in memory is rebuilt from the consensus DB, the
ledger and the secure storage. Proposers draw transactions from the mempool, which
hears of commits and rejections from consensus and of submissions from clients and
peers, and broadcasts what it accepts to its upstream peers.

## 2. Modules

```
VotingRules   the pure rules            Chain   blocks as paths from genesis
     |  \________________                 |
     |                   \                |
 VoterData              Voting ----------- 
  |     \               /     \
  |   AtomicVoter  TwoChainBFT  ThreeChainBFT      CommitLog --implements--> Ledger
  |     ^               \           /                 |
SafetyRules          TwoChainLedger, ThreeChainLedger-'
                                                   BlockStore (on Chain, VotingRules)

PendingVotes <- RoundState <- RoundManager (on Chain, VotingRules)
BufferManager       Mempool <- SharedMempool
```

| Module | Models | State and actions |
|---|---|---|
| `Chain` | `Block`, `BlockData`, `QuorumCert` | A block id hashes the QC of its parent, so a block is the sequence of (round, payload) entries from genesis to it. |
| `VotingRules` | the checks and updates of `safety_rules.rs`, `safety_rules_2chain.rs` | Pure operators on a `SafetyData`, shared by all the models below. |
| `Voting` | every validator of an epoch, and what their votes certify | `safety[v]` is the persisted `SafetyData`; `votes` the votes ever sent. |
| `TwoChainBFT` | the 2-chain protocol | `VoteTwoChain`, `ResendVote`, `SignTimeoutWithQC`; timeout certificates are any that can be assembled. |
| `ThreeChainBFT` | the 3-chain protocol (the default) | votes with the preferred-round rule; timeouts carry no QC. What it has in common with `TwoChainBFT` carries the suffix `3Chain` (`Spec3Chain`), so that one module can speak of both. |
| `CommitLog` | the ordered root moved by `BlockStore::commit` at every node | `committed[n]` |
| `Ledger` | *abstract*: what consensus promises | each log grows at its end only; no two logs diverge |
| `TwoChainLedger`, `ThreeChainLedger` | a protocol composed with the block stores fed by its certificates | |
| `VoterData`, `SafetyRules` | one validator's `SafetyRules` over `PersistentSafetyStorage` | `store`, `waypoint`, `cache`, `signer`, `epoch_state`; one action per call and per point where `guarded_initialize` can stop; writes may fail with or without effect; restarts |
| `AtomicVoter` | *abstract*: what a `SafetyRules` promises to the protocol | one indivisible `SafetyData` |
| `BlockStore` | `BlockStore`, `BlockTree`, `sync_manager.rs`, `persistent_liveness_storage.rs` with coupled execution | consensus DB, ledger, tree, roots, certificates, queued callbacks; insert, commit, callback, fast-forward sync by its awaits, rebuild, restart |
| `PendingVotes` | `pending_votes.rs` | the votes of a round and the certificate that the next one completes: operators on `author_to_vote`, `partial_tc` |
| `RoundState` | `liveness/round_state.rs` | `current_round`, `vote_sent`, `pending_votes`: `process_certificates`, `record_vote` |
| `RoundManager` | every validator of an epoch as `round_manager.rs` drives it, with what it uses of `SyncInfo`, `BlockStore`, `SafetyRules` and the saved vote | `node[n]`, `msgs`; `Receive` (proposal, vote and sync info messages, with `sync_up` and a fetch that may fail half-way), `LocalTimeout`, `Restart` |
| `BufferManager` | `experimental/`: buffer, phases and `OrderingStateComputer` of some validators | `bm[n]` holds buffer, roots and queues; one action for each event of the manager and each request of a phase; syncs, epoch end, crash |
| `Mempool` | `core_mempool/` and the handlers of `shared_mempool/tasks.rs` | `mempool` (store, indexes, cache), DB and notifications; read of the sequence number, add, commit, notification, rejection, expiration; `get_block` as an operator |
| `SharedMempool` | `shared_mempool/`: coordinator, `tasks.rs`, `network.rs` on top of `Mempool` | `index` (the `TimelineIndex`), `sync_states`, `scheduled`, `wire`, `received`; peers found and lost, scheduled broadcasts, acknowledgements and their time-outs |
| `*Proofs`, `BufferManagerSteps` | theorems about the module they are named after (`ChainedBFTProofs`: both voting models and their ledgers); `BufferManagerSteps` holds the inductive invariant of `BufferManager` and the lemmas on operations | |
| `MC*` | instances for TLC | |

Names with `_Mutant` (and `insert_single_quorum_cert_Round`, `Kept_Children`) are
variants with a plausible bug; no specification uses them. They show that the
properties react to the code.

Abstractions common to all:

* Rounds are naturals; `next_round` fails at `u64::MAX`, which no run reaches.
* A message whose signatures do not verify changes nothing and is left out.
  Faulty validators are taken to have signed everything they could.
* In `RoundManager`, `BufferManager` and `Mempool` the variable `config` is chosen in
  `Init` and never changes: one run covers several settings.
* Messages are growing sets: lost, repeated, delayed and reordered ones are all
  covered. `Crashes` tells which validators may lose a signature after it was
  persisted, and in which rounds. `two_chain` has one honest validator that may do so in
  round 1, `three_chain` has none to keep the instance small, and the theorems hold for any.
* The voting models cover one epoch. `SafetyRules` covers several.
* Leaders and round timers are open in the voting models: any well-formed block on
  a certified parent may be proposed and a timeout may come at any time. This
  includes everything `RoundManager` can do.

`BlockStore` takes the certified blocks of the epoch as a constant that satisfies
what the protocol theorems guarantee (`CertsAssumption` states
`OneCertifiedPerRound` and `CommittedIsLocked`). A write to the DB followed by the
matching change in memory is one step, because a crash in between leaves what the
full step followed by a crash leaves. Handlers that await in between are several
steps. The executor accepts blocks that extend its ledger and commits on it; where it
returns an error to `commit` the code panics, which is a crash followed by a restart.
The order in which pruned blocks leave memory is left open. Where the code panics for a
block that is gone from the tree, the step is not there, and `Restart` stands for the
start after the panic.
Nothing keeps callbacks, syncs and rebuilds apart: a callback may be late for the tree it
was queued for, and a sync may fetch blocks the node has. Three history variables, which
no guard reads, record what the code does not survive, and properties except it:

* `late`: a callback queued before the tree was replaced has pruned the new one. It names
  a block the new tree lacks, so the walk spares nothing (`late_callback`). `RootsExist`,
  `CommitPathExists` and `NothingForgotten` are about trees this has not happened to.
* `unsaved`: blocks of the tree that the DB has lost or has no QC of. Such a callback
  deletes them; `rebuild` deletes those that are in the old tree and in the new one,
  which a sync to a block the node has leads to, since `need_sync_for_ledger_info` compares
  rounds only; and what an interrupted sync has saved may be joined to the tree at a
  restart by a block whose QC was never saved. `Recoverable` and `NothingForgotten` hold
  while none of them is at or above the ledger (`Saved`).
* `orphan`: an ordered cert found in the DB at a start without its block, which
  `SyncInfoIsValid` excepts (`sync_info`).

`RoundManager` keeps of the block store the blocks, the highest QC and the highest
timeout certificate. A handler runs to its end, awaits included, before the next event
of the same validator, as in `RoundManager::start`; a crash between signing, saving and
sending a vote is a `Restart` from an `Interrupted` state. `fetch_quorum_cert` inserts
the missing blocks from the oldest on, each after its QC, and may stop anywhere: the
arguments `fetched` and `refetched` say how far it got, and the round follows what was
inserted although `sync_up` returns the error. Validators follow the protocol: what
faulty ones can do to safety is in the voting models, and one that is silent is not in
`config.up`. A validator that is `sync_only` stays so in this model; `BufferManager` has
back pressure come and go.

In `BufferManager` a block is its place in the chain that gets ordered (agreement on it
is the subject of the voting models), an item is a batch of blocks, and a commit vote is
right or wrong for the result, execution being deterministic. The commit root of the
block store moves together with the ledger. `lost` and `stale` record two ways in which
the code gives up on blocks, which `NothingIsLost` and `EveryBlockIsPersisted` except:

* `lost`: a commit that fails in the persisting phase is dropped without notice, and a
  sync that fails after its reset does not push the ordered blocks again (a TODO in
  `ordering_state_computer.rs`).
* `stale`: a reset does not empty `block_rx`, so batches sent before it enter the buffer
  after it; if the executor does not know their parent they are never executed.

In `Mempool` a transaction is an account, a sequence number and a gas price; any
transaction may expire at any time, and the eviction takes the last transaction of any
parked account. Submissions overlap as the tasks of the `BoundedExecutor` do:
`workers_available` bounds how many different sequence numbers read in the DB are under
way, and those that have read the same count once. `raced` records accounts whose cached
sequence number was lost while an older one was on its way (a rejection removes the cache entry, also one of a lower
number): there the number can go back, a transaction can be ready and parked at once, and
`IndexesAgree`, `NextIsReady` and `EvictionSparesReady` except them. Two more things the
model shows and no property states: transactions parked by `gc` keep the timeline state
`Ready`, so that they are not broadcast again when they are promoted, and a transaction
that is submitted again with the same gas price is accepted without being promoted.

`SharedMempool` runs the coordinator on top of it. A batch is its `BatchId`, the range of
timeline ids it was read from; what leaves the mempool leaves the range. Messages to and
from a peer may be lost, be late, overtake each other and outlive the connection they were
sent on. `received` is what a peer has taken; its own mempool is left open but for being
full. The time to wait for an acknowledgement may be over at any time.

## 3. Runs

| Run | Question | Instance |
|---|---|---|
| `two_chain` | Is one block certified per round, is a committed block on every later certified branch, does a timeout carry the QC its author is bound to, do the logs implement `Ledger`? | 4 validators, 1 faulty, 1 that may crash in round 1, 3 rounds, 2 nodes; 316,615 states |
| `three_chain` | The same for the 3-chain protocol, with the preferred round | 4 rounds; 96,567 states |
| `safety_rules` | Does one validator's `SafetyRules`, with cache, failing storage, partial initialization and restarts, implement `AtomicVoter`? | a 3-chain and a 2-chain epoch, seven proposals; 109,788 states |
| `block_store` | Do the roots and the paths to commit exist, can the node always start from its DB, is nothing forgotten, do peers accept its SyncInfo, does the commit root follow the ordered root? | 7 rounds, a certified fork, lost proposals, a ring of one pruned block; 12,461 states |
| `round_manager` | Does the round follow the certificates, do certificates and rounds never go back, are certificates backed by quorums, can every round be timed out of, and is every round left? | 3 validators with 2, 1, 1 votes, up to 3 rounds of votes, both protocols, a validator down, syncing only or crashing; 138,040 states |
| `buffer_manager` | Is every item of the buffer driven on, do results fit their items, is nothing lost or persisted without a quorum, does every block get persisted? | 1 or 2 nodes among 3 validators, 1 faulty, chains of 2 or 3 blocks; 129,947 states |
| `mempool` | Do the indexes agree, is what can be executed next ready, are blocks executable and complete, do evictions spare what is ready, is no transaction skipped in the broadcast, does each reach every peer? | 1 or 2 accounts, up to 3 sequence numbers, 2 gas prices, capacities of 2 and 3; 1 or 2 submissions at a time; 1 or 2 peers, one fault; 106,527 states |
| `shared_stuck` | *violated*: a batch to be retried that has become empty blocks its peer | 1 peer, an account with 2 transactions, one of which is committed |
| `consensus_key` | *violated*: after an interrupted `initialize` the key of the previous epoch signs | the instance of `safety_rules` |
| `late_callback` | *violated*: a callback of the old tree deletes the root of the new one from the DB | blocks 2, 3, 5, 6; 3 commits 2, 6 commits 5 |
| `sync_fork` | *violated*: a sync whose target was committed off the path fetched | blocks 2, 3 and 4 on 2, 5 |
| `sync_info` | *violated*: a crash in a sync leaves a SyncInfo that peers reject | round 1 certified, one skipped round |

Bounds. Three rounds are the least in which a 2-chain commit and a rival
branch after it exist, four for the 3-chain; with one payload per round rival
blocks still arise from different parents. Four validators with
one faulty is the least with quorums that differ. Symmetry permutes validators with
the same role, payloads and nodes; no temporal property other than `LedgerSpec`
(a safety property) is checked under it. `safety_rules` has in each epoch proposals
that advance, repeat and regress the rounds the rules compare. `block_store` has
enough rounds for three commits after one another, one reached over a fork and one
over a timeout, so that a sync can start from every root but the last; `SyncGap` (ten in
the code) is two and `MaxPruned` (100) is one, so that both limits are met. In it `late`,
`unsaved` and `orphan` all come about, and each of them without the other two.

`round_manager` has one round with everybody up, or with one validator that only syncs,
and two rounds with one validator down (a vote with twice the power and any other are a
quorum), one that may crash, or the 3-chain protocol. Three more initial states
(`Round2`, `Round3` in `MCRoundManager`) are states in which a validator has a QC and
the others a timeout certificate of the same round; `Init` leads to them with everybody
up, and one validator stops there. They are given, because with three validators up two
rounds have too many states. `buffer_manager` has the least chains in which an item is
overtaken by a later one; `max_faults` bounds errors and crashes, and a `limit` of 0 or 1
makes back pressure act at once. `mempool` has capacities that two or three transactions
fill, and enough sequence numbers for a gap; its broadcasts have a setting with batches of
two and no fault, and settings with one fault and two messages or two peers. Two
submissions overlap in the settings with one account that has commits, where they can
read different numbers of it; elsewhere there is one at a time, to keep the instance small.

`CHECK_DEADLOCK FALSE`: rounds and epochs are bounded, so every instance comes to
an end that the system does not have. `round_manager` and `mempool` are checked for
deadlock.

The universe of `block_store` leaves out a sync over an off-path commit, which `sync_fork`
shows to fail; the other failures of the block store are in it, as the exceptions of
section 2. `PROJECT.json` quotes in "findings" what the code or its comments say instead.

Fairness.

* `BlockStore`: weak fairness of `CommitCallback`, the task spawned by
  `ExecutionProxy::new`, which takes the queued callbacks one by one for as long as the
  process lives. Crashes and failed syncs may recur for ever.
* `RoundManager`: weak fairness of `Repeated`, the timers of the validators that are up
  and the receipt of what a timer broadcasts. A timer is set again whenever it expires
  and repeats its broadcast as long as the round lasts, so the receipt of it is repeated
  too and succeeds at last. Nothing is assumed of proposals, plain votes and answers
  to lagging peers: `RoundsAdvance` holds if all of them get lost.
* `BufferManager`: the tasks of the pipeline run, a quorum that is not under back
  pressure orders blocks, and what is repeated arrives: commit votes that
  `retry_broadcasting_commit_votes` sends again, and ledger infos, which are in every
  `SyncInfo`. A single commit vote or decision may be lost.
* `SharedMempool`: timers fire, the coordinator takes its events, and lost peers connect
  again. Strong fairness of a scheduled broadcast that gets through and of a peer that
  accepts a batch and whose answer arrives: messages sent again and again are not all lost,
  and a peer is not full for ever. Losses of peers are bounded by `max_faults`. Nothing is
  assumed of the core mempool: transactions may come, be committed or stay.

Weak fairness of `RoundManager` and `BufferManager` is written with its enabling condition spelled out
(`[]<>~Enabled \/ []<><<A>>_vars`), which is the same formula and cheaper to check. The
other specifications state safety only.

## 4. Proofs

`tlapm` proves, for all sets of validators, quorums, payloads, nodes and bounds:

| Module | Theorems |
|---|---|
| `ChainedBFTProofs` | lemmas on naturals, rounds, parents and ancestors, on what a step of `Voting` changes, that two quorums share an honest voter, and that committing blocks that lie on one chain is a step of `Ledger`; 2-chain: `TypeCorrect`, `TimeoutsCover`, `CertificatesUnique`, `TwoChainSafety`, `LedgerRefinement`; 3-chain: `TypeCorrect3Chain`, `PreferredKept`, `CertificatesUnique3Chain`, `ThreeChainSafety`, `LedgerRefinement3Chain` |
| `BlockStoreProofs` | lemmas on paths and on what is committed; `StoreInvariant`, `TypeCorrect`, `RootsAlwaysExist`, `CommitPathAlwaysExists`, `SyncInfoStaysValid`, `NothingIsForgotten`, with callbacks, syncs and restarts in any order |
| `RoundManagerProofs` | the inductive invariant of `RoundManager`; lemmas on starting a round, inserting certificates and syncing up, and on the handlers; `TypeCorrect`, `RoundFollowsCertificates`, `NothingGoesBack`, `EveryRoundCanTimeOut`, `CertificatesBacked` |
| `BufferManagerSteps` | the inductive invariant of `BufferManager`; lemmas on finding items, moving the roots, popping and appending, and on the handlers of responses, votes and decisions |
| `BufferManagerProofs` | lemmas on ordering, the phases, resets, syncs and the end of an epoch; `Invariant`, `RootsDriven`, `ResultsFitItems`, `NothingLost`, `PersistsOnlyCertified` |
| `SafetyRulesProofs` | `TypeCorrect`, `CacheIsCoherent`, `EpochStaysWithinWaypoint`, `SentStaysPersisted`, `OneVotePerRound`, `SecondRuleIsKept`, `ProposalsAboveSent`, `Refinement` |
| `MempoolProofs` | lemmas on removing, promoting, committing, inserting and caching; `NextIsAlwaysReady` |
| `SharedMempoolProofs` | lemmas on batches and acknowledgements; `BroadcastInvariant`, `NothingIsEverSkipped`, and `NextIsAlwaysReadyShared` from `MempoolProofs` |

Assumptions. `QuorumAssumption`: any two quorums have an honest validator in
common, which is what more than 2/3 of the voting power gives when less than 1/3 is
faulty. `FaultyAssumption`, `MaxRoundAssumption` and `InputAssumption` (the inputs of
`SafetyRules` have their types, and an input QC is below the proposal's round) fix
types. `CertsAssumption` and `BlocksAssumption` of `BlockStore` say of the certified
blocks what `CertificatesUnique` and `TwoChainSafety` (or their 3-chain forms) prove of
those the protocol certifies, and `LimitAssumption` that bounds and the commit rule have their types.
`ConfigAssumption` of `Mempool` says that settings have their types and no more.
TLC evaluates each assumption on every run.

The argument for the 2-chain protocol. `CommittedIsLocked` is not inductive: it
speaks of certified blocks, and a step adds one vote. The inductive invariant `IndInv`
says of each voter what its persisted data remembers: the data covers every message
sent (`DataCoversMessages`), each vote was on a QC of the round before or on a timeout
certificate whose highest QC is not above the block's (`VotesAreSafe`), there is one vote
per round, and a timeout carries a QC as high as those its author voted on before
(`TimeoutCoversVotes`, `TimeoutCoversLastVote`). The theorem then takes a block
committed by a QC of the next round and, of the certified blocks that do not extend it,
one of lowest round. Its parent is certified, so either it extends the block already
or its round is below. In the second case the block was justified by a timeout
certificate; a quorum of timeouts and the quorum that certified the child share an
honest validator, whose timeout carried a QC at least as high as the committed block's,
which contradicts the rule of the vote. In the 3-chain protocol `PreferredRoundIsKept` takes the
place of the timeouts.

`LedgerRefinement` follows: commit proofs name certified blocks, the lower of two
is an ancestor of the higher, hence `Commit` is `Extend` or a stutter.

`BlockStore` has three invariants. `StoreInv` is about the memory. `RootsExist` and
`CommitPathExists` are not inductive: whether a callback that prunes the tree leaves a
path from the ordered root up depends on what the callbacks behind it will do. `StoreInv` says that
whatever is a root, is queued for a callback or is to be committed again is a committed
block (`CommittedOK`); by `CertsAssumption` committed blocks lie on one chain, so that
their rounds tell which is the ancestor, and it is enough to order rounds: commit root,
ordered root, ledger, highest QC (`RoundsOK`), and the callbacks in their order, up to the
ordered root, from the commit root on if they are for blocks of the tree (`CallbacksOK`).
All this survives late callbacks. `TreeOK`, that what descends from the commit root is
linked to it by blocks of the tree and not yet pruned, does not, and is asserted while
`late` is false. The lemma on `CommitCallback` is the heart of it: `find_blocks_to_prune`
spares the new root's descendants, and all later callbacks of the tree are for such.

`OrderedOK` is for `SyncInfoIsValid`, whose first part compares rounds of certified blocks
where the code compares rounds of committed ones. The ordered cert commits as much as any
QC of the tree, what is ordered and what `try_commit` has left; it is below the highest
QC when it is inserted, and after a recovery if its block is in the tree. It needs nothing
of the tree and holds with late callbacks too.

`StoredInv` adds the DB for `NothingForgotten`, which compares a tree with one rebuilt
after a crash: while `late` is false, all that is above the commit root is in the DB or in
`unsaved` (`DbOK`), so that with `Saved` all from the ledger to the highest QC is found.

`Mempool` and `SharedMempool` are proved apart. `NextIsReady` speaks of accounts with a
cached number for which every commit was notified. That it survives a submission which has
read an old number, a notification that comes late and the loss of the cached number
takes `AccountOK` of every account that is not `raced`. With a cached number, the number
lies between the last notification and the DB; either a notification is still to come, or
nothing is below it and what can be executed from it is ready. Without one, what can be
executed after the last notification is ready and no submission under way has read an
older number. The operations on the store are summed up by what they do to the
transactions, the priority index and the cache (`Removed`, `Keeps`, `Advances`,
`CacheSet`), so that the parking lot, which they fold over, stays out of the proof.
`BroadcastInv` has for `NothingIsSkipped` that timeline ids are given out in order
(`IndexOK`), that the batches of a peer end where it has read to (`SyncStateOK`), that
what it is past is taken or pending (`Covered`, the property itself), and, of the
messages, that a request was for ids given out before and carries all that are still in
the timeline, and that an acceptance is of what the peer has taken (`MessageOK`): an
acknowledgement that is late, repeated or of an earlier connection removes a batch only if
all of it has arrived.

`SafetyRules` needs two invariants. `Storage`: types, the cache equals the store when
present, and the epoch does not pass the waypoint. `History`: what the validator has
signed is `Recorded`, the messages sent and the stored last vote, which may have been persisted
without being sent; the persisted rounds cover it, and it obeys both rules. Without
the stored vote the invariant is not inductive, because a failed write may have taken
effect and the vote is handed out later.

`RoundManager` asks nothing of the quorums; `ConfigAssumption` says only that the settings
have their types and that validators and NIL are payloads. `RoundIsHighest`,
`CanTimeOut` and the rest are not inductive alone. `IInv` adds what links a validator to
its messages. Of each validator `NodeOK` says that its certificates are backed by votes
sent (`CertsOK`), for the QC and for the blocks it extends, since a fetch that fails
half-way leaves the QC of an ancestor (`ChainBacked`); that the timeout certificate's
highest QC is not above the QC held; that what `SafetyRules` have signed is of the current
round or before and on certificates that are held (`SafetyOK`); and that the votes sent,
saved and pending are of the round they should be (`SentOK`, `ParentsOK`, `PendingOK`).
Of each message `MsgOK` says that it is of the round its `SyncInfo` leads to. A handler
is cut where certificates have been inserted and the round has not started
(`NodeBase`), so that `StartRoundOK` closes all handlers in the same way; `HandleOK`,
`LocalTimeoutOK` and `RestartedOK` give for each event an `OutcomeOK`: the state again
satisfies `NodeOK`, what is sent satisfies `MsgOK`, and nothing went back. That stale
messages are dropped is what saves `insert_timeout_certificate`, which compares the
certificate with one of the other kind: the proof of `NothingGoesBack` uses it there.

`BufferManager` asks as little: its `ConfigAssumption` says that settings have their types
and that quorums are sets of validators, not that they intersect. The four properties are
one invariant, because each needs the others: that a root is the first item to be
executed needs that items are executed in order, which needs that an execution result
only meets the item it was computed for, and so on. `Inv` says of each validator that the
requests to persist, the buffer and `block_rx` follow each other (`InSequence`) and cover
what is between ledger and order (`Covered`, `Ahead`); that items are executed in order
(`Prefix`); that the requests and answers of execution, late ones from before a reset
included, are of nothing beyond the first item to be executed and of the same blocks as
the item they find (`Fits`); that a sync is to a block that was not ordered
(`SyncAhead`); that signatures kept for an executed item are right ones and sent by their
authors (`SigsBacked`), as are those of decisions and requests to persist. `ResultsFit`
alone is not inductive: it speaks of the head of a queue and of the item it finds
now, whereas an answer far behind in the queue may meet an item that is ordered later.
`LedgerBehind` was found by a proof that failed: without it a block ordered after a sync
could be one the ledger is past. The roots are kept apart from the rest (`Sound`): an
operation that pops or fills the buffer leaves a root 0 which the next operation of the
same handler sets, so handlers are proved as sequences of lemmas on operations
(`HeadAdvanced`, `FillExecutionRoot`, `FillSigningRoot`), and `NodeOK` holds at their ends.

Only model-checked:

* liveness (`OrderedReachesCommitRoot`, `RoundsAdvance`, `EveryBlockIsPersisted`,
  `SharedUnlessStuck`): fairness and ENABLED are out of the prover's reach;
* of `Mempool` `IndexesAgree`, `EvictionSparesReady` and `BlockIsExecutable`: the first two
  rest on the parking lot, which `process_ready_transactions`, `gc` and a clean-up fill and
  empty one transaction after the other, and `get_block` is a loop over the priority queue.
  What these folds give needs induction over data;
* `Recoverable` of `BlockStore`: it fails for some certified blocks (`sync_fork`), so it is
  no theorem for every value of the constants, and `block_store` shows it for one universe
  of blocks that leaves this case out.

No module uses RECURSIVE operators.

The voting models assume of each validator what `AtomicVoter` states, and
`SafetyRules` is proved to implement it. `AtomicVoter` and `TwoChainBFT`, `ThreeChainBFT`
use the same operators of `VotingRules`; that connection is by construction and is not
itself a theorem.

## 5. Not modelled

`PROJECT.json` lists every component with its reason, and the hazards that no property
covers.

Of the 380k lines of the repository the Move language, its VM, framework and tools are
more than half: compilers, a verifier and interpreters, sequential programs over
unbounded data whose correctness is a matter of semantics and of tests, not of
interleavings of few actors. Storage (Jellyfish Merkle tree, accumulators, backup) is
algorithms over hashes and files; types, configuration, generated code, clients, REST and
JSON-RPC servers, test and developer tools are data, formatting and I/O. Nothing of these
can be modelled faithfully in a small state machine. The models here therefore
cover a small share of the lines: those that decide on agreement, durability and progress.

Not modelled in the parts that are:

* `EpochManager`: the dispatch of messages by epoch and the retrieval of epoch proofs.
  The protocol models cover one epoch, `SafetyRules` several.
* The duration of rounds, proposer election by reputation and payload limits: timers may
  expire at any time and any function from rounds to proposers is covered.
* That the votes of `RoundManager` are steps of `TwoChainBFT` and `ThreeChainBFT`: both
  use the operators of `VotingRules`, and the voting models admit any order of proposals,
  votes and timeouts, but the refinement is not stated.
* Accounts with conflict-resistant nonces in the mempool, and transactions received from
  peers, which are submissions that do not enter the timeline.
* At the end of an epoch in the pipeline: batches after the block that ends the epoch are
  executed again and again, although a comment says that execution pauses, and validators
  whose batches have different ends may vote for different blocks. The model has both;
  `EveryBlockIsPersisted` is stated for settings without an end of epoch.
* State sync, the network stack, the executor and secure storage appear only through
  their effects: calls that succeed or fail, messages lost, repeated and reordered,
  deterministic results, writes that fail.
