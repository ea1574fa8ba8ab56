------------------------------ MODULE BlockStore -------------------------------
(***************************************************************************)
(* The block store of one node with coupled execution: the block tree in   *)
(* memory, the consensus DB behind it, the ledger of the node, and the     *)
(* commit callbacks that run in a task of their own.                       *)
(*                                                                         *)
(* A quorum certificate is named by the block it certifies.  The           *)
(* certificates that come to exist are a constant that satisfies what the  *)
(* voting rules guarantee (modules TwoChainBFT, ThreeChainBFT).  The       *)
(* genesis block of the epoch is made up from the ledger when it is        *)
(* needed, so it counts as stored.                                         *)
(*                                                                         *)
(* RoundManager is one task: it is idle, or in the middle of fast-forward  *)
(* sync, or of try_commit.  A handler that stops half-way (a block cannot  *)
(* be retrieved or executed) is one that took the first of its steps only. *)
(***************************************************************************)
EXTENDS Chain, VotingRules, FiniteSetsExt

CONSTANTS
    TwoChain,        \* the commit rule of the epoch
    Certs,           \* the blocks certified in the epoch
    Blocks,          \* the blocks proposed in it
    SyncGap,         \* back_pressure_limit: how far behind a node syncs its ledger
    MaxPruned        \* max_pruned_blocks_in_mem

\* BlockInfo::empty(), of round 0.
NoBlock == <<[round |-> 0]>>

\* commit_info of the QC of block b.
commit_info(b) ==
    CASE b = Genesis -> Genesis
      [] b # Genesis /\ TwoChain /\ commits_2chain(round(b), qc_round(b)) -> parent(b)
      [] b # Genesis /\ ~TwoChain /\ commits_3chain(round(b), qc_round(b), qc_parent_round(b))
             -> parent(parent(b))
      [] OTHER -> NoBlock

\* OneCertifiedPerRound and CommittedIsLocked of the protocol modules.
ASSUME CertsAssumption ==
    /\ Genesis \in Certs /\ Certs \subseteq Block
    /\ \A b \in Certs \ {Genesis} : parent(b) \in Certs /\ qc_round(b) < round(b)
    /\ \A b, c \in Certs : round(b) = round(c) => b = c
    /\ \A b, c \in Certs :
        commit_info(b) # NoBlock /\ round(c) >= round(commit_info(b))
            => IsAncestor(commit_info(b), c)

ASSUME BlocksAssumption ==
    /\ Certs \subseteq Blocks
    /\ \A b \in Blocks \ Certs : b \in Block /\ parent(b) \in Certs /\ qc_round(b) < round(b)

ASSUME LimitAssumption == SyncGap \in Nat /\ MaxPruned \in Nat /\ TwoChain \in BOOLEAN

VARIABLES
    db_blocks, db_qcs,    \* the consensus DB
    ledger,               \* the last block committed in DiemDB
    tree, qcs,            \* id_to_block and id_to_quorum_cert
    ordered_root, commit_root,
    highest_certified,    \* highest_certified_block_id, with highest_quorum_cert
    highest_ordered,      \* the block certified by highest_ordered_cert
    pruned,               \* pruned_block_ids
    callbacks,            \* commit callbacks the notifier task has not run
    sync,                 \* fast-forward sync under way, and its target
    recommit,             \* what try_commit has left to commit
    \* History, in no guard:
    late,                 \* a callback of an earlier tree has pruned the tree
    unsaved,              \* blocks of the tree that the DB lost, or has no QC of
    orphan                \* highest_ordered, where the DB had that QC without its block

history == <<late, unsaved, orphan>>
db == <<db_blocks, db_qcs>>
roots == <<ordered_root, commit_root, highest_certified, highest_ordered>>
vars == <<db, ledger, tree, qcs, roots, pruned, callbacks, sync, recommit, history>>

NoSync == [step |-> "none", target |-> Genesis]

Init ==
    /\ db_blocks = {} /\ db_qcs = {}
    /\ ledger = Genesis
    /\ tree = {Genesis} /\ qcs = {Genesis}
    /\ ordered_root = Genesis /\ commit_root = Genesis
    /\ highest_certified = Genesis /\ highest_ordered = Genesis
    /\ pruned = {} /\ callbacks = << >>
    /\ sync = NoSync /\ recommit = {}
    /\ late = FALSE /\ unsaved = {} /\ orphan = NoBlock

\* RoundManager may begin a handler; each reads ordered_root(), which panics when
\* the block is gone.  A panic ends the process: then there is only Restart.
Idle == sync = NoSync /\ recommit = {} /\ ordered_root \in tree

\* The blocks after a up to its descendant b.
Path(a, b) == {SubSeq(b, 1, k) : k \in (Len(a) + 1)..Len(b)}

\* path_from_root_to_block: b is reached from a through blocks of S.
Reaches(a, b, S) == IsAncestor(a, b) /\ Path(a, b) \subseteq S
--------------------------------------------------------------------------------
\* Commit.

\* Mutant: the notification is dropped.
commit_Mutant(b) ==
    /\ b \in tree
    /\ Reaches(ordered_root, b, tree)
    /\ IsAncestor(ledger, b)
    /\ ledger' = b
    /\ callbacks' = callbacks
    /\ ordered_root' = b

\* BlockStore::commit: the blocks go to the ledger, the callback to the notifier.
\* The executor accepts blocks on its ledger, or a retry; an error is a panic.
commit(b) ==
    /\ b \in tree
    /\ Reaches(ordered_root, b, tree)
    /\ IsAncestor(ledger, b)
    /\ ledger' = b
    /\ callbacks' = Append(callbacks, b)
    /\ ordered_root' = b

\* One round of the loop in try_commit, which goes by rounds.
TryCommit ==
    /\ \E b \in recommit :
        /\ \A c \in recommit : round(b) <= round(c)
        /\ commit(b)
        /\ recommit' = recommit \ {b}
    /\ UNCHANGED <<db, tree, qcs, commit_root, highest_certified, highest_ordered, pruned, sync,
                   history>>

\* Mutant: the walk enters the new root.
find_blocks_to_prune_Mutant(next_root) ==
    IF next_root = commit_root THEN {} ELSE {b \in tree : Reaches(commit_root, b, tree)}

\* find_blocks_to_prune: what the walk from the commit root finds without
\* entering next_root.
find_blocks_to_prune(next_root) ==
    IF next_root = commit_root THEN {}
    ELSE {b \in tree : /\ Reaches(commit_root, b, tree)
                       /\ ~(IsAncestor(commit_root, next_root) /\ IsAncestor(next_root, b))}

\* commit_callback, with the deletion in the DB failing or not.  Pruned blocks stay
\* in memory until there are more than MaxPruned of them; nothing here depends on
\* the order in which they leave.  The callback of a block that was committed
\* before the tree was replaced finds the new tree, and the walk spares nothing.
CommitCallback ==
    /\ callbacks # << >>
    /\ commit_root \in tree
    /\ LET b    == Head(callbacks)
           dead == find_blocks_to_prune(b)
       IN  /\ \/ db_blocks' = db_blocks \ dead /\ db_qcs' = db_qcs \ dead
              \/ dead # {} /\ UNCHANGED db
           /\ \E gone \in kSubset(MaxOf(Cardinality(pruned \cup dead), MaxPruned) - MaxPruned,
                                pruned \cup dead) :
                /\ pruned' = (pruned \cup dead) \ gone
                /\ tree' = tree \ gone
                /\ qcs' = qcs \ gone
           /\ commit_root' = IF round(b) > round(commit_root) THEN b ELSE commit_root
           /\ commit_root' # commit_root => b \in tree'
           /\ late' = (late \/ b \notin tree)
           /\ unsaved' = IF b \in tree \/ db' = db THEN unsaved ELSE unsaved \cup dead
           /\ orphan' = orphan
    /\ callbacks' = Tail(callbacks)
    /\ UNCHANGED <<ledger, ordered_root, highest_certified, highest_ordered, sync, recommit>>
--------------------------------------------------------------------------------
\* Blocks and certificates.

\* execute_and_insert_block, for a proposal or a block fetched for a QC, once the
\* caller has inserted the QC in the block.  The executor knows the blocks above
\* the ledger only.
InsertBlock(b) ==
    /\ Idle
    /\ b \notin tree
    /\ round(b) > round(ordered_root)
    /\ parent(b) \in tree \cap qcs
    /\ IsAncestor(ledger, parent(b))
    /\ db_blocks' = db_blocks \cup {b}
    /\ tree' = tree \cup {b}
    /\ UNCHANGED <<db_qcs, ledger, qcs, roots, pruned, callbacks, sync, recommit, history>>

\* Mutant: the highest ordered cert holds the block it commits.
insert_single_quorum_cert_Mutant(c) ==
    /\ {c, highest_certified} \subseteq tree
    /\ db_qcs' = db_qcs \cup {c}
    /\ qcs' = qcs \cup {c}
    /\ highest_certified' = IF round(c) > round(highest_certified) THEN c ELSE highest_certified
    /\ highest_ordered' = commit_info(c)

\* Mutant: the highest ordered cert is chosen by the round of the certified block.
insert_single_quorum_cert_Round(c) ==
    /\ {c, highest_certified} \subseteq tree
    /\ db_qcs' = db_qcs \cup {c}
    /\ qcs' = qcs \cup {c}
    /\ highest_certified' = IF round(c) > round(highest_certified) THEN c ELSE highest_certified
    /\ highest_ordered' = IF round(c) > round(highest_ordered) THEN c ELSE highest_ordered

\* insert_single_quorum_cert.
insert_single_quorum_cert(c) ==
    /\ {c, highest_certified} \subseteq tree
    /\ db_qcs' = db_qcs \cup {c}
    /\ qcs' = qcs \cup {c}
    /\ highest_certified' = IF round(c) > round(highest_certified) THEN c ELSE highest_certified
    /\ highest_ordered' = IF round(commit_info(c)) > round(commit_info(highest_ordered))
                          THEN c ELSE highest_ordered

\* fetch_quorum_cert, the QC of a fetched block.
InsertFetchedQC(c) ==
    /\ Idle
    /\ round(c) >= round(ordered_root)
    /\ insert_single_quorum_cert(c)
    /\ UNCHANGED <<db_blocks, ledger, tree, ordered_root, commit_root, pruned, callbacks,
                   sync, recommit, history>>

\* insert_quorum_cert once the block is there: the QC is inserted unless known,
\* and what it commits is committed unless it is not above the ordered root.
InsertQuorumCert(c) ==
    /\ Idle
    /\ round(c) >= round(ordered_root)
    /\ IF c \in qcs THEN UNCHANGED <<db_qcs, qcs, highest_certified, highest_ordered>>
                    ELSE insert_single_quorum_cert(c)
    /\ round(commit_info(c)) > round(ordered_root)
    /\ commit(commit_info(c))
    /\ UNCHANGED <<db_blocks, tree, commit_root, pruned, sync, recommit, history>>
--------------------------------------------------------------------------------
\* Recovery from the DB.

\* find_root.
HasRoot(root, B, Q) ==
    \/ root = Genesis
    \/ /\ root \in B \cap Q
       /\ \E q \in Q : commit_info(q) = root

\* Mutant: whatever is above the root is kept.
Kept_Mutant(root, B) == {root} \cup {b \in B : round(b) > round(root)}

\* Mutant: only the children of the root are kept.
Kept_Children(root, B) == {root} \cup {b \in B : b # Genesis /\ parent(b) = root}

\* RecoveryData::find_blocks_to_prune keeps the root and what descends from it.
Kept(root, B) == {root} \cup {b \in B : Reaches(root, b, B)}

\* StorageWriteProxy::start and BlockStore::build, on the blocks B and the QCs Q
\* of the DB: the DB is cleaned up, the tree is built from the rest and try_commit
\* is about to begin.  Rebuild also deletes the blocks of the old tree, those that
\* are in the new one too.
Recover(root, B, Q, old) ==
    LET kept      == Kept(root, B)
        certified == (Q \cup {Genesis}) \cap kept
        commits   == {q \in certified : round(commit_info(q)) > round(root)}
        ordering  == IF commits = {} THEN {q \in Q \cup {Genesis} : commit_info(q) = root}
                                     ELSE commits
    IN  /\ db_blocks' = (B \cap kept) \ old
        /\ db_qcs' = (Q \ (B \ kept)) \ old
        /\ tree' = kept
        /\ qcs' = certified
        /\ ordered_root' = root
        /\ commit_root' = root
        /\ highest_certified' \in {q \in certified : \A r \in certified : round(r) <= round(q)}
        /\ highest_ordered' \in {q \in ordering :
               \A r \in ordering : round(commit_info(r)) <= round(commit_info(q))}
        /\ pruned' = {}
        /\ recommit' = {commit_info(q) : q \in commits}
        /\ late' = FALSE
        /\ unsaved' = kept \cap (old \cup ({parent(b) : b \in kept \ {root}} \ certified))
        /\ orphan' = IF highest_ordered' \in kept THEN NoBlock ELSE highest_ordered'

\* A crash at any point, and the start after it.
Restart ==
    /\ HasRoot(ledger, db_blocks, db_qcs)
    /\ Recover(ledger, db_blocks, db_qcs, {})
    /\ callbacks' = << >>
    /\ sync' = NoSync
    /\ UNCHANGED ledger
--------------------------------------------------------------------------------
\* sync_to_highest_ordered_cert, by its awaits, on a peer's highest_ordered_cert c
\* and the highest_ledger_info that commits l.

\* Mutant: the QC of the target is not saved.
StartSync_Mutant(c, l) ==
    /\ Idle
    /\ round(ordered_root) + SyncGap < round(l)
    /\ db_blocks' = db_blocks \cup Path(l, c) \cup {l}
    /\ db_qcs' = db_qcs \cup Path(l, c)
    /\ sync' = [step |-> "saved", target |-> l]
    /\ UNCHANGED <<ledger, tree, qcs, roots, pruned, callbacks, recommit, history>>

\* The blocks from l to c are fetched and saved with their QCs; where rounds were
\* skipped, the QC in block l is saved too.
StartSync(c, l) ==
    /\ Idle
    /\ round(ordered_root) + SyncGap < round(l)
    /\ LET fetched == Path(l, c) \cup {l}
           skipped == round(c) - round(l) > Len(c) - Len(l)
       IN  /\ db_blocks' = db_blocks \cup fetched
           /\ db_qcs' = db_qcs \cup fetched \cup (IF skipped THEN {parent(l)} ELSE {})
    /\ sync' = [step |-> "saved", target |-> l]
    /\ UNCHANGED <<ledger, tree, qcs, roots, pruned, callbacks, recommit, history>>

\* sync_to returns with the ledger at the target, or with an error, which may come
\* when the ledger is there (the executor's reset fails).  State sync refuses a
\* target behind the ledger.
SyncTo ==
    /\ sync.step = "saved"
    /\ \/ /\ IsAncestor(ledger, sync.target)
          /\ ledger' = sync.target
          /\ sync' \in {[sync EXCEPT !.step = "synced"], NoSync}
       \/ ledger' = ledger /\ sync' = NoSync
    /\ UNCHANGED <<db, tree, qcs, roots, pruned, callbacks, recommit, history>>

\* The store starts over from the DB and deletes the blocks of the old tree from
\* it; that deletion may fail.  Callbacks that are queued stay so.
Rebuild ==
    /\ sync.step = "synced"
    /\ HasRoot(ledger, db_blocks, db_qcs)
    /\ \E old \in {tree, {}} : Recover(ledger, db_blocks, db_qcs, old)
    /\ sync' = NoSync
    /\ UNCHANGED <<ledger, callbacks>>

\* The certificates a peer's SyncInfo may hold: SyncInfo::verify.
SyncInfos == {i \in Certs \X {commit_info(c) : c \in Certs} :
    i[2] \notin {Genesis, NoBlock} /\ IsAncestor(i[2], commit_info(i[1]))}

Next ==
    \/ \E b \in Blocks : InsertBlock(b)
    \/ \E c \in Certs : InsertFetchedQC(c) \/ InsertQuorumCert(c)
    \/ TryCommit \/ CommitCallback \/ Restart
    \/ \E i \in SyncInfos : StartSync(i[1], i[2])
    \/ SyncTo \/ Rebuild

\* The notifier task keeps running.
Fairness == WF_vars(CommitCallback)

Spec == Init /\ [][Next]_vars /\ Fairness
--------------------------------------------------------------------------------
\* Every variable holds a value of its type.
TypeOK ==
    /\ db_blocks \subseteq Blocks /\ db_qcs \subseteq Certs
    /\ tree \subseteq Blocks /\ qcs \subseteq Certs /\ pruned \subseteq Blocks
    /\ {ledger, ordered_root, commit_root, highest_certified, highest_ordered} \subseteq Certs
    /\ callbacks \in Seq(Certs) /\ recommit \subseteq Certs
    /\ sync \in [step : {"none", "saved", "synced"}, target : Certs]
    /\ late \in BOOLEAN /\ unsaved \subseteq Blocks /\ orphan \in Certs \cup {NoBlock}

\* BlockTree's "Root must exist", "Commit root must exist" and "Highest cerfified
\* block must exist": whatever was pruned and has left memory, the roots and the
\* highest certified block are in the tree, one below the other.  A tree that the
\* callback of an earlier one has pruned is excepted.
RootsExist == ~late =>
    /\ {ordered_root, commit_root, highest_certified} \subseteq tree
    /\ Reaches(commit_root, ordered_root, tree)
    /\ Reaches(ordered_root, highest_certified, tree)

\* BlockStore::commit's assert!(!blocks_to_commit.is_empty()): a QC of the tree
\* that commits above the ordered root commits a block with a path from there,
\* except in a tree that the callback of an earlier one has pruned.
CommitPathExists == ~late => \A c \in qcs :
    round(commit_info(c)) > round(ordered_root)
        => Reaches(ordered_root, commit_info(c), tree)

\* The SyncInfo made from the tree passes SyncInfo::verify at every peer: the
\* highest QC is not below the ordered cert, nor that below the ledger info, and
\* it commits a block.
SyncInfoAlwaysValid ==
    /\ round(highest_certified) >= round(highest_ordered)
    /\ round(highest_ordered) >= round(commit_root)
    /\ commit_info(highest_ordered) # NoBlock

\* The same, unless the node started with an ordered cert whose block was not in
\* the DB and has had no later one since.
SyncInfoIsValid == highest_ordered # orphan => SyncInfoAlwaysValid

\* The callback of a commit, which may run after the tree was replaced, does not
\* delete from the DB the block that the ledger ends in.
CallbackSparesLedger == [][CommitCallback /\ ledger \in db_blocks => ledger \in db_blocks']_vars

\* Of the ledger's last block and what is above it, the DB has lost nothing.
Saved == \A b \in unsaved : ~IsAncestor(ledger, b)

\* "We guarantee that the block corresponding to the storage's latest ledger info
\* always exists" (find_root): whenever the node crashes, it can start from its
\* DB, with the block its ledger ends in, that block's QC and one that commits it.
\* Excepted are blocks that a late callback or a rebuild has deleted and those that
\* an interrupted sync left without a QC, until the ledger has moved past them.
Recoverable == Saved => HasRoot(ledger, db_blocks, db_qcs)

\* Neither a crash nor a rebuild takes the node back: the highest QC it knew is
\* matched, and what it had ordered is an ancestor of what it orders next, unless
\* the DB has lost what it needs for that.
NothingForgotten ==
    [][~late /\ Saved => /\ round(highest_certified') >= round(highest_certified)
                         /\ IsAncestor(ordered_root, ordered_root')]_vars

\* What is ordered becomes the commit root, so that the tree is pruned, however
\* commits, callbacks, syncs and restarts interleave, as long as no callback finds
\* a later tree.
OrderedReachesCommitRoot == \A b \in Certs :
    ordered_root = b ~> round(commit_root) >= round(b) \/ late
================================================================================
