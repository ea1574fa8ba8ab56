-------------------------- MODULE BufferManagerSteps ---------------------------
(***************************************************************************)
(* Proofs for BufferManager.  The invariant is one of each validator's     *)
(* state s, its setting c and the set V of commit votes that the           *)
(* validators have broadcast.  The handlers are proved to keep it one by   *)
(* one; between two operations of a handler a root may be 0 although there *)
(* is something to drive, and the invariant is stated so that the roots    *)
(* are apart from the rest.                                                *)
(***************************************************************************)
EXTENDS BufferManager, SequenceTheorems, WellFoundedInduction, TLAPS
--------------------------------------------------------------------------------
\* The invariant.

Batch == [first : Nat, last : Nat]

Sig == [author : Validator, ok : BOOLEAN]

Item == [first : Nat, last : Nat, stage : Stage, sigs : SUBSET Sig]

PersistRequest == [first : Nat, last : Nat, proof : SUBSET Sig, computed : BOOLEAN]

ExecutionAnswer == [first : Nat, last : Nat, ok : BOOLEAN]

NodeState ==
    [ordered : Nat, block_rx : Seq(Batch), buffer : Seq(Item), execution_root : Nat,
     signing_root : Nat, exec_req : Seq(Batch), exec_resp : Seq(ExecutionAnswer),
     signing : Seq(Nat), persisting : Seq(PersistRequest), executed : Nat, ledger : Nat,
     syncing : Nat, lost : BOOLEAN, stale : BOOLEAN, stop : BOOLEAN]

\* Batches of blocks up to hi that follow each other.
Ascending(q, hi) ==
    /\ \A i \in DOMAIN q : 0 < q[i].first /\ q[i].first <= q[i].last /\ q[i].last <= hi
    /\ \A i, j \in DOMAIN q : i < j => q[i].last < q[j].first

Before(p, q) == \A i \in DOMAIN p, j \in DOMAIN q : p[i].last < q[j].first

\* The blocks on their way are in order.
InSequence(s) ==
    /\ Ascending(s.persisting, s.ordered)
    /\ Ascending(s.buffer, s.ordered)
    /\ Ascending(s.block_rx, s.ordered)
    /\ Before(s.persisting, s.buffer)
    /\ Before(s.persisting, s.block_rx)
    /\ Before(s.buffer, s.block_rx)

\* Items are executed in order.
Prefix(b) ==
    \A i, j \in DOMAIN b : i < j /\ b[i].stage = "Ordered" => b[j].stage = "Ordered"

\* Requests to execute and their answers, q, are of nothing after the first item of the
\* buffer b that is to be executed, and of the same blocks as the item they find.
Fits(q, b, r, hi) == \A k \in DOMAIN q :
    /\ q[k].last <= hi
    /\ \A i \in DOMAIN b : b[i].stage = "Ordered" => q[k].last <= b[i].last
    /\ \A i \in DOMAIN b : q[k].last = b[i].last => q[k].first = b[i].first
    /\ \A i \in DOMAIN r : q[k].last < r[i].first

\* A sync is to a block that was not ordered, and the pipeline is empty until it ends.
SyncAhead(s) ==
    s.syncing # 0 => /\ s.ordered < s.syncing
                     /\ s.stale \/ (s.buffer = << >> /\ s.block_rx = << >>)

Within(b, q) == \E i \in DOMAIN q : q[i].first <= b /\ b <= q[i].last

EpochOver(c, block) == c.reconfig > 0 /\ block >= c.reconfig

\* The blocks between ledger and order are all there.
Covered(s, c) ==
    \/ s.lost \/ EpochOver(c, s.ledger)
    \/ \A b \in (s.ledger + 1)..s.ordered :
         Within(b, s.persisting) \/ Within(b, s.buffer) \/ Within(b, s.block_rx)

LedgerBehind(s, c) == EpochOver(c, s.ledger) \/ s.ledger <= s.ordered

\* What the ledger is past has left the pipeline.
Ahead(s, c) ==
    \/ s.stale \/ EpochOver(c, s.ledger)
    \/ /\ \A i \in DOMAIN s.persisting :
            s.persisting[i].last > s.ledger => s.persisting[i].first > s.ledger
       /\ \A i \in DOMAIN s.buffer : s.buffer[i].first > s.ledger
       /\ \A i \in DOMAIN s.block_rx : s.block_rx[i].first > s.ledger

VoteOf(a, b) == [author |-> a, block |-> b, ok |-> TRUE]

Certified(proof, b, c, V) ==
    /\ check_voting_power(Authors(proof))
    /\ \A g \in proof : g.ok /\ (g.author \in c.nodes => VoteOf(g.author, b) \in V)

\* Signatures kept, and those of a request to persist.
SigsBacked(b, c, V) == \A i \in DOMAIN b : \A g \in b[i].sigs :
    /\ b[i].stage # "Ordered" => g.ok
    /\ g.ok /\ g.author \in c.nodes => VoteOf(g.author, b[i].last) \in V

ProofsCertified(p, c, V) == \A i \in DOMAIN p :
    p[i].computed /\ Certified(p[i].proof, p[i].last, c, V)

\* All but the roots.
Sound(s, c, V) ==
    /\ s \in NodeState
    /\ InSequence(s)
    /\ Prefix(s.buffer)
    /\ Fits(s.exec_req, s.buffer, s.block_rx, s.ordered)
    /\ Fits(s.exec_resp, s.buffer, s.block_rx, s.ordered)
    /\ SyncAhead(s)
    /\ LedgerBehind(s, c)
    /\ Covered(s, c)
    /\ Ahead(s, c)
    /\ SigsBacked(s.buffer, c, V)
    /\ ProofsCertified(s.persisting, c, V)

IsFirst(b, root, stage) ==
    \/ root = 0 /\ \A i \in DOMAIN b : b[i].stage # stage
    \/ \E i \in DOMAIN b : /\ b[i].last = root /\ b[i].stage = stage
                           /\ \A j \in DOMAIN b : j < i => b[j].stage # stage

Asked(root, q) == \E k \in DOMAIN q : q[k].last = root

ExecutionDriven(s) ==
    /\ IsFirst(s.buffer, s.execution_root, "Ordered")
    /\ s.execution_root # 0 =>
         Asked(s.execution_root, s.exec_req) \/ Asked(s.execution_root, s.exec_resp)

SigningDriven(s) ==
    /\ IsFirst(s.buffer, s.signing_root, "Executed")
    /\ s.signing_root # 0 => \E k \in DOMAIN s.signing : s.signing[k] = s.signing_root

NodeOK(s, c, V) == Sound(s, c, V) /\ ExecutionDriven(s) /\ SigningDriven(s)

Inv ==
    /\ config \in Configs
    /\ chain \in Nat
    /\ bm \in [config.nodes -> NodeState]
    /\ \A n \in config.nodes : NodeOK(bm[n], config, votes)
    /\ votes \subseteq [author : config.nodes, block : Nat, ok : {TRUE}]
    /\ \A d \in decided :
         /\ d \in [block : Nat, proof : SUBSET Sig]
         /\ Certified(d.proof, d.block, config, votes)
--------------------------------------------------------------------------------
\* Finding items.

\* A non-empty set of naturals has a least element, and Min returns it.
LEMMA MinFacts ==
    ASSUME NEW T \in SUBSET Nat, T # {}
    PROVE  Min(T) \in T /\ \A y \in T : Min(T) <= y
<1> DEFINE R == OpToRel(<, Nat)
<1>1. IsWellFoundedOn(R, Nat)
  BY Zenon, NatLessThanWellFounded
<1>2. PICK x \in T : \A y \in T : ~(<<y, x>> \in R)
  <2> HIDE DEF R
  <2> QED BY Zenon, <1>1, WFMin
<1>3. \A y \in T : ~(y < x)
  BY Zenon, <1>2 DEF OpToRel
<1>4. \A y \in T : x <= y
  BY <1>3
<1> QED BY Zenon, <1>4 DEF Min

\* The order of the naturals, for leaves that need one fact of it.
LEMMA AtMostIsTransitive == \A a, b, d \in Nat : a <= b /\ b <= d => a <= d
OBVIOUS

\* A natural is not below itself, nor below one that is below it.
LEMMA BelowIsStrict == \A a \in Nat : ~(a < a) /\ \A b \in Nat : a < b => ~(b < a)
OBVIOUS

\* Two naturals can be compared.
LEMMA OrderIsTotal == \A a, b \in Nat : (a <= b \/ a > b) /\ (a >= b => a = b \/ a > b)
OBVIOUS

\* The items of a buffer are numbered by naturals and have the fields of items.
LEMMA BufferFacts ==
    ASSUME NEW s \in NodeState
    PROVE  /\ Len(s.buffer) \in Nat
           /\ DOMAIN s.buffer = 1..Len(s.buffer)
           /\ \A i \in DOMAIN s.buffer : s.buffer[i] \in Item
BY ElementOfSeq DEF NodeState

\* The elements of the queues are batches of blocks.
LEMMA QueueFacts ==
    ASSUME NEW s \in NodeState
    PROVE  /\ s.ordered \in Nat /\ s.ledger \in Nat /\ s.syncing \in Nat
           /\ \A i \in DOMAIN s.buffer :
                i \in Nat /\ s.buffer[i].first \in Nat /\ s.buffer[i].last \in Nat
           /\ \A i \in DOMAIN s.persisting :
                i \in Nat /\ s.persisting[i].first \in Nat /\ s.persisting[i].last \in Nat
           /\ \A i \in DOMAIN s.block_rx :
                i \in Nat /\ s.block_rx[i].first \in Nat /\ s.block_rx[i].last \in Nat
           /\ \A i \in DOMAIN s.exec_req :
                i \in Nat /\ s.exec_req[i].first \in Nat /\ s.exec_req[i].last \in Nat
           /\ \A i \in DOMAIN s.exec_resp :
                i \in Nat /\ s.exec_resp[i].first \in Nat /\ s.exec_resp[i].last \in Nat
<1>1. /\ s.buffer \in Seq(Item) /\ s.persisting \in Seq(PersistRequest)
      /\ s.block_rx \in Seq(Batch) /\ s.exec_req \in Seq(Batch)
      /\ s.exec_resp \in Seq(ExecutionAnswer)
      /\ s.ordered \in Nat /\ s.ledger \in Nat /\ s.syncing \in Nat
  BY DEF NodeState
<1>2. \A i \in DOMAIN s.buffer : i \in Nat /\ s.buffer[i] \in Item
  BY <1>1, ElementOfSeq, LenProperties
<1>3. \A i \in DOMAIN s.persisting : i \in Nat /\ s.persisting[i] \in PersistRequest
  BY <1>1, ElementOfSeq, LenProperties
<1>4. \A i \in DOMAIN s.block_rx : i \in Nat /\ s.block_rx[i] \in Batch
  BY <1>1, ElementOfSeq, LenProperties
<1>5. \A i \in DOMAIN s.exec_req : i \in Nat /\ s.exec_req[i] \in Batch
  BY <1>1, ElementOfSeq, LenProperties
<1>6. \A i \in DOMAIN s.exec_resp : i \in Nat /\ s.exec_resp[i] \in ExecutionAnswer
  BY <1>1, ElementOfSeq, LenProperties
<1> QED BY Zenon, <1>1, <1>2, <1>3, <1>4, <1>5, <1>6 DEF Item, PersistRequest, Batch, ExecutionAnswer

\* Index finds the one item that ends with a block.
LEMMA IndexFacts ==
    ASSUME NEW s \in NodeState, Ascending(s.buffer, s.ordered), NEW key \in Nat
    PROVE  /\ Index(s, key) \in 0..Len(s.buffer)
           /\ Index(s, key) # 0 => /\ Index(s, key) \in DOMAIN s.buffer
                                   /\ s.buffer[Index(s, key)].last = key
           /\ \A i \in DOMAIN s.buffer : s.buffer[i].last = key => i = Index(s, key)
<1> DEFINE I == {i \in 1..Len(s.buffer) : s.buffer[i].last = key}
<1>0. Index(s, key) = IF I = {} THEN 0 ELSE Min(I)
  BY DEF Index
<1>1. I \in SUBSET Nat
  BY BufferFacts
<1>2. \A i, j \in I : i = j
  BY BufferFacts DEF Ascending, Item
<1>3. CASE I = {}
  BY <1>0, <1>3, BufferFacts
<1>4. CASE I # {}
  <2>1. Min(I) \in I
    BY Zenon, <1>1, <1>4, MinFacts
  <2> HIDE DEF I
  <2>2. Index(s, key) \in I /\ \A i \in I : i = Index(s, key)
    BY Zenon, <1>0, <1>2, <1>4, <2>1
  <2> QED BY <2>2, BufferFacts DEF I
<1> QED BY <1>3, <1>4

\* A cursor before which no item is in a stage.
Cursor(b, root, stage) ==
    root = 0 \/ \E k \in DOMAIN b : /\ b[k].last = root
                                    /\ \A j \in DOMAIN b : j < k => b[j].stage # stage

\* From such a cursor, find_elem_from finds the first item in the stage.
LEMMA FindFacts ==
    ASSUME NEW s \in NodeState, Ascending(s.buffer, s.ordered), NEW root \in Nat, NEW stage,
           Cursor(s.buffer, root, stage), NEW i, i = find_elem_from(s, root, stage)
    PROVE  \/ i = 0 /\ \A j \in DOMAIN s.buffer : s.buffer[j].stage # stage
           \/ /\ i \in DOMAIN s.buffer /\ i # 0
              /\ s.buffer[i].stage = stage
              /\ \A j \in DOMAIN s.buffer : j < i => s.buffer[j].stage # stage
<1> DEFINE from == IF root = 0 THEN 1 ELSE Index(s, root)
           I == {k \in 1..Len(s.buffer) : from > 0 /\ k >= from /\ s.buffer[k].stage = stage}
<1>1. from \in Nat /\ from > 0 /\ \A j \in DOMAIN s.buffer : j < from => s.buffer[j].stage # stage
  <2>1. CASE root = 0
    BY <2>1, BufferFacts
  <2>2. CASE root # 0
    BY <2>2, IndexFacts, BufferFacts DEF Cursor
  <2> QED BY <2>1, <2>2
<1>2. i = IF I = {} THEN 0 ELSE Min(I)
  BY DEF find_elem_from
<1> HIDE DEF from
<1>3. I \in SUBSET Nat /\ \A j \in DOMAIN s.buffer : s.buffer[j].stage = stage => j \in I
  BY <1>1, BufferFacts
<1>4. CASE I = {}
  BY Zenon, <1>2, <1>3, <1>4
<1>5. CASE I # {}
  <2>1. i \in I /\ \A y \in I : i <= y
    BY ZenonT(30), <1>2, <1>3, <1>5, MinFacts
  <2>2. i \in DOMAIN s.buffer /\ i # 0 /\ s.buffer[i].stage = stage
    BY <2>1, BufferFacts
  <2>3. \A j \in DOMAIN s.buffer : j < i => s.buffer[j].stage # stage
    BY <1>3, <2>1, <2>2, BufferFacts
  <2> QED BY <2>2, <2>3
<1> QED BY <1>4, <1>5
--------------------------------------------------------------------------------
\* The roots.

\* Sound says nothing of the roots and of the requests to sign.
LEMMA SoundFrame ==
    ASSUME NEW s, NEW t, NEW c, NEW V, Sound(s, c, V), t \in NodeState,
           t.ordered = s.ordered, t.block_rx = s.block_rx, t.buffer = s.buffer,
           t.exec_resp = s.exec_resp, t.persisting = s.persisting, t.ledger = s.ledger,
           t.syncing = s.syncing, t.lost = s.lost, t.stale = s.stale,
           Fits(t.exec_req, t.buffer, t.block_rx, t.ordered)
    PROVE  Sound(t, c, V)
BY DEF Sound, InSequence, SyncAhead, LedgerBehind, Covered, Ahead

\* The first item in a stage is a cursor.
LEMMA FirstIsCursor ==
    ASSUME NEW b, NEW root, NEW stage, IsFirst(b, root, stage)
    PROVE  Cursor(b, root, stage)
BY DEF IsFirst, Cursor

\* advance_execution_root finds the first item to execute and requests its execution.
LEMMA AdvanceExecutionRoot ==
    ASSUME NEW s, NEW c, NEW V, Sound(s, c, V),
           Cursor(s.buffer, s.execution_root, "Ordered"),
           NEW u, u = advance_execution_root(s)
    PROVE  /\ Sound(u, c, V) /\ ExecutionDriven(u)
           /\ u.buffer = s.buffer /\ u.signing_root = s.signing_root /\ u.signing = s.signing
<1> DEFINE i == find_elem_from(s, s.execution_root, "Ordered")
           item == s.buffer[i]
           req == [first |-> item.first, last |-> item.last]
           root == IF i = 0 THEN 0 ELSE item.last
           q == IF i = 0 THEN s.exec_req ELSE Append(s.exec_req, req)
<1>1. s \in NodeState /\ Ascending(s.buffer, s.ordered)
  BY DEF Sound, InSequence
<1>2. s.execution_root \in Nat /\ s.exec_req \in Seq(Batch)
  BY <1>1 DEF NodeState
<1>3. \/ i = 0 /\ \A j \in DOMAIN s.buffer : s.buffer[j].stage # "Ordered"
      \/ /\ i \in DOMAIN s.buffer /\ i # 0 /\ item.stage = "Ordered"
         /\ \A j \in DOMAIN s.buffer : j < i => s.buffer[j].stage # "Ordered"
  <2> HIDE DEF i
  <2> QED BY <1>1, <1>2, FindFacts DEF i
<1>4. u = [s EXCEPT !.execution_root = root, !.exec_req = q]
  BY Zenon, <1>1 DEF advance_execution_root, NodeState
<1> HIDE DEF i
<1>5. i # 0 => /\ i \in DOMAIN s.buffer /\ req \in Batch
               /\ item.last \in Nat /\ req.last = item.last /\ req.first = item.first
  BY Zenon, <1>1, <1>3, BufferFacts DEF Item, Batch
<1>6. /\ q \in Seq(Batch)
      /\ i # 0 => /\ DOMAIN q = 1..(Len(s.exec_req) + 1)
                  /\ DOMAIN s.exec_req = 1..Len(s.exec_req) /\ Len(s.exec_req) \in Nat
                  /\ q[Len(s.exec_req) + 1] = req
                  /\ \A k \in DOMAIN s.exec_req : q[k] = s.exec_req[k]
  <2>1. CASE i = 0
    BY <1>2, <2>1
  <2>2. CASE i # 0
    <3> HIDE DEF req
    <3> QED BY <1>2, <1>5, <2>2, AppendProperties
  <2> QED BY <2>1, <2>2
<1>7. root \in Nat
  BY <1>5
<1> HIDE DEF root, q, item, req
<1>8. u \in NodeState /\ u.execution_root = root /\ u.exec_req = q /\ u.buffer = s.buffer
      /\ u.signing_root = s.signing_root /\ u.signing = s.signing
      /\ u.ordered = s.ordered /\ u.block_rx = s.block_rx
      /\ u.exec_resp = s.exec_resp /\ u.persisting = s.persisting /\ u.ledger = s.ledger
      /\ u.syncing = s.syncing /\ u.lost = s.lost /\ u.stale = s.stale
  BY ZenonT(30), <1>1, <1>4, <1>6, <1>7 DEF NodeState
<1>9. Fits(q, s.buffer, s.block_rx, s.ordered)
  <2>1. Fits(s.exec_req, s.buffer, s.block_rx, s.ordered)
    BY DEF Sound
  <2>2. CASE i = 0
    BY <2>1, <2>2 DEF q
  <2>3. CASE i # 0
    <3>2. item.last <= s.ordered /\ \A j \in DOMAIN s.block_rx : item.last < s.block_rx[j].first
      BY <1>5, <2>3 DEF Sound, InSequence, Ascending, Before, item
    <3>3. \A j \in DOMAIN s.buffer : s.buffer[j].stage = "Ordered" => item.last <= s.buffer[j].last
      BY <1>1, <1>3, <2>3, BufferFacts DEF Ascending, Item, item
    <3>4. \A j \in DOMAIN s.buffer : item.last = s.buffer[j].last => item.first = s.buffer[j].first
      BY <1>1, <1>5, <2>3, BufferFacts DEF Ascending, Item, item
    <3> QED BY SMTT(30), <1>5, <1>6, <2>1, <2>3, <3>2, <3>3, <3>4 DEF Fits
  <2> QED BY <2>2, <2>3
<1>10. Sound(u, c, V)
  BY <1>8, <1>9, SoundFrame
<1>11. ExecutionDriven(u)
  <2>1. IsFirst(u.buffer, u.execution_root, "Ordered")
    BY <1>3, <1>8 DEF IsFirst, item, root
  <2>2. u.execution_root # 0 => Asked(u.execution_root, u.exec_req)
    <3>1. CASE i = 0
      BY Zenon, <1>8, <3>1 DEF root
    <3>2. CASE i # 0
      BY <1>5, <1>6, <1>8, <3>2 DEF root, Asked
    <3> QED BY <3>1, <3>2
  <2> QED BY Zenon, <2>1, <2>2 DEF ExecutionDriven
<1> QED BY <1>8, <1>10, <1>11

\* advance_signing_root finds the first item to sign and requests its signature.
LEMMA AdvanceSigningRoot ==
    ASSUME NEW s, NEW c, NEW V, Sound(s, c, V), ExecutionDriven(s),
           Cursor(s.buffer, s.signing_root, "Executed"),
           NEW u, u = advance_signing_root(s)
    PROVE  NodeOK(u, c, V)
<1> DEFINE i == find_elem_from(s, s.signing_root, "Executed")
           last == s.buffer[i].last
           root == IF i = 0 THEN 0 ELSE last
           q == IF i = 0 THEN s.signing ELSE Append(s.signing, last)
<1>1. s \in NodeState /\ Ascending(s.buffer, s.ordered)
  BY DEF Sound, InSequence
<1>2. s.signing_root \in Nat /\ s.signing \in Seq(Nat)
  BY Zenon, <1>1 DEF NodeState
<1>3. \/ i = 0 /\ \A j \in DOMAIN s.buffer : s.buffer[j].stage # "Executed"
      \/ /\ i \in DOMAIN s.buffer /\ i # 0 /\ s.buffer[i].stage = "Executed"
         /\ \A j \in DOMAIN s.buffer : j < i => s.buffer[j].stage # "Executed"
  <2> HIDE DEF i
  <2> QED BY <1>1, <1>2, FindFacts DEF i
<1>4. u = [s EXCEPT !.signing_root = root, !.signing = q]
  BY Zenon, <1>1 DEF advance_signing_root, NodeState
<1> HIDE DEF i
<1>5. i # 0 => last \in Nat
  BY Zenon, <1>1, <1>3, BufferFacts DEF Item
<1>6. q \in Seq(Nat) /\ (i # 0 => \E k \in DOMAIN q : q[k] = last)
  <2>1. CASE i = 0
    BY <1>2, <2>1
  <2>2. CASE i # 0
    <3> HIDE DEF last
    <3>1. /\ Append(s.signing, last) \in Seq(Nat) /\ Len(s.signing) \in Nat
          /\ DOMAIN Append(s.signing, last) = 1..(Len(s.signing) + 1)
          /\ Append(s.signing, last)[Len(s.signing) + 1] = last
      BY <1>2, <1>5, <2>2, AppendProperties
    <3>2. Len(s.signing) + 1 \in DOMAIN Append(s.signing, last)
      BY <3>1
    <3> QED BY Zenon, <2>2, <3>1, <3>2
  <2> QED BY <2>1, <2>2
<1>7. root \in Nat
  BY <1>5
<1> HIDE DEF root, q
<1>8. u \in NodeState /\ u.signing_root = root /\ u.signing = q /\ u.buffer = s.buffer
      /\ u.execution_root = s.execution_root
      /\ u.ordered = s.ordered /\ u.block_rx = s.block_rx /\ u.exec_req = s.exec_req
      /\ u.exec_resp = s.exec_resp /\ u.persisting = s.persisting /\ u.ledger = s.ledger
      /\ u.syncing = s.syncing /\ u.lost = s.lost /\ u.stale = s.stale
  BY ZenonT(30), <1>1, <1>4, <1>6, <1>7 DEF NodeState
<1>9. Sound(u, c, V)
  <2>1. Fits(u.exec_req, u.buffer, u.block_rx, u.ordered)
    BY <1>8 DEF Sound
  <2> QED BY <1>8, <2>1, SoundFrame
<1>10. ExecutionDriven(u)
  BY Zenon, <1>8 DEF ExecutionDriven
<1>11. SigningDriven(u)
  BY <1>3, <1>6, <1>8 DEF SigningDriven, IsFirst, root
<1> QED BY Zenon, <1>9, <1>10, <1>11 DEF NodeOK

\* A root that is None is set again, one that is not is kept.
LEMMA FillExecutionRoot ==
    ASSUME NEW s, NEW c, NEW V, Sound(s, c, V), s.execution_root = 0 \/ ExecutionDriven(s),
           NEW u, u = IfNone(s.execution_root, advance_execution_root(s), s)
    PROVE  /\ Sound(u, c, V) /\ ExecutionDriven(u)
           /\ u.buffer = s.buffer /\ u.signing_root = s.signing_root /\ u.signing = s.signing
<1>1. CASE s.execution_root = 0
  <2>1. u = advance_execution_root(s) /\ Cursor(s.buffer, s.execution_root, "Ordered")
    BY Zenon, <1>1 DEF IfNone, Cursor
  <2> QED BY <2>1, AdvanceExecutionRoot
<1>2. CASE s.execution_root # 0
  BY <1>2 DEF IfNone
<1> QED BY <1>1, <1>2

\* The same for the signing root.
LEMMA FillSigningRoot ==
    ASSUME NEW s, NEW c, NEW V, Sound(s, c, V), ExecutionDriven(s),
           s.signing_root = 0 \/ SigningDriven(s),
           NEW u, u = IfNone(s.signing_root, advance_signing_root(s), s)
    PROVE  NodeOK(u, c, V)
<1>1. CASE s.signing_root = 0
  <2>1. u = advance_signing_root(s) /\ Cursor(s.buffer, s.signing_root, "Executed")
    BY <1>1 DEF IfNone, Cursor
  <2> QED BY <2>1, AdvanceSigningRoot
<1>2. CASE s.signing_root # 0
  BY <1>2 DEF IfNone, NodeOK
<1> QED BY <1>1, <1>2

\* After an aggregation both are set again.
LEMMA AfterAggregationFills ==
    ASSUME NEW s, NEW c, NEW V, Sound(s, c, V),
           s.execution_root = 0 \/ ExecutionDriven(s),
           s.signing_root = 0 \/ SigningDriven(s),
           NEW u, u = AfterAggregation(s)
    PROVE  NodeOK(u, c, V)
<1> DEFINE t == IfNone(s.execution_root, advance_execution_root(s), s)
<1>1. /\ Sound(t, c, V) /\ ExecutionDriven(t)
      /\ t.buffer = s.buffer /\ t.signing_root = s.signing_root /\ t.signing = s.signing
  <2> HIDE DEF t
  <2> QED BY FillExecutionRoot DEF t
<1>2. u = IfNone(t.signing_root, advance_signing_root(t), t)
  BY DEF AfterAggregation
<1> HIDE DEF t
<1>3. t.signing_root = 0 \/ SigningDriven(t)
  BY <1>1 DEF SigningDriven
<1> QED BY Zenon, <1>1, <1>2, <1>3, FillSigningRoot
--------------------------------------------------------------------------------
\* The head of the buffer.

\* What is left of a sequence after its first i elements.
LEMMA RestFacts ==
    ASSUME NEW X, NEW q \in Seq(X), NEW i \in DOMAIN q, NEW r, r = SubSeq(q, i + 1, Len(q))
    PROVE  /\ r \in Seq(X) /\ i \in Nat /\ i > 0
           /\ \A k \in DOMAIN r : i + k \in DOMAIN q /\ i + k > i /\ r[k] = q[i + k]
           /\ \A k \in DOMAIN q : k > i => k - i \in DOMAIN r /\ r[k - i] = q[k]
           /\ \A j, k \in DOMAIN r : j < k => i + j < i + k
<1>1. Len(q) \in Nat /\ DOMAIN q = 1..Len(q) /\ i \in 1..Len(q)
  BY LenProperties
<1>2. CASE i = Len(q)
  <2>1. r = << >>
    BY <1>1, <1>2, SubSeqEmpty
  <2> QED BY <1>1, <1>2, <2>1
<1>3. CASE i < Len(q)
  <2>1. i + 1 \in 1..Len(q) /\ Len(q) \in 1..Len(q)
    BY <1>1, <1>3
  <2>2. /\ r \in Seq(X) /\ Len(r) = Len(q) - i
        /\ \A k \in 1..(Len(q) - i) : r[k] = q[i + k]
    BY SMTT(30), <1>1, <1>3, <2>1, SubSeqProperties
  <2>3. DOMAIN r = 1..(Len(q) - i)
    BY Zenon, <2>2, LenProperties
  <2>4. \A k \in DOMAIN r : k \in Nat /\ i + k \in DOMAIN q /\ i + k > i /\ r[k] = q[i + k]
    BY <1>1, <2>2, <2>3
  <2>5. ASSUME NEW k \in DOMAIN q, k > i PROVE k - i \in DOMAIN r /\ r[k - i] = q[k]
    <3>1. k - i \in 1..(Len(q) - i) /\ i + (k - i) = k
      BY <1>1, <2>5
    <3> QED BY Zenon, <2>2, <2>3, <3>1
  <2> QED BY <1>1, <2>2, <2>4, <2>5
<1> QED BY <1>1, <1>2, <1>3

\* A root that is not popped is still the first in its stage.
LEMMA RootStaysFirst ==
    ASSUME NEW b \in Seq(Item), NEW i \in DOMAIN b, NEW root, NEW stage,
           IsFirst(b, root, stage), root \notin {b[j].last : j \in 1..i},
           NEW r, r = SubSeq(b, i + 1, Len(b))
    PROVE  IsFirst(r, root, stage)
<1>0. /\ i \in Nat /\ Len(b) \in Nat /\ DOMAIN b = 1..Len(b)
      /\ \A k \in DOMAIN r : k \in Nat /\ i + k \in DOMAIN b /\ i + k > i /\ r[k] = b[i + k]
      /\ \A k \in DOMAIN b : k > i => k - i \in DOMAIN r /\ r[k - i] = b[k]
  <2>1. r \in Seq(Item)
    BY RestFacts
  <2> QED BY SMTT(30), <2>1, RestFacts, LenProperties
<1>1. CASE root = 0 /\ \A k \in DOMAIN b : b[k].stage # stage
  BY <1>0, <1>1 DEF IsFirst
<1>2. CASE \E k \in DOMAIN b : /\ b[k].last = root /\ b[k].stage = stage
                               /\ \A j \in DOMAIN b : j < k => b[j].stage # stage
  <2>1. PICK k \in DOMAIN b : /\ b[k].last = root /\ b[k].stage = stage
                              /\ \A j \in DOMAIN b : j < k => b[j].stage # stage
    BY <1>2
  <2>2. k > i
    BY <1>0, <2>1
  <2>3. k - i \in DOMAIN r /\ r[k - i] = b[k]
    BY <1>0, <2>2
  <2>4. \A j \in DOMAIN r : j < k - i => r[j].stage # stage
    BY SMTT(30), <1>0, <2>1, <2>3
  <2> QED BY Zenon, <2>1, <2>3, <2>4 DEF IsFirst
<1> QED BY Zenon, <1>1, <1>2 DEF IsFirst

\* Appending to a queue.
LEMMA AppendFacts ==
    ASSUME NEW X, NEW q \in Seq(X), NEW x \in X, NEW p, p = Append(q, x)
    PROVE  /\ p \in Seq(X) /\ Len(q) \in Nat
           /\ DOMAIN q = 1..Len(q) /\ DOMAIN p = 1..(Len(q) + 1)
           /\ \A k \in DOMAIN q : k \in DOMAIN p /\ p[k] = q[k]
           /\ Len(q) + 1 \in DOMAIN p /\ p[Len(q) + 1] = x
           /\ \A k \in DOMAIN p : k \in DOMAIN q \/ k = Len(q) + 1
<1>1. /\ p \in Seq(X) /\ Len(p) = Len(q) + 1 /\ p[Len(q) + 1] = x
      /\ \A k \in 1..Len(q) : p[k] = q[k]
  BY AppendProperties
<1>2. Len(q) \in Nat /\ DOMAIN q = 1..Len(q) /\ DOMAIN p = 1..Len(p)
  BY Zenon, <1>1, LenProperties
<1> QED BY <1>1, <1>2

\* What popping the items up to one leaves: all but the roots, which are 0 or as before.
Popped(s, t, c, V) ==
    /\ Sound(t, c, V)
    /\ \/ t.execution_root = 0
       \/ t.execution_root = s.execution_root /\ IsFirst(t.buffer, t.execution_root, "Ordered")
    /\ \/ t.signing_root = 0
       \/ t.signing_root = s.signing_root /\ IsFirst(t.buffer, t.signing_root, "Executed")
    /\ t.exec_req = s.exec_req /\ t.exec_resp = s.exec_resp /\ t.signing = s.signing

\* advance_head hands the popped items to the persisting phase as one request, and what
\* was true of the pipeline stays true; a root among them is None.
LEMMA HeadAdvanced ==
    ASSUME NEW s, NEW c, NEW V, Sound(s, c, V), NEW i \in DOMAIN s.buffer,
           IsFirst(s.buffer, s.execution_root, "Ordered"),
           IsFirst(s.buffer, s.signing_root, "Executed"),
           \A j \in DOMAIN s.buffer : j < i => s.buffer[j].stage # "Ordered",
           NEW proof \in SUBSET Sig, Certified(proof, s.buffer[i].last, c, V),
           NEW t, t = advance_head(s, i, proof)
    PROVE  /\ Popped(s, t, c, V)
           /\ s.execution_root = s.buffer[i].last => t.execution_root = 0
<1> DEFINE popped == {s.buffer[j].last : j \in 1..i}
           Cleared(root) == IF root \in popped THEN 0 ELSE root
           req == [first |-> s.buffer[1].first, last |-> s.buffer[i].last, proof |-> proof,
                   computed |-> \A j \in 1..(i - 1) : s.buffer[j].stage # "Ordered"]
           b == SubSeq(s.buffer, i + 1, Len(s.buffer))
           p == Append(s.persisting, req)
           er == Cleared(s.execution_root)
           sr == Cleared(s.signing_root)
<1>1. Sound(s, c, V) /\ s \in NodeState /\ InSequence(s)
  BY Zenon DEF Sound
<1>2. /\ s.buffer \in Seq(Item) /\ s.persisting \in Seq(PersistRequest)
      /\ s.execution_root \in Nat /\ s.signing_root \in Nat
  BY Zenon, <1>1 DEF NodeState
<1>3. /\ DOMAIN s.buffer = 1..Len(s.buffer) /\ i \in Nat /\ i > 0 /\ 1 \in DOMAIN s.buffer
      /\ \A j \in 1..i : j \in DOMAIN s.buffer
      /\ s.buffer[1] \in Item /\ s.buffer[i] \in Item
  BY <1>1, BufferFacts
<1>4. req \in PersistRequest /\ req.computed = TRUE
  <2>1. \A j \in 1..(i - 1) : s.buffer[j].stage # "Ordered"
    BY <1>3
  <2> QED BY Zenon, <1>3, <2>1 DEF PersistRequest, Item
<1>5. /\ req.first = s.buffer[1].first /\ req.last = s.buffer[i].last /\ req.proof = proof
      /\ req.first \in Nat /\ req.last \in Nat
  BY <1>3 DEF Item
<1>6. t = [s EXCEPT !.buffer = b, !.execution_root = er, !.signing_root = sr, !.persisting = p]
  BY Zenon, <1>1 DEF advance_head, AdvanceHead, NodeState
<1> HIDE DEF req
<1>7. /\ b \in Seq(Item)
      /\ \A k \in DOMAIN b : i + k \in DOMAIN s.buffer /\ i + k > i /\ b[k] = s.buffer[i + k]
      /\ \A k \in DOMAIN s.buffer : k > i => k - i \in DOMAIN b /\ b[k - i] = s.buffer[k]
      /\ \A j, k \in DOMAIN b : j < k => i + j < i + k
  <2>1. b = SubSeq(s.buffer, i + 1, Len(s.buffer))
    OBVIOUS
  <2> HIDE DEF b
  <2>2. b \in Seq(Item)
    BY Zenon, <1>2, <2>1, RestFacts
  <2>3. \A k \in DOMAIN b : i + k \in DOMAIN s.buffer /\ i + k > i /\ b[k] = s.buffer[i + k]
    BY SMTT(30), <1>2, <2>1, RestFacts
  <2>4. \A k \in DOMAIN s.buffer : k > i => k - i \in DOMAIN b /\ b[k - i] = s.buffer[k]
    <3> DEFINE q == s.buffer
    <3>1. q \in Seq(Item) /\ i \in DOMAIN q /\ b = SubSeq(q, i + 1, Len(q))
      BY Zenon, <1>2, <2>1
    <3> HIDE DEF q
    <3>2. \A k \in DOMAIN q : k > i => k - i \in DOMAIN b /\ b[k - i] = q[k]
      BY <3>1, RestFacts
    <3> QED BY Zenon, <3>2 DEF q
  <2>5. \A j, k \in DOMAIN b : j < k => i + j < i + k
    BY ZenonT(30), <1>2, <2>1, RestFacts
  <2> QED BY Zenon, <2>2, <2>3, <2>4, <2>5
<1> DEFINE n == Len(s.persisting) + 1
<1>8. /\ p \in Seq(PersistRequest)
      /\ \A k \in DOMAIN s.persisting : k \in DOMAIN p /\ p[k] = s.persisting[k] /\ k < n
      /\ n \in DOMAIN p /\ p[n] = req /\ DOMAIN p \subseteq Nat
      /\ \A k \in DOMAIN p : k \in DOMAIN s.persisting \/ k = n
  <2> HIDE DEF p
  <2> QED BY <1>2, <1>4, AppendFacts DEF p
<1> HIDE DEF n
<1>9. er \in Nat /\ sr \in Nat
  BY <1>2
<1> HIDE DEF b, p, er, sr
<1>10. t \in NodeState /\ t.buffer = b /\ t.execution_root = er /\ t.signing_root = sr
       /\ t.persisting = p
  <2>1. b \in Seq(Item) /\ p \in Seq(PersistRequest)
    BY <1>7, <1>8
  <2>2. t \in NodeState
    BY ZenonT(30), <1>1, <1>6, <1>9, <2>1 DEF NodeState
  <2> QED BY Zenon, <1>1, <1>6, <2>2 DEF NodeState
<1>11. t.ordered = s.ordered /\ t.block_rx = s.block_rx /\ t.exec_req = s.exec_req
       /\ t.exec_resp = s.exec_resp /\ t.signing = s.signing /\ t.ledger = s.ledger
       /\ t.syncing = s.syncing /\ t.lost = s.lost /\ t.stale = s.stale
  BY <1>1, <1>6 DEF NodeState
<1>12. \A j \in DOMAIN s.buffer :
          /\ s.buffer[1].first <= s.buffer[j].first
          /\ j <= i => s.buffer[j].last <= s.buffer[i].last
          /\ j > i => s.buffer[i].last < s.buffer[j].first
  <2>1. Ascending(s.buffer, s.ordered)
    BY Zenon, <1>1 DEF InSequence
  <2>2. \A j \in DOMAIN s.buffer : /\ j \in Nat /\ j > 0
                                  /\ s.buffer[j].first \in Nat /\ s.buffer[j].last \in Nat
    BY <1>1, <1>3, QueueFacts
  <2>3. ASSUME NEW j \in DOMAIN s.buffer PROVE s.buffer[1].first <= s.buffer[j].first
    <3>1. CASE j = 1
      BY <1>3, <2>2, <3>1
    <3>2. CASE j > 1
      <4>1. s.buffer[1].last < s.buffer[j].first /\ s.buffer[1].first <= s.buffer[1].last
        BY Zenon, <1>3, <2>1, <3>2 DEF Ascending
      <4> QED BY <1>3, <2>2, <4>1
    <3> QED BY <2>2, <3>1, <3>2
  <2>4. ASSUME NEW j \in DOMAIN s.buffer, j <= i PROVE s.buffer[j].last <= s.buffer[i].last
    <3>1. CASE j = i
      BY <2>2, <3>1
    <3>2. CASE j < i
      <4>1. s.buffer[j].last < s.buffer[i].first /\ s.buffer[i].first <= s.buffer[i].last
        BY Zenon, <2>1, <3>2 DEF Ascending
      <4> QED BY <2>2, <4>1
    <3> QED BY <2>2, <2>4, <3>1, <3>2
  <2>5. ASSUME NEW j \in DOMAIN s.buffer, j > i PROVE s.buffer[i].last < s.buffer[j].first
    BY Zenon, <2>1, <2>2, <2>5 DEF Ascending
  <2> QED BY <2>3, <2>4, <2>5
<1>13. req.first <= req.last /\ 0 < req.first /\ req.last <= s.ordered
  <2>1. Ascending(s.buffer, s.ordered)
    BY Zenon, <1>1 DEF InSequence
  <2>2. /\ s.buffer[1].first <= s.buffer[i].first /\ s.buffer[i].first <= s.buffer[i].last
        /\ 0 < s.buffer[1].first /\ s.buffer[i].last <= s.ordered
    BY Zenon, <1>3, <1>12, <2>1 DEF Ascending
  <2>3. s.buffer[1].first \in Nat /\ s.buffer[i].first \in Nat /\ s.buffer[i].last \in Nat
    BY Zenon, <1>1, <1>3, QueueFacts
  <2>4. s.buffer[1].first <= s.buffer[i].last
    BY Zenon, <2>2, <2>3, AtMostIsTransitive
  <2> QED BY Zenon, <1>5, <2>2, <2>4
<1>14. InSequence(t)
  <2>1. Ascending(p, s.ordered)
    <3>1. Ascending(s.persisting, s.ordered) /\ Before(s.persisting, s.buffer)
      BY Zenon, <1>1 DEF InSequence
    <3>2. \A k \in DOMAIN s.persisting : s.persisting[k].last < req.first
      BY Zenon, <1>3, <1>5, <3>1 DEF Before
    <3>3. \A k \in DOMAIN p : 0 < p[k].first /\ p[k].first <= p[k].last /\ p[k].last <= s.ordered
      BY Zenon, <1>8, <1>13, <3>1 DEF Ascending
    <3>4. \A k, j \in DOMAIN s.persisting : k < j => p[k].last < p[j].first
      BY Zenon, <1>8, <3>1 DEF Ascending
    <3>5. \A k \in DOMAIN s.persisting : p[k].last < p[n].first /\ k < n /\ ~(n < k)
      BY Zenon, <1>8, <3>2, BelowIsStrict
    <3>6. ~(n < n)
      BY Zenon, <1>8, BelowIsStrict
    <3> QED BY ZenonT(30), <1>8, <3>3, <3>4, <3>5, <3>6 DEF Ascending
  <2>2. Ascending(b, s.ordered)
    BY ZenonT(30), <1>1, <1>7 DEF InSequence, Ascending
  <2>3. Before(p, b)
    <3>1. \A k \in DOMAIN b : req.last < b[k].first
      BY Zenon, <1>5, <1>7, <1>12
    <3>2. \A j \in DOMAIN s.persisting, k \in DOMAIN b : s.persisting[j].last < b[k].first
      BY Zenon, <1>1, <1>7 DEF InSequence, Before
    <3> QED BY ZenonT(30), <1>8, <3>1, <3>2 DEF Before
  <2>4. Before(p, s.block_rx) /\ Before(b, s.block_rx)
    <3>1. Before(s.persisting, s.block_rx) /\ Before(s.buffer, s.block_rx)
      BY Zenon, <1>1 DEF InSequence
    <3>2. Before(b, s.block_rx)
      BY Zenon, <1>7, <3>1 DEF Before
    <3>3. \A k \in DOMAIN s.block_rx : req.last < s.block_rx[k].first
      BY Zenon, <1>1, <1>5, <3>1 DEF Before
    <3>4. Before(p, s.block_rx)
      BY Zenon, <1>8, <3>1, <3>3 DEF Before
    <3> QED BY Zenon, <3>2, <3>4
  <2> QED BY ZenonT(30), <1>1, <1>10, <1>11, <2>1, <2>2, <2>3, <2>4 DEF InSequence
<1>15. Prefix(b)
  <2>1. Prefix(s.buffer)
    BY Zenon DEF Sound
  <2> QED BY <1>7, <2>1 DEF Prefix
<1>16. ASSUME NEW q, Fits(q, s.buffer, s.block_rx, s.ordered)
       PROVE  Fits(q, b, s.block_rx, s.ordered)
  BY <1>7, <1>16 DEF Fits
<1>17. SyncAhead(t)
  <2>1. SyncAhead(s) /\ s.buffer # << >>
    BY SMTT(30), <1>3 DEF Sound
  <2> QED BY Zenon, <1>11, <2>1 DEF SyncAhead
<1>18. Covered(t, c)
  <2>1. ASSUME NEW x \in (s.ledger + 1)..s.ordered, Within(x, s.buffer)
        PROVE  Within(x, p) \/ Within(x, b)
    <3>1. PICK k \in DOMAIN s.buffer : s.buffer[k].first <= x /\ x <= s.buffer[k].last
      BY Zenon, <2>1 DEF Within
    <3>2. x \in Nat
      BY <1>1, QueueFacts
    <3>3. CASE k <= i
      <4>1. req.first <= x /\ x <= req.last
        <5>1. /\ s.buffer[1].first <= s.buffer[k].first /\ s.buffer[k].first <= x
              /\ x <= s.buffer[k].last /\ s.buffer[k].last <= s.buffer[i].last
          BY Zenon, <1>12, <3>1, <3>3
        <5>2. /\ s.buffer[1].first \in Nat /\ s.buffer[k].first \in Nat
              /\ s.buffer[k].last \in Nat /\ s.buffer[i].last \in Nat
          BY Zenon, <1>1, <1>3, QueueFacts
        <5>3. s.buffer[1].first <= x /\ x <= s.buffer[i].last
          BY Zenon, <3>2, <5>1, <5>2, AtMostIsTransitive
        <5> QED BY Zenon, <1>5, <5>3
      <4> QED BY Zenon, <1>8, <4>1 DEF Within
    <3>4. CASE k > i
      BY Zenon, <1>7, <3>1, <3>4 DEF Within
    <3>5. k \in Nat /\ i \in Nat
      BY Zenon, <1>1, <1>3, QueueFacts
    <3> QED BY Zenon, <3>3, <3>4, <3>5, OrderIsTotal
  <2>2. \A x : Within(x, s.persisting) => Within(x, p)
    BY Zenon, <1>8 DEF Within
  <2>3. Covered(s, c)
    BY Zenon DEF Sound
  <2> QED BY Zenon, <1>10, <1>11, <2>1, <2>2, <2>3 DEF Covered
<1>19. Ahead(t, c)
  <2>1. Ahead(s, c)
    BY Zenon DEF Sound
  <2>2. CASE s.stale \/ EpochOver(c, s.ledger)
    BY Zenon, <1>11, <2>2 DEF Ahead
  <2>3. CASE ~(s.stale \/ EpochOver(c, s.ledger))
    <3>1. \A k \in DOMAIN b : b[k].first > s.ledger
      BY Zenon, <1>7, <2>1, <2>3 DEF Ahead
    <3>2. \A k \in DOMAIN p : p[k].last > s.ledger => p[k].first > s.ledger
      BY ZenonT(30), <1>3, <1>5, <1>8, <2>1, <2>3 DEF Ahead
    <3> QED BY ZenonT(30), <1>10, <1>11, <2>1, <2>3, <3>1, <3>2 DEF Ahead
  <2> QED BY Zenon, <2>2, <2>3
<1>20. SigsBacked(b, c, V)
  <2>1. SigsBacked(s.buffer, c, V)
    BY DEF Sound
  <2>2. SUFFICES ASSUME NEW k \in DOMAIN b, NEW g \in b[k].sigs
                 PROVE  /\ b[k].stage # "Ordered" => g.ok
                        /\ g.ok /\ g.author \in c.nodes => VoteOf(g.author, b[k].last) \in V
    BY Zenon DEF SigsBacked
  <2>3. i + k \in DOMAIN s.buffer /\ b[k] = s.buffer[i + k]
    BY Zenon, <1>7
  <2> QED BY Zenon, <2>1, <2>3 DEF SigsBacked
<1>21. ProofsCertified(p, c, V)
  <2>1. ProofsCertified(s.persisting, c, V)
    BY Zenon DEF Sound
  <2> QED BY Zenon, <1>4, <1>5, <1>8, <2>1 DEF ProofsCertified
<1>22. Sound(t, c, V)
  <2>1. LedgerBehind(t, c)
    BY <1>11 DEF Sound, LedgerBehind
  <2> QED BY ZenonT(30), <1>10, <1>11, <1>14, <1>15, <1>16, <1>17, <1>18, <1>19, <1>20, <1>21, <2>1 DEF Sound
<1>23. er = 0 \/ (er = s.execution_root /\ IsFirst(b, er, "Ordered"))
  BY Zenon, <1>2, RootStaysFirst DEF er, b
<1>24. sr = 0 \/ (sr = s.signing_root /\ IsFirst(b, sr, "Executed"))
  BY Zenon, <1>2, RootStaysFirst DEF sr, b
<1>25. s.execution_root = s.buffer[i].last => er = 0
  BY <1>3 DEF er
<1> QED BY ZenonT(30), <1>10, <1>11, <1>22, <1>23, <1>24, <1>25 DEF Popped

\* Taking the head of a queue.
LEMMA TailFacts ==
    ASSUME NEW X, NEW q \in Seq(X), q # << >>, NEW r, r = Tail(q)
    PROVE  /\ r \in Seq(X) /\ Head(q) \in X /\ Head(q) = q[1] /\ 1 \in DOMAIN q
           /\ \A k \in DOMAIN r : k \in Nat /\ k > 0 /\ k + 1 \in DOMAIN q /\ r[k] = q[k + 1]
           /\ \A k \in DOMAIN q : k \in Nat /\ (k = 1 \/ (k - 1 \in DOMAIN r /\ r[k - 1] = q[k]))
<1>1. /\ Head(q) \in X /\ Head(q) = q[1] /\ r \in Seq(X)
      /\ Len(q) \in Nat /\ Len(q) > 0 /\ Len(r) = Len(q) - 1
      /\ \A k \in 1..Len(r) : r[k] = q[k + 1]
      /\ DOMAIN q = 1..Len(q) /\ DOMAIN r = 1..Len(r)
  BY HeadTailProperties, EmptySeq, LenProperties
<1>2. 1 \in DOMAIN q
  BY <1>1
<1>3. \A k \in DOMAIN r : k \in Nat /\ k > 0 /\ k + 1 \in DOMAIN q /\ r[k] = q[k + 1]
  BY <1>1
<1>4. ASSUME NEW k \in DOMAIN q, k # 1 PROVE k - 1 \in DOMAIN r /\ r[k - 1] = q[k]
  <2>1. k - 1 \in DOMAIN r /\ (k - 1) + 1 = k
    BY <1>1, <1>4
  <2> QED BY <1>3, <2>1
<1>5. \A k \in DOMAIN q : k \in Nat
  BY <1>1
<1> QED BY Zenon, <1>1, <1>2, <1>3, <1>4, <1>5

\* What is left of a queue is in order and fits as before.
LEMMA TailKeeps ==
    ASSUME NEW X, NEW q \in Seq(X), q # << >>, NEW r, r = Tail(q)
    PROVE  /\ \A hi : Ascending(q, hi) => Ascending(r, hi)
           /\ \A p : Before(p, q) => Before(p, r)
           /\ \A p : Before(q, p) => Before(r, p)
           /\ \A b, p, hi : Fits(q, b, p, hi) => Fits(r, b, p, hi)
           /\ \A b, p, hi : Fits(p, b, q, hi) => Fits(p, b, r, hi)
<1>1. \A k \in DOMAIN r : k \in Nat /\ k > 0 /\ k + 1 \in DOMAIN q /\ r[k] = q[k + 1]
  BY TailFacts
<1>2. \A j, k \in DOMAIN r : j < k => j + 1 < k + 1
  BY <1>1
<1>3. \A hi : Ascending(q, hi) => Ascending(r, hi)
  BY ZenonT(30), <1>1, <1>2 DEF Ascending
<1>4. (\A p : Before(p, q) => Before(p, r)) /\ (\A p : Before(q, p) => Before(r, p))
  BY Zenon, <1>1 DEF Before
<1>5. \A b, p, hi : Fits(q, b, p, hi) => Fits(r, b, p, hi)
  BY <1>1 DEF Fits
<1>6. \A b, p, hi : Fits(p, b, q, hi) => Fits(p, b, r, hi)
  BY SMTT(30), <1>1 DEF Fits
<1> QED BY Zenon, <1>3, <1>4, <1>5, <1>6

\* The invariant does not depend on votes that come later.
LEMMA MoreVotes ==
    ASSUME NEW s, NEW c, NEW V, NEW W, NodeOK(s, c, V), V \subseteq W
    PROVE  NodeOK(s, c, W)
<1>1. SigsBacked(s.buffer, c, W)
  BY Zenon DEF NodeOK, Sound, SigsBacked
<1>2. ProofsCertified(s.persisting, c, W)
  BY DEF NodeOK, Sound, ProofsCertified, Certified
<1> QED BY Zenon, <1>1, <1>2 DEF NodeOK, Sound

\* process_ordered_blocks puts the next batch at the end of the buffer.
LEMMA OrderedBlocksKept ==
    ASSUME NEW s, NEW c, NEW V, NodeOK(s, c, V), s.block_rx # << >>,
           NEW u, u = process_ordered_blocks([s EXCEPT !.block_rx = Tail(@)], Head(s.block_rx))
    PROVE  NodeOK(u, c, V)
<1> DEFINE h == Head(s.block_rx)
           r == Tail(s.block_rx)
           item == [first |-> h.first, last |-> h.last, stage |-> "Ordered", sigs |-> {}]
           b == Append(s.buffer, item)
           t == [s EXCEPT !.block_rx = r, !.buffer = b]
           n == Len(s.buffer) + 1
<1>1. /\ Sound(s, c, V) /\ s \in NodeState /\ InSequence(s)
      /\ ExecutionDriven(s) /\ SigningDriven(s)
  BY DEF NodeOK, Sound
<1>2. s.buffer \in Seq(Item) /\ s.block_rx \in Seq(Batch)
  BY <1>1 DEF NodeState
<1>3. /\ r \in Seq(Batch) /\ h \in Batch /\ h = s.block_rx[1] /\ 1 \in DOMAIN s.block_rx
      /\ \A k \in DOMAIN r : k \in Nat /\ k > 0 /\ k + 1 \in DOMAIN s.block_rx
                             /\ r[k] = s.block_rx[k + 1]
      /\ \A k \in DOMAIN s.block_rx : k = 1 \/ (k - 1 \in DOMAIN r /\ r[k - 1] = s.block_rx[k])
  <2> DEFINE q == s.block_rx
  <2>1. q \in Seq(Batch) /\ q # << >> /\ r = Tail(q) /\ h = Head(q)
    BY <1>2
  <2> HIDE DEF q, r, h
  <2>2. /\ r \in Seq(Batch) /\ h \in Batch /\ h = q[1] /\ 1 \in DOMAIN q
        /\ \A k \in DOMAIN r : k \in Nat /\ k > 0 /\ k + 1 \in DOMAIN q /\ r[k] = q[k + 1]
        /\ \A k \in DOMAIN q : k = 1 \/ (k - 1 \in DOMAIN r /\ r[k - 1] = q[k])
    BY <2>1, TailFacts
  <2> QED BY <2>2 DEF q
<1>4. t = [[s EXCEPT !.block_rx = r] EXCEPT !.buffer = b]
  BY <1>1 DEF NodeState
<1>5. u = IfNone(t.execution_root, advance_execution_root(t), t)
  <2>1. [s EXCEPT !.block_rx = r].buffer = s.buffer
    BY <1>1 DEF NodeState
  <2> QED BY Zenon, <1>4, <2>1 DEF process_ordered_blocks
<1>6. item \in Item /\ item.first = h.first /\ item.last = h.last /\ item.stage = "Ordered"
      /\ item.sigs = {} /\ h.first \in Nat /\ h.last \in Nat
  BY <1>3 DEF Item, Batch, Stage
<1> HIDE DEF h, item, r
<1>7. /\ b \in Seq(Item) /\ n \in DOMAIN b /\ b[n] = item
      /\ \A k \in DOMAIN s.buffer : k \in DOMAIN b /\ b[k] = s.buffer[k] /\ k \in Nat /\ k < n
      /\ \A k \in DOMAIN b : k \in DOMAIN s.buffer \/ k = n
      /\ n \in Nat
  <2> HIDE DEF b
  <2> QED BY SMTT(30), <1>2, <1>6, AppendFacts DEF b
<1> HIDE DEF n, b
<1>8. t \in NodeState /\ t.buffer = b /\ t.block_rx = r
  BY Zenon, <1>1, <1>3, <1>7 DEF NodeState
<1>9. /\ t.ordered = s.ordered /\ t.exec_req = s.exec_req /\ t.exec_resp = s.exec_resp
      /\ t.persisting = s.persisting /\ t.ledger = s.ledger /\ t.syncing = s.syncing
      /\ t.lost = s.lost /\ t.stale = s.stale /\ t.execution_root = s.execution_root
      /\ t.signing_root = s.signing_root /\ t.signing = s.signing
  BY <1>1 DEF NodeState
<1> HIDE DEF t
<1>10. /\ 0 < h.first /\ h.first <= h.last /\ h.last <= s.ordered
       /\ \A k \in DOMAIN r : h.last < r[k].first
       /\ \A k \in DOMAIN s.buffer : s.buffer[k].last < h.first
       /\ \A k \in DOMAIN s.persisting : s.persisting[k].last < h.first
  <2>1. 0 < h.first /\ h.first <= h.last /\ h.last <= s.ordered
    BY Zenon, <1>1, <1>3 DEF InSequence, Ascending
  <2>2. ASSUME NEW k \in DOMAIN r PROVE h.last < r[k].first
    <3>1. k + 1 \in DOMAIN s.block_rx /\ 1 < k + 1 /\ r[k] = s.block_rx[k + 1]
      BY <1>3
    <3> QED BY Zenon, <1>1, <1>3, <3>1 DEF InSequence, Ascending
  <2>3. \A k \in DOMAIN s.buffer : s.buffer[k].last < h.first
    BY Zenon, <1>1, <1>3 DEF InSequence, Before
  <2>4. \A k \in DOMAIN s.persisting : s.persisting[k].last < h.first
    BY <1>1, <1>3 DEF InSequence, Before
  <2> QED BY <2>1, <2>2, <2>3, <2>4
<1>11. InSequence(t)
  <2>1. Ascending(r, s.ordered) /\ Before(s.persisting, r) /\ Before(s.buffer, r)
    <3> USE DEF r
    <3> QED BY Zenon, <1>1, <1>2, TailKeeps DEF InSequence
  <2>2. Ascending(b, s.ordered)
    <3>1. Ascending(s.buffer, s.ordered)
      BY <1>1 DEF InSequence
    <3>2. \A k \in DOMAIN b : 0 < b[k].first /\ b[k].first <= b[k].last /\ b[k].last <= s.ordered
      BY ZenonT(30), <1>6, <1>7, <1>10, <3>1 DEF Ascending
    <3>3. \A j, k \in DOMAIN s.buffer : j < k => b[j].last < b[k].first
      BY <1>7, <3>1 DEF Ascending
    <3>4. \A j \in DOMAIN s.buffer : b[j].last < b[n].first /\ ~(n < j) /\ ~(n < n)
      BY <1>6, <1>7, <1>10
    <3> QED BY <1>7, <3>2, <3>3, <3>4 DEF Ascending
  <2>3. Before(s.persisting, b)
    BY Zenon, <1>1, <1>6, <1>7, <1>10 DEF InSequence, Before
  <2>4. Before(b, r)
    BY ZenonT(30), <1>6, <1>7, <1>10, <2>1 DEF Before
  <2> QED BY ZenonT(30), <1>1, <1>8, <1>9, <2>1, <2>2, <2>3, <2>4 DEF InSequence
<1>12. Prefix(b)
  BY <1>1, <1>6, <1>7 DEF Sound, Prefix
<1>13. ASSUME NEW q, Fits(q, s.buffer, s.block_rx, s.ordered), \A k \in DOMAIN q : q[k].last \in Nat
       PROVE  Fits(q, b, r, s.ordered)
  <2>1. \A k \in DOMAIN q : q[k].last < h.first /\ q[k].last < item.last
    BY <1>3, <1>6, <1>10, <1>13 DEF Fits
  <2>2. Fits(q, s.buffer, r, s.ordered)
    <3> USE DEF r
    <3> QED BY Zenon, <1>2, <1>13, TailKeeps
  <2>3. \A k \in DOMAIN q : q[k].last <= item.last /\ q[k].last # item.last
    BY <1>6, <1>13, <2>1
  <2>4. ASSUME NEW k \in DOMAIN q, NEW i \in DOMAIN b
        PROVE  /\ b[i].stage = "Ordered" => q[k].last <= b[i].last
               /\ q[k].last = b[i].last => q[k].first = b[i].first
    <3>1. CASE i \in DOMAIN s.buffer
      BY <1>7, <2>2, <3>1 DEF Fits
    <3>2. CASE i = n
      BY Zenon, <1>7, <2>3, <3>2
    <3> QED BY Zenon, <1>7, <3>1, <3>2
  <2> QED BY <2>2, <2>4 DEF Fits
<1>14. Fits(s.exec_req, b, r, s.ordered) /\ Fits(s.exec_resp, b, r, s.ordered)
  BY Zenon, <1>1, <1>13, QueueFacts DEF Sound
<1>15. SyncAhead(t)
  BY <1>1, <1>9 DEF Sound, SyncAhead
<1>16. Covered(t, c)
  <2>1. \A x : Within(x, s.buffer) => Within(x, b)
    BY Zenon, <1>7 DEF Within
  <2>2. \A x : Within(x, s.block_rx) => Within(x, b) \/ Within(x, r)
    BY ZenonT(30), <1>3, <1>6, <1>7 DEF Within
  <2> QED BY ZenonT(30), <1>1, <1>8, <1>9, <2>1, <2>2 DEF Sound, Covered
<1>17. Ahead(t, c)
  <2>1. CASE s.stale \/ EpochOver(c, s.ledger)
    BY Zenon, <1>9, <2>1 DEF Ahead
  <2>2. CASE ~(s.stale \/ EpochOver(c, s.ledger))
    <3>1. Ahead(s, c)
      BY <1>1 DEF Sound
    <3>2. \A k \in DOMAIN b : b[k].first > s.ledger
      BY ZenonT(30), <1>3, <1>6, <1>7, <2>2, <3>1 DEF Ahead
    <3>3. \A k \in DOMAIN r : r[k].first > s.ledger
      BY Zenon, <1>3, <2>2, <3>1 DEF Ahead
    <3> QED BY ZenonT(30), <1>8, <1>9, <2>2, <3>1, <3>2, <3>3 DEF Ahead
  <2> QED BY <2>1, <2>2
<1>18. SigsBacked(b, c, V)
  BY Zenon, <1>1, <1>6, <1>7 DEF Sound, SigsBacked
<1>19. Sound(t, c, V)
  BY ZenonT(30), <1>1, <1>8, <1>9, <1>11, <1>12, <1>14, <1>15, <1>16, <1>17, <1>18 DEF Sound, LedgerBehind
<1>20. t.execution_root = 0 \/ ExecutionDriven(t)
  <2>1. CASE s.execution_root # 0
    <3>1. IsFirst(b, s.execution_root, "Ordered")
      BY <1>1, <1>7, <2>1 DEF ExecutionDriven, IsFirst
    <3> QED BY ZenonT(30), <1>1, <1>8, <1>9, <3>1 DEF ExecutionDriven
  <2> QED BY Zenon, <1>9, <2>1
<1>21. SigningDriven(t)
  <2>1. IsFirst(b, s.signing_root, "Executed")
    BY SMTT(30), <1>1, <1>6, <1>7 DEF SigningDriven, IsFirst
  <2> QED BY Zenon, <1>1, <1>8, <1>9, <2>1 DEF SigningDriven
<1>22. /\ Sound(u, c, V) /\ ExecutionDriven(u)
       /\ u.buffer = t.buffer /\ u.signing_root = t.signing_root /\ u.signing = t.signing
  BY Zenon, <1>5, <1>19, <1>20, FillExecutionRoot
<1> QED BY <1>21, <1>22 DEF NodeOK, SigningDriven

\* The answers and requests that wait may change as long as they fit.
LEMMA SoundQueues ==
    ASSUME NEW s, NEW t, NEW c, NEW V, Sound(s, c, V), t \in NodeState,
           t.ordered = s.ordered, t.block_rx = s.block_rx, t.buffer = s.buffer,
           t.persisting = s.persisting, t.ledger = s.ledger,
           t.syncing = s.syncing, t.lost = s.lost, t.stale = s.stale,
           Fits(t.exec_req, t.buffer, t.block_rx, t.ordered),
           Fits(t.exec_resp, t.buffer, t.block_rx, t.ordered)
    PROVE  Sound(t, c, V)
BY ZenonT(30) DEF Sound, InSequence, SyncAhead, LedgerBehind, Covered, Ahead

\* What fits the items of a buffer fits them when they have gone on.
LEMMA FitsMarked ==
    ASSUME NEW q, NEW b, NEW d, NEW r, NEW hi, Fits(q, b, r, hi), DOMAIN d = DOMAIN b,
           \A k \in DOMAIN b :
             /\ d[k].first = b[k].first /\ d[k].last = b[k].last
             /\ d[k].stage = "Ordered" => b[k].stage = "Ordered"
    PROVE  Fits(q, d, r, hi)
BY SMTT(30) DEF Fits

\* Items may change their stage and signatures in place.
LEMMA SoundMarked ==
    ASSUME NEW s, NEW t, NEW c, NEW V, Sound(s, c, V), t \in NodeState,
           t.ordered = s.ordered, t.block_rx = s.block_rx, t.exec_req = s.exec_req,
           t.exec_resp = s.exec_resp, t.persisting = s.persisting, t.ledger = s.ledger,
           t.syncing = s.syncing, t.lost = s.lost, t.stale = s.stale,
           DOMAIN t.buffer = DOMAIN s.buffer,
           \A k \in DOMAIN s.buffer :
             /\ t.buffer[k].first = s.buffer[k].first /\ t.buffer[k].last = s.buffer[k].last
             /\ t.buffer[k].stage = "Ordered" => s.buffer[k].stage = "Ordered",
           Prefix(t.buffer), SigsBacked(t.buffer, c, V)
    PROVE  Sound(t, c, V)
<1>1. InSequence(t)
  BY ZenonT(30) DEF Sound, InSequence, Ascending, Before
<1>2. Fits(t.exec_req, t.buffer, t.block_rx, t.ordered)
  <2>1. Fits(t.exec_req, s.buffer, t.block_rx, t.ordered)
    BY Zenon DEF Sound
  <2> QED BY Zenon, <2>1, FitsMarked
<1>3. Fits(t.exec_resp, t.buffer, t.block_rx, t.ordered)
  <2>1. Fits(t.exec_resp, s.buffer, t.block_rx, t.ordered)
    BY Zenon DEF Sound
  <2> QED BY Zenon, <2>1, FitsMarked
<1>4. SyncAhead(t)
  <2>1. t.buffer \in Seq(Item) /\ (s.buffer = << >> => DOMAIN s.buffer = {})
    BY DEF NodeState
  <2>2. s.buffer = << >> => t.buffer = << >>
    <3>1. t.buffer # << >> => 1 \in DOMAIN t.buffer
      BY Zenon, <2>1, TailFacts
    <3> QED BY Zenon, <2>1, <3>1
  <2> QED BY Zenon, <2>2 DEF Sound, SyncAhead
<1>5. \A x : Within(x, s.buffer) => Within(x, t.buffer)
  BY ZenonT(30) DEF Within
<1>6. Covered(t, c)
  BY SMTT(30), <1>5 DEF Sound, Covered
<1>7. Ahead(t, c)
  BY Zenon DEF Sound, Ahead
<1> QED BY ZenonT(30), <1>1, <1>2, <1>3, <1>4, <1>6, <1>7 DEF Sound, LedgerBehind

\* The first item in a stage stays the first.
LEMMA SameFirst ==
    ASSUME NEW b, NEW d, DOMAIN d = DOMAIN b, NEW root, NEW stage,
           \A k \in DOMAIN b : d[k].last = b[k].last /\ (d[k].stage = stage <=> b[k].stage = stage),
           IsFirst(b, root, stage)
    PROVE  IsFirst(d, root, stage)
<1>1. CASE root = 0 /\ \A i \in DOMAIN b : b[i].stage # stage
  BY Zenon, <1>1 DEF IsFirst
<1>2. CASE \E i \in DOMAIN b : /\ b[i].last = root /\ b[i].stage = stage
                               /\ \A j \in DOMAIN b : j < i => b[j].stage # stage
  BY Zenon, <1>2 DEF IsFirst
<1> QED BY <1>1, <1>2 DEF IsFirst

\* Item i is the first to be executed, and resp is an answer of its blocks.
Awaits(s, i, resp) ==
    /\ i \in DOMAIN s.buffer
    /\ s.buffer[i].stage = "Ordered" /\ s.buffer[i].first = resp.first
    /\ s.buffer[i].last = s.execution_root
    /\ \A j \in DOMAIN s.buffer : j < i => s.buffer[j].stage # "Ordered"

\* The answer at the head of a queue fits as the queue does.
LEMMA FirstFits ==
    ASSUME NEW q, NEW b, NEW r, NEW hi, Fits(q, b, r, hi), 1 \in DOMAIN q, NEW x, x = q[1]
    PROVE  Fits(<<x>>, b, r, hi)
<1>1. \A k \in DOMAIN <<x>> : <<x>>[k] = q[1]
  OBVIOUS
<1> QED BY <1>1 DEF Fits

\* An answer that finds an item at or after the execution root finds the execution root:
\* it is to be executed, and the answer is of its blocks.
LEMMA ResponseFinds ==
    ASSUME NEW s, NEW c, NEW V, Sound(s, c, V),
           IsFirst(s.buffer, s.execution_root, "Ordered"), NEW resp \in ExecutionAnswer,
           Fits(<<resp>>, s.buffer, s.block_rx, s.ordered),
           NEW i, i = find_elem_by_key(s, s.execution_root, resp.last), i # 0
    PROVE  Awaits(s, i, resp)
<1>1. s \in NodeState /\ Ascending(s.buffer, s.ordered) /\ s.execution_root \in Nat
  BY DEF Sound, InSequence, NodeState
<1>2. resp.last \in Nat
  BY DEF ExecutionAnswer
<1>3. /\ s.execution_root # 0 /\ i = Index(s, resp.last) /\ i >= Index(s, s.execution_root)
  BY Zenon DEF find_elem_by_key
<1>4. i \in DOMAIN s.buffer /\ s.buffer[i].last = resp.last
  <2>1. LET k == Index(s, resp.last)
        IN  k # 0 => k \in DOMAIN s.buffer /\ s.buffer[k].last = resp.last
    BY Zenon, <1>1, <1>2, IndexFacts
  <2> QED BY Zenon, <1>3, <2>1
<1>5. PICK k \in DOMAIN s.buffer :
        /\ s.buffer[k].last = s.execution_root /\ s.buffer[k].stage = "Ordered"
        /\ \A j \in DOMAIN s.buffer : j < k => s.buffer[j].stage # "Ordered"
  BY <1>3 DEF IsFirst
<1>6. k = Index(s, s.execution_root)
  BY ZenonT(30), <1>1, <1>5, IndexFacts
<1>7. 1 \in DOMAIN <<resp>> /\ <<resp>>[1] = resp
  OBVIOUS
<1>8. resp.last <= s.buffer[k].last /\ resp.first = s.buffer[i].first
  BY Zenon, <1>4, <1>5, <1>7 DEF Fits
<1>9. i = k
  <2>1. CASE i > k
    <3>1. s.buffer[k].last < s.buffer[i].first /\ s.buffer[i].first <= s.buffer[i].last
      BY Zenon, <1>1, <1>4, <1>5, <2>1 DEF Ascending
    <3> QED BY SMTT(30), <1>1, <1>4, <1>8, <3>1, QueueFacts
  <2>2. i >= k /\ i \in Nat /\ k \in Nat
    BY Zenon, <1>1, <1>3, <1>4, <1>6, QueueFacts
  <2> QED BY Zenon, <2>1, <2>2, OrderIsTotal
<1> QED BY ZenonT(30), <1>4, <1>5, <1>8, <1>9 DEF Awaits

\* An executed item is aggregated at once or waits to be signed.
LEMMA ExecutedKept ==
    ASSUME NEW s, NEW c, NEW V, Sound(s, c, V), NEW i \in DOMAIN s.buffer,
           IsFirst(s.buffer, s.execution_root, "Ordered"),
           IsFirst(s.buffer, s.signing_root, "Executed"),
           s.buffer[i].stage = "Ordered", s.buffer[i].last = s.execution_root,
           \A j \in DOMAIN s.buffer : j < i => s.buffer[j].stage # "Ordered",
           NEW t, t = Executed(s, i)
    PROVE  /\ Sound(t, c, V)
           /\ Cursor(t.buffer, t.execution_root, "Ordered")
           /\ \/ t.signing_root = 0
              \/ /\ t.signing_root = s.signing_root
                 /\ IsFirst(t.buffer, t.signing_root, "Executed")
           /\ t.signing = s.signing
<1> DEFINE valid == Aggregate(s.buffer[i].sigs)
<1>1. s \in NodeState /\ s.buffer \in Seq(Item) /\ i \in Nat /\ s.buffer[i] \in Item
  BY BufferFacts DEF Sound, NodeState
<1>2. valid \in SUBSET Sig
  BY Zenon, <1>1 DEF Aggregate, Item
<1>3. \A g \in valid : g.ok /\ (g.author \in c.nodes => VoteOf(g.author, s.buffer[i].last) \in V)
  BY Zenon DEF Sound, SigsBacked, Aggregate
<1> HIDE DEF valid
<1>4. CASE check_voting_power(Authors(valid))
  <2>1. t = advance_head(s, i, valid)
    BY Zenon, <1>4 DEF Executed, valid
  <2>2. Certified(valid, s.buffer[i].last, c, V)
    BY Zenon, <1>3, <1>4 DEF Certified
  <2> QED BY SMTT(30), <1>2, <2>1, <2>2, HeadAdvanced DEF Cursor, Popped
<1>5. CASE ~check_voting_power(Authors(valid))
  <2> DEFINE item == [s.buffer[i] EXCEPT !.stage = "Executed", !.sigs = valid]
             b == [s.buffer EXCEPT ![i] = item]
  <2>1. t = [s EXCEPT !.buffer = b]
    <3>1. t = [s EXCEPT !.buffer[i].stage = "Executed", !.buffer[i].sigs = valid]
      BY <1>5 DEF Executed, valid
    <3> QED BY Zenon, <1>1, <3>1 DEF NodeState, Item
  <2>2. item \in Item /\ item.first = s.buffer[i].first /\ item.last = s.buffer[i].last
        /\ item.stage = "Executed" /\ item.sigs = valid
    BY ZenonT(30), <1>1, <1>2 DEF Item, Stage
  <2> HIDE DEF item
  <2>3. b \in Seq(Item) /\ DOMAIN b = DOMAIN s.buffer /\ b[i] = item
        /\ \A k \in DOMAIN b : k # i => b[k] = s.buffer[k]
    BY <1>1, <2>2, ExceptSeq
  <2> HIDE DEF b
  <2>4. /\ t \in NodeState /\ t.buffer = b
        /\ t.ordered = s.ordered /\ t.block_rx = s.block_rx /\ t.exec_req = s.exec_req
        /\ t.exec_resp = s.exec_resp /\ t.persisting = s.persisting /\ t.ledger = s.ledger
        /\ t.syncing = s.syncing /\ t.lost = s.lost /\ t.stale = s.stale
        /\ t.execution_root = s.execution_root /\ t.signing_root = s.signing_root
        /\ t.signing = s.signing
    BY Zenon, <1>1, <2>1, <2>3 DEF NodeState
  <2>5. \A k \in DOMAIN s.buffer :
             /\ b[k].first = s.buffer[k].first /\ b[k].last = s.buffer[k].last
             /\ b[k].stage = "Ordered" => s.buffer[k].stage = "Ordered"
    BY <2>2, <2>3
  <2>6. Prefix(b)
    BY ZenonT(30), <2>2, <2>3 DEF Sound, Prefix
  <2>7. SigsBacked(b, c, V)
    <3>1. SigsBacked(s.buffer, c, V)
      BY Zenon DEF Sound
    <3> QED BY <1>3, <2>2, <2>3, <3>1 DEF SigsBacked
  <2>8. Sound(t, c, V)
    <3>1. /\ DOMAIN t.buffer = DOMAIN s.buffer /\ Prefix(t.buffer) /\ SigsBacked(t.buffer, c, V)
          /\ \A k \in DOMAIN s.buffer :
               /\ t.buffer[k].first = s.buffer[k].first /\ t.buffer[k].last = s.buffer[k].last
               /\ t.buffer[k].stage = "Ordered" => s.buffer[k].stage = "Ordered"
      BY Zenon, <2>3, <2>4, <2>5, <2>6, <2>7
    <3> QED BY ZenonT(30), <2>4, <3>1, SoundMarked
  <2>9. Cursor(b, s.execution_root, "Ordered")
    BY <2>2, <2>3 DEF Cursor
  <2>10. s.signing_root = 0 \/ IsFirst(b, s.signing_root, "Executed")
    <3>1. CASE s.signing_root # 0
      <4>1. PICK k \in DOMAIN s.buffer :
              /\ s.buffer[k].last = s.signing_root /\ s.buffer[k].stage = "Executed"
              /\ \A j \in DOMAIN s.buffer : j < k => s.buffer[j].stage # "Executed"
        BY Zenon, <3>1 DEF IsFirst
      <4>2. ~(i < k) /\ k # i
        BY <4>1 DEF Sound, Prefix
      <4>3. k \in DOMAIN b /\ b[k].last = s.signing_root /\ b[k].stage = "Executed"
        BY Zenon, <2>3, <4>1, <4>2
      <4>4. \A j \in DOMAIN b : j < k => b[j].stage # "Executed"
        BY Zenon, <2>3, <4>1, <4>2
      <4> QED BY Zenon, <4>3, <4>4 DEF IsFirst
    <3> QED BY Zenon, <3>1
  <2> QED BY ZenonT(30), <2>4, <2>8, <2>9, <2>10
<1> QED BY Zenon, <1>4, <1>5

\* process_execution_response: whatever the answer, late, failed or of an item that is
\* gone, the roots are again the first items to execute and to sign.
LEMMA ExecutionResponseKept ==
    ASSUME NEW s, NEW c, NEW V, NodeOK(s, c, V), s.exec_resp # << >>,
           NEW u, u = process_execution_response([s EXCEPT !.exec_resp = Tail(@)],
                                                 Head(s.exec_resp))
    PROVE  NodeOK(u, c, V)
<1> DEFINE r == Tail(s.exec_resp)
           resp == Head(s.exec_resp)
           v == [s EXCEPT !.exec_resp = r]
           i == find_elem_by_key(v, v.execution_root, resp.last)
           skip == i = 0 \/ ~resp.ok \/ is_reconfiguration_suffix(resp.first)
           t == IF skip THEN v ELSE Executed(v, i)
           w == advance_execution_root(t)
<1>1. /\ Sound(s, c, V) /\ s \in NodeState /\ ExecutionDriven(s) /\ SigningDriven(s)
      /\ s.exec_resp \in Seq(ExecutionAnswer)
  BY Zenon DEF NodeOK, Sound, NodeState
<1>2. u = IfNone(w.signing_root, advance_signing_root(w), w)
  BY DEF process_execution_response
<1>3. r \in Seq(ExecutionAnswer) /\ resp \in ExecutionAnswer /\ resp = s.exec_resp[1]
      /\ 1 \in DOMAIN s.exec_resp
  BY Zenon, <1>1, TailFacts
<1>4. /\ v \in NodeState /\ v.exec_resp = r
      /\ v.ordered = s.ordered /\ v.block_rx = s.block_rx /\ v.buffer = s.buffer
      /\ v.exec_req = s.exec_req /\ v.persisting = s.persisting /\ v.ledger = s.ledger
      /\ v.syncing = s.syncing /\ v.lost = s.lost /\ v.stale = s.stale
      /\ v.execution_root = s.execution_root /\ v.signing_root = s.signing_root
      /\ v.signing = s.signing
  BY Zenon, <1>1, <1>3 DEF NodeState
<1>5. /\ Fits(r, s.buffer, s.block_rx, s.ordered)
      /\ Fits(s.exec_req, s.buffer, s.block_rx, s.ordered)
      /\ Fits(s.exec_resp, s.buffer, s.block_rx, s.ordered)
  BY Zenon, <1>1, TailKeeps DEF Sound
<1>6. Fits(<<resp>>, s.buffer, s.block_rx, s.ordered)
  BY Zenon, <1>3, <1>5, FirstFits
<1> HIDE DEF v, r, resp
<1>7. Sound(v, c, V)
  BY Zenon, <1>1, <1>4, <1>5, SoundQueues
<1>8. /\ IsFirst(v.buffer, v.execution_root, "Ordered")
      /\ IsFirst(v.buffer, v.signing_root, "Executed")
  BY Zenon, <1>1, <1>4 DEF ExecutionDriven, SigningDriven
<1>9. i # 0 => /\ i \in DOMAIN v.buffer
               /\ v.buffer[i].stage = "Ordered" /\ v.buffer[i].last = v.execution_root
               /\ \A j \in DOMAIN v.buffer : j < i => v.buffer[j].stage # "Ordered"
  <2>1. i = find_elem_by_key(v, v.execution_root, resp.last)
    OBVIOUS
  <2> HIDE DEF i
  <2>2. Fits(<<resp>>, v.buffer, v.block_rx, v.ordered)
    BY Zenon, <1>4, <1>6
  <2>3. i # 0 => Awaits(v, i, resp)
    BY Zenon, <1>3, <1>7, <1>8, <2>1, <2>2, ResponseFinds
  <2> QED BY Zenon, <2>3 DEF Awaits
<1> HIDE DEF i
<1>10. /\ Sound(t, c, V)
       /\ Cursor(t.buffer, t.execution_root, "Ordered")
       /\ \/ t.signing_root = 0
          \/ /\ t.signing_root = v.signing_root
             /\ IsFirst(t.buffer, t.signing_root, "Executed")
       /\ t.signing = v.signing
  <2>1. CASE skip
    BY Zenon, <1>7, <1>8, <2>1, FirstIsCursor
  <2>2. CASE ~skip
    <3>1. i # 0 /\ t = Executed(v, i)
      BY Zenon, <2>2
    <3> QED BY <1>7, <1>8, <1>9, <3>1, ExecutedKept
  <2> QED BY Zenon, <2>1, <2>2
<1> HIDE DEF t, skip
<1>11. /\ Sound(w, c, V) /\ ExecutionDriven(w)
       /\ w.buffer = t.buffer /\ w.signing_root = t.signing_root /\ w.signing = t.signing
  BY Zenon, <1>10, AdvanceExecutionRoot
<1> HIDE DEF w
<1>12. w.signing_root = 0 \/ SigningDriven(w)
  BY ZenonT(30), <1>1, <1>4, <1>10, <1>11 DEF SigningDriven
<1> QED BY ZenonT(30), <1>2, <1>11, <1>12, FillSigningRoot

\* process_signing_response: the item that is signed was waiting for it, if it is still
\* there, and the signing root moves to the first that waits.
LEMMA SigningResponseKept ==
    ASSUME NEW s, NEW c, NEW V, NodeOK(s, c, V), s.signing # << >>, NEW ok \in BOOLEAN,
           NEW u, u = process_signing_response([s EXCEPT !.signing = Tail(@)],
                                               Head(s.signing), ok)
    PROVE  NodeOK(u, c, V)
<1> DEFINE r == Tail(s.signing)
           last == Head(s.signing)
           v == [s EXCEPT !.signing = r]
           S == ToSign(v, last, ok)
           b == [i \in DOMAIN v.buffer |->
                   IF i \in S THEN [v.buffer[i] EXCEPT !.stage = "Signed"] ELSE v.buffer[i]]
           t == [v EXCEPT !.buffer = b]
<1>1. /\ Sound(s, c, V) /\ s \in NodeState /\ ExecutionDriven(s) /\ SigningDriven(s)
      /\ s.signing \in Seq(Nat) /\ s.buffer \in Seq(Item)
  BY DEF NodeOK, Sound, NodeState
<1>2. r \in Seq(Nat) /\ last \in Nat
  BY <1>1, TailFacts
<1>3. /\ v \in NodeState /\ v.buffer = s.buffer
      /\ v.ordered = s.ordered /\ v.block_rx = s.block_rx /\ v.exec_req = s.exec_req
      /\ v.exec_resp = s.exec_resp /\ v.persisting = s.persisting /\ v.ledger = s.ledger
      /\ v.syncing = s.syncing /\ v.lost = s.lost /\ v.stale = s.stale
      /\ v.execution_root = s.execution_root /\ v.signing_root = s.signing_root
  BY Zenon, <1>1, <1>2 DEF NodeState
<1>4. u = advance_signing_root(t)
  BY DEF process_signing_response
<1>5. \A i \in S : s.buffer[i].stage = "Executed"
  BY <1>3 DEF ToSign
<1> HIDE DEF v, r, last, S
<1>6. /\ b \in Seq(Item) /\ DOMAIN b = DOMAIN s.buffer
      /\ \A k \in DOMAIN s.buffer :
           /\ b[k].first = s.buffer[k].first /\ b[k].last = s.buffer[k].last
           /\ b[k].sigs = s.buffer[k].sigs
           /\ \/ b[k].stage = s.buffer[k].stage
              \/ b[k].stage = "Signed" /\ s.buffer[k].stage = "Executed"
  <2>1. \A k \in DOMAIN s.buffer : s.buffer[k] \in Item
    BY Zenon, <1>1, BufferFacts
  <2>2. DOMAIN b = DOMAIN s.buffer /\ \A k \in DOMAIN s.buffer :
          b[k] = IF k \in S THEN [s.buffer[k] EXCEPT !.stage = "Signed"] ELSE s.buffer[k]
    BY <1>3
  <2> HIDE DEF b
  <2>3. ASSUME NEW k \in DOMAIN s.buffer
        PROVE  /\ b[k] \in Item
               /\ b[k].first = s.buffer[k].first /\ b[k].last = s.buffer[k].last
               /\ b[k].sigs = s.buffer[k].sigs
               /\ \/ b[k].stage = s.buffer[k].stage
                  \/ b[k].stage = "Signed" /\ s.buffer[k].stage = "Executed"
    BY ZenonT(30), <1>5, <2>1, <2>2 DEF Item, Stage
  <2>4. b \in Seq(Item)
    <3>1. Len(s.buffer) \in Nat /\ DOMAIN s.buffer = 1..Len(s.buffer)
      BY <1>1, BufferFacts
    <3>2. b = [k \in 1..Len(s.buffer) |-> b[k]]
      BY <1>3, <3>1 DEF b
    <3>3. b \in [1..Len(s.buffer) -> Item]
      BY Zenon, <2>3, <3>1, <3>2
    <3> QED BY <3>1, <3>3, SeqDef
  <2> QED BY Zenon, <2>2, <2>3, <2>4
<1> HIDE DEF b
<1>7. /\ t \in NodeState /\ t.buffer = b
      /\ t.ordered = s.ordered /\ t.block_rx = s.block_rx /\ t.exec_req = s.exec_req
      /\ t.exec_resp = s.exec_resp /\ t.persisting = s.persisting /\ t.ledger = s.ledger
      /\ t.syncing = s.syncing /\ t.lost = s.lost /\ t.stale = s.stale
      /\ t.execution_root = s.execution_root /\ t.signing_root = s.signing_root
  BY Zenon, <1>3, <1>6 DEF NodeState
<1> HIDE DEF t
<1>8. Sound(t, c, V)
  <2>1. Prefix(b)
    BY ZenonT(30), <1>1, <1>6 DEF Sound, Prefix
  <2>2. SigsBacked(b, c, V)
    BY <1>1, <1>6 DEF Sound, SigsBacked
  <2>3. /\ DOMAIN t.buffer = DOMAIN s.buffer
        /\ \A k \in DOMAIN s.buffer :
             /\ t.buffer[k].first = s.buffer[k].first /\ t.buffer[k].last = s.buffer[k].last
             /\ t.buffer[k].stage = "Ordered" => s.buffer[k].stage = "Ordered"
    BY <1>6, <1>7
  <2>4. Prefix(t.buffer) /\ SigsBacked(t.buffer, c, V)
    BY Zenon, <1>7, <2>1, <2>2
  <2> QED BY ZenonT(30), <1>1, <1>7, <2>3, <2>4, SoundMarked
<1>9. ExecutionDriven(t)
  <2>1. \A k \in DOMAIN s.buffer : /\ b[k].last = s.buffer[k].last
                                  /\ b[k].stage = "Ordered" <=> s.buffer[k].stage = "Ordered"
    BY <1>6
  <2>2. IsFirst(b, s.execution_root, "Ordered")
    BY ZenonT(30), <1>1, <1>6, <2>1, SameFirst DEF ExecutionDriven
  <2> QED BY <1>1, <1>7, <2>2 DEF ExecutionDriven
<1>10. Cursor(t.buffer, t.signing_root, "Executed")
  <2>1. Cursor(s.buffer, s.signing_root, "Executed")
    BY ZenonT(30), <1>1, FirstIsCursor DEF SigningDriven
  <2> QED BY <1>6, <1>7, <2>1 DEF Cursor
<1> QED BY Zenon, <1>4, <1>8, <1>9, <1>10, AdvanceSigningRoot

\* Signatures are replaced in place.
LEMMA SigsReplaced ==
    ASSUME NEW s, NEW c, NEW V, NodeOK(s, c, V), NEW i \in DOMAIN s.buffer,
           NEW sigs \in SUBSET Sig,
           \A g \in sigs : /\ s.buffer[i].stage # "Ordered" => g.ok
                           /\ g.ok /\ g.author \in c.nodes =>
                                VoteOf(g.author, s.buffer[i].last) \in V
    PROVE  NodeOK([s EXCEPT !.buffer[i].sigs = sigs], c, V)
<1> DEFINE item == [s.buffer[i] EXCEPT !.sigs = sigs]
           b == [s.buffer EXCEPT ![i] = item]
           t == [s EXCEPT !.buffer[i].sigs = sigs]
<1>1. /\ Sound(s, c, V) /\ s \in NodeState /\ ExecutionDriven(s) /\ SigningDriven(s)
      /\ s.buffer \in Seq(Item) /\ s.buffer[i] \in Item
  BY Zenon, BufferFacts DEF NodeOK, Sound, NodeState
<1>2. t = [s EXCEPT !.buffer = b]
  BY <1>1 DEF NodeState, Item
<1>3. item \in Item /\ item.first = s.buffer[i].first /\ item.last = s.buffer[i].last
      /\ item.stage = s.buffer[i].stage /\ item.sigs = sigs
  BY Zenon, <1>1 DEF Item
<1> HIDE DEF item
<1>4. b \in Seq(Item) /\ DOMAIN b = DOMAIN s.buffer /\ b[i] = item
      /\ \A k \in DOMAIN b : k # i => b[k] = s.buffer[k]
  BY <1>1, <1>3, ExceptSeq
<1> HIDE DEF b
<1>5. /\ t \in NodeState /\ t.buffer = b
      /\ t.ordered = s.ordered /\ t.block_rx = s.block_rx /\ t.exec_req = s.exec_req
      /\ t.exec_resp = s.exec_resp /\ t.persisting = s.persisting /\ t.ledger = s.ledger
      /\ t.syncing = s.syncing /\ t.lost = s.lost /\ t.stale = s.stale
      /\ t.execution_root = s.execution_root /\ t.signing_root = s.signing_root
      /\ t.signing = s.signing
  BY Zenon, <1>1, <1>2, <1>4 DEF NodeState
<1> HIDE DEF t
<1>6. \A k \in DOMAIN s.buffer :
        /\ b[k].first = s.buffer[k].first /\ b[k].last = s.buffer[k].last
        /\ b[k].stage = s.buffer[k].stage
  BY <1>3, <1>4
<1>7. Sound(t, c, V)
  <2>1. Prefix(b)
    <3>1. Prefix(s.buffer)
      BY Zenon, <1>1 DEF Sound
    <3> QED BY ZenonT(30), <1>4, <1>6, <3>1 DEF Prefix
  <2>2. SigsBacked(b, c, V)
    <3>1. SigsBacked(s.buffer, c, V)
      BY ZenonT(30), <1>1 DEF Sound
    <3> QED BY ZenonT(30), <1>3, <1>4, <3>1 DEF SigsBacked
  <2>3. \A k \in DOMAIN s.buffer :
          /\ b[k].first = s.buffer[k].first /\ b[k].last = s.buffer[k].last
          /\ b[k].stage = "Ordered" => s.buffer[k].stage = "Ordered"
    BY Zenon, <1>6
  <2> QED BY ZenonT(30), <1>1, <1>4, <1>5, <2>1, <2>2, <2>3, SoundMarked
<1>8. ASSUME NEW root, NEW stage, IsFirst(s.buffer, root, stage) PROVE IsFirst(b, root, stage)
  <2>1. CASE root = 0 /\ \A k \in DOMAIN s.buffer : s.buffer[k].stage # stage
    BY Zenon, <1>4, <1>6, <2>1 DEF IsFirst
  <2>2. ASSUME NEW k \in DOMAIN s.buffer, s.buffer[k].last = root, s.buffer[k].stage = stage,
               \A j \in DOMAIN s.buffer : j < k => s.buffer[j].stage # stage
        PROVE  IsFirst(b, root, stage)
    <3>1. k \in DOMAIN b /\ b[k].last = root /\ b[k].stage = stage
      BY Zenon, <1>4, <1>6, <2>2
    <3>2. \A j \in DOMAIN b : j < k => b[j].stage # stage
      BY Zenon, <1>4, <1>6, <2>2
    <3> QED BY Zenon, <3>1, <3>2 DEF IsFirst
  <2> QED BY Zenon, <1>8, <2>1, <2>2 DEF IsFirst
<1>9. ExecutionDriven(t) /\ SigningDriven(t)
  BY Zenon, <1>1, <1>5, <1>8 DEF ExecutionDriven, SigningDriven
<1>10. NodeOK(t, c, V)
  BY Zenon, <1>7, <1>9 DEF NodeOK
<1> QED BY SMTT(30), <1>10 DEF t

\* An item with a result is aggregated, whatever waits before it.
LEMMA AggregatedKept ==
    ASSUME NEW s, NEW c, NEW V, NodeOK(s, c, V), NEW i \in DOMAIN s.buffer,
           s.buffer[i].stage # "Ordered",
           NEW proof \in SUBSET Sig, Certified(proof, s.buffer[i].last, c, V),
           NEW u, u = AfterAggregation(advance_head(s, i, proof))
    PROVE  NodeOK(u, c, V)
<1> DEFINE t == advance_head(s, i, proof)
<1>1. /\ Sound(s, c, V) /\ ExecutionDriven(s) /\ SigningDriven(s)
      /\ IsFirst(s.buffer, s.execution_root, "Ordered")
      /\ IsFirst(s.buffer, s.signing_root, "Executed")
  BY ZenonT(30) DEF NodeOK, ExecutionDriven, SigningDriven
<1>2. \A j \in DOMAIN s.buffer : j < i => s.buffer[j].stage # "Ordered"
  BY <1>1 DEF Sound, Prefix
<1>3. t = advance_head(s, i, proof)
  BY Zenon
<1> HIDE DEF t
<1>0. Popped(s, t, c, V)
  BY ZenonT(30), <1>1, <1>2, <1>3, HeadAdvanced
<1>4. /\ Sound(t, c, V)
      /\ \/ t.execution_root = 0
         \/ t.execution_root = s.execution_root /\ IsFirst(t.buffer, t.execution_root, "Ordered")
      /\ \/ t.signing_root = 0
         \/ t.signing_root = s.signing_root /\ IsFirst(t.buffer, t.signing_root, "Executed")
      /\ t.exec_req = s.exec_req /\ t.exec_resp = s.exec_resp /\ t.signing = s.signing
  BY <1>0 DEF Popped
<1>5. t.execution_root = 0 \/ ExecutionDriven(t)
  BY Zenon, <1>1, <1>4 DEF ExecutionDriven
<1>6. t.signing_root = 0 \/ SigningDriven(t)
  BY Zenon, <1>1, <1>4 DEF SigningDriven
<1> QED BY ZenonT(30), <1>3, <1>4, <1>5, <1>6, AfterAggregationFills

\* process_commit_message on a vote, of a node that has broadcast it or of a peer.
LEMMA CommitVoteKept ==
    ASSUME NEW s, NEW c, NEW V, NodeOK(s, c, V),
           NEW v \in [author : Validator, block : Nat, ok : BOOLEAN],
           v.author \in c.nodes => VoteOf(v.author, v.block) \in V,
           NEW u, u = process_commit_vote(s, v)
    PROVE  NodeOK(u, c, V)
<1> DEFINE i == Index(s, v.block)
           item == s.buffer[i]
           sig == [author |-> v.author, ok |-> v.ok]
           sigs == {g \in item.sigs : g.author # v.author} \cup {sig}
           matched == item.stage = "Ordered" \/ v.ok
           full == item.stage # "Ordered" /\ check_voting_power(Authors(sigs))
<1>1. s \in NodeState /\ Ascending(s.buffer, s.ordered) /\ v.block \in Nat
  BY Zenon DEF NodeOK, Sound, InSequence
<1>2. i # 0 => i \in DOMAIN s.buffer /\ item.last = v.block /\ item \in Item
  <2>1. i \in 0..Len(s.buffer) /\ (i # 0 => s.buffer[i].last = v.block)
    BY Zenon, <1>1, IndexFacts
  <2> QED BY SMTT(30), <1>1, <2>1, BufferFacts
<1>3. /\ i = 0 \/ ~matched => u = s
      /\ ~(i = 0 \/ ~matched) /\ full => u = AfterAggregation(advance_head(s, i, sigs))
      /\ ~(i = 0 \/ ~matched) /\ ~full => u = [s EXCEPT !.buffer[i].sigs = sigs]
  BY DEF process_commit_vote
<1> HIDE DEF i
<1>4. CASE i = 0 \/ ~matched
  BY Zenon, <1>3, <1>4
<1>5. CASE ~(i = 0 \/ ~matched)
  <2>1. i \in DOMAIN s.buffer /\ item.last = v.block /\ item \in Item
    BY Zenon, <1>2, <1>5
  <2>2. sig \in Sig /\ sig.author = v.author /\ sig.ok = v.ok
    BY Zenon DEF Sig
  <2>3. sigs \in SUBSET Sig
    BY ZenonT(30), <2>1, <2>2 DEF Item
  <2>4. \A g \in sigs : /\ item.stage # "Ordered" => g.ok
                        /\ g.ok /\ g.author \in c.nodes => VoteOf(g.author, item.last) \in V
    <3>1. SigsBacked(s.buffer, c, V)
      BY DEF NodeOK, Sound
    <3> HIDE DEF sig
    <3> QED BY ZenonT(30), <1>5, <2>1, <2>2, <3>1 DEF SigsBacked
  <2> HIDE DEF sigs
  <2>5. CASE full
    <3>1. Certified(sigs, item.last, c, V)
      BY Zenon, <2>4, <2>5 DEF Certified
    <3> QED BY ZenonT(30), <1>3, <1>5, <2>1, <2>3, <2>5, <3>1, AggregatedKept
  <2>6. CASE ~full
    BY SMTT(30), <1>3, <1>5, <2>1, <2>3, <2>4, <2>6, SigsReplaced
  <2> QED BY Zenon, <2>5, <2>6
<1> QED BY Zenon, <1>4, <1>5

\* process_commit_message on a decision: the proof is aggregated, or kept for the result.
LEMMA CommitDecisionKept ==
    ASSUME NEW s, NEW c, NEW V, NodeOK(s, c, V),
           NEW d \in [block : Nat, proof : SUBSET Sig], Certified(d.proof, d.block, c, V),
           NEW u, u = process_commit_decision(s, d)
    PROVE  NodeOK(u, c, V)
<1> DEFINE i == Index(s, d.block)
<1>1. s \in NodeState /\ Ascending(s.buffer, s.ordered) /\ d.block \in Nat
      /\ d.proof \in SUBSET Sig
  BY Zenon DEF NodeOK, Sound, InSequence
<1>2. i # 0 => i \in DOMAIN s.buffer /\ s.buffer[i].last = d.block
  BY Zenon, <1>1, IndexFacts
<1>3. /\ i = 0 => u = s
      /\ i # 0 /\ s.buffer[i].stage = "Ordered" => u = [s EXCEPT !.buffer[i].sigs = d.proof]
      /\ i # 0 /\ s.buffer[i].stage # "Ordered" =>
           u = AfterAggregation(advance_head(s, i, d.proof))
  BY DEF process_commit_decision
<1> HIDE DEF i
<1>4. CASE i = 0
  BY Zenon, <1>3, <1>4
<1>5. CASE i # 0 /\ s.buffer[i].stage = "Ordered"
  <2>1. \A g \in d.proof : g.ok /\ (g.author \in c.nodes => VoteOf(g.author, s.buffer[i].last) \in V)
    BY Zenon, <1>2, <1>5 DEF Certified
  <2>2. i \in DOMAIN s.buffer
    BY Zenon, <1>2, <1>5
  <2> DEFINE sigs == d.proof
  <2>3. /\ sigs \in SUBSET Sig /\ u = [s EXCEPT !.buffer[i].sigs = sigs]
        /\ \A g \in sigs : /\ s.buffer[i].stage # "Ordered" => g.ok
                           /\ g.ok /\ g.author \in c.nodes =>
                                VoteOf(g.author, s.buffer[i].last) \in V
    BY ZenonT(30), <1>1, <1>3, <1>5, <2>1
  <2> HIDE DEF sigs
  <2> QED BY SMTT(30), <2>2, <2>3, SigsReplaced
<1>6. CASE i # 0 /\ s.buffer[i].stage # "Ordered"
  BY ZenonT(30), <1>1, <1>2, <1>3, <1>6, AggregatedKept
<1> QED BY Zenon, <1>4, <1>5, <1>6
================================================================================
