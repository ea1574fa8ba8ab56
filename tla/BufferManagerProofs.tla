-------------------------- MODULE BufferManagerProofs --------------------------
(***************************************************************************)
(* Proofs about BufferManager for any validators, quorums, chains, epoch   *)
(* ends, limits and faults: the remaining actions keep the invariant of    *)
(* BufferManagerSteps, hence every item of the buffer is driven on, an     *)
(* execution result only meets its item, no block between ledger and order *)
(* is lost or out of order, and only certified blocks are persisted.  Of   *)
(* the constants the proofs assume ConfigAssumption only.                  *)
(***************************************************************************)
EXTENDS BufferManagerSteps

\* Nothing is in the empty queue.
LEMMA NoneInEmpty ==
    /\ \A hi : Ascending(<< >>, hi)
    /\ \A q : Before(<< >>, q) /\ Before(q, << >>)
    /\ Prefix(<< >>)
    /\ \A q, b, r, hi : Fits(q, b, r, hi) => Fits(q, << >>, r, hi)
    /\ \A b, r, hi : Fits(<< >>, b, r, hi)
    /\ \A c, V : SigsBacked(<< >>, c, V) /\ ProofsCertified(<< >>, c, V)
    /\ \A stage : IsFirst(<< >>, 0, stage)
<1>1. DOMAIN << >> = {}
  OBVIOUS
<1>2. (\A hi : Ascending(<< >>, hi)) /\ (\A q : Before(<< >>, q) /\ Before(q, << >>))
  BY <1>1 DEF Ascending, Before
<1>3. Prefix(<< >>) /\ (\A b, r, hi : Fits(<< >>, b, r, hi))
  BY <1>1 DEF Prefix, Fits
<1>4. \A q, b, r, hi : Fits(q, b, r, hi) => Fits(q, << >>, r, hi)
  BY <1>1 DEF Fits
<1>5. (\A c, V : SigsBacked(<< >>, c, V) /\ ProofsCertified(<< >>, c, V))
      /\ \A stage : IsFirst(<< >>, 0, stage)
  BY <1>1 DEF SigsBacked, ProofsCertified, IsFirst
<1> QED BY Zenon, <1>2, <1>3, <1>4, <1>5

\* A start with a ledger.
LEMMA NewNodeOK ==
    ASSUME NEW l \in Nat, NEW c, NEW V
    PROVE  NodeOK(NewNode(l), c, V)
<1> DEFINE t == NewNode(l)
<1>1. /\ t.ordered = l /\ t.ledger = l /\ t.syncing = 0 /\ t.buffer = << >>
      /\ t.block_rx = << >> /\ t.persisting = << >> /\ t.exec_req = << >>
      /\ t.exec_resp = << >> /\ t.signing = << >> /\ t.execution_root = 0
      /\ t.signing_root = 0 /\ t.executed = l /\ t.lost = FALSE /\ t.stale = FALSE
  BY DEF NewNode
<1>2. t \in NodeState
  BY EmptySeq DEF NewNode, NodeState
<1> HIDE DEF t
<1>3. InSequence(t) /\ SyncAhead(t)
  BY Zenon, <1>1, NoneInEmpty DEF InSequence, SyncAhead
<1>4. LedgerBehind(t, c) /\ Covered(t, c) /\ Ahead(t, c)
  <2>1. (l + 1)..l = {} /\ l <= l /\ DOMAIN << >> = {}
    OBVIOUS
  <2> QED BY <1>1, <2>1 DEF LedgerBehind, Covered, Ahead
<1>5. Sound(t, c, V)
  BY ZenonT(30), <1>1, <1>2, <1>3, <1>4, NoneInEmpty DEF Sound
<1>6. ExecutionDriven(t) /\ SigningDriven(t)
  BY <1>1, NoneInEmpty DEF ExecutionDriven, SigningDriven
<1>7. NodeOK(t, c, V)
  BY <1>5, <1>6 DEF NodeOK
<1> QED BY <1>7 DEF t

\* The block store orders blocks and sends them.
LEMMA OrderKept ==
    ASSUME NEW s, NEW c, NEW V, NodeOK(s, c, V), s.syncing = 0,
           NEW last \in Nat, last > s.ordered
    PROVE  NodeOK([s EXCEPT !.block_rx = Append(@, [first |-> s.ordered + 1, last |-> last]),
                            !.ordered = last], c, V)
<1> DEFINE batch == [first |-> s.ordered + 1, last |-> last]
           q == Append(s.block_rx, batch)
           t == [s EXCEPT !.block_rx = q, !.ordered = last]
           n == Len(s.block_rx) + 1
<1>1. /\ Sound(s, c, V) /\ s \in NodeState /\ InSequence(s)
      /\ ExecutionDriven(s) /\ SigningDriven(s) /\ s.block_rx \in Seq(Batch)
      /\ s.ordered \in Nat /\ s.ledger \in Nat
  BY DEF NodeOK, Sound, NodeState
<1>2. batch \in Batch /\ batch.first = s.ordered + 1 /\ batch.last = last
  BY <1>1 DEF Batch
<1> HIDE DEF batch
<1>3. /\ q \in Seq(Batch) /\ n \in DOMAIN q /\ q[n] = batch
      /\ \A k \in DOMAIN s.block_rx : k \in DOMAIN q /\ q[k] = s.block_rx[k] /\ k \in Nat /\ k < n
      /\ \A k \in DOMAIN q : k \in DOMAIN s.block_rx \/ k = n
      /\ n \in Nat
  <2> DEFINE r == s.block_rx
  <2>1. r \in Seq(Batch) /\ q = Append(r, batch) /\ n = Len(r) + 1
    BY Zenon, <1>1
  <2> HIDE DEF q, r, n
  <2>2. /\ q \in Seq(Batch) /\ n \in DOMAIN q /\ q[n] = batch
        /\ \A k \in DOMAIN r : k \in DOMAIN q /\ q[k] = r[k] /\ k \in Nat /\ k < n
        /\ \A k \in DOMAIN q : k \in DOMAIN r \/ k = n
        /\ n \in Nat
    BY <1>2, <2>1, AppendFacts
  <2> QED BY <2>2 DEF r
<1> HIDE DEF q, n
<1>4. /\ t \in NodeState /\ t.block_rx = q /\ t.ordered = last
      /\ t.buffer = s.buffer /\ t.exec_req = s.exec_req
      /\ t.exec_resp = s.exec_resp /\ t.persisting = s.persisting /\ t.ledger = s.ledger
      /\ t.syncing = 0 /\ t.lost = s.lost /\ t.stale = s.stale
      /\ t.execution_root = s.execution_root /\ t.signing_root = s.signing_root
      /\ t.signing = s.signing
  BY Zenon, <1>1, <1>3 DEF NodeState
<1> HIDE DEF t
<1>5. InSequence(t)
  <2>1. Ascending(s.persisting, last) /\ Ascending(s.buffer, last)
    BY <1>1, QueueFacts DEF InSequence, Ascending
  <2>2. Ascending(s.block_rx, s.ordered) /\ Ascending(s.block_rx, last)
    BY <1>1, QueueFacts DEF InSequence, Ascending
  <2>3. \A k \in DOMAIN q : 0 < q[k].first /\ q[k].first <= q[k].last /\ q[k].last <= last
    BY <1>1, <1>2, <1>3, <2>2 DEF Ascending
  <2>4. \A j, k \in DOMAIN s.block_rx : j < k => q[j].last < q[k].first
    BY Zenon, <1>3, <2>2 DEF Ascending
  <2>5. \A j \in DOMAIN s.block_rx : q[j].last < q[n].first /\ ~(n < j) /\ ~(n < n)
    BY <1>1, <1>2, <1>3, <2>2, QueueFacts DEF Ascending
  <2>6. Ascending(q, last)
    BY <1>3, <2>3, <2>4, <2>5 DEF Ascending
  <2>7. Before(s.persisting, q)
    <3>1. \A j \in DOMAIN s.persisting : s.persisting[j].last < batch.first
      BY <1>1, <1>2, QueueFacts DEF InSequence, Ascending
    <3>2. Before(s.persisting, s.block_rx)
      BY Zenon, <1>1 DEF InSequence
    <3> QED BY Zenon, <1>3, <3>1, <3>2 DEF Before
  <2>8. Before(s.buffer, q)
    BY SMTT(30), <1>1, <1>2, <1>3, QueueFacts DEF InSequence, Ascending, Before
  <2> QED BY ZenonT(30), <1>1, <1>4, <2>1, <2>6, <2>7, <2>8 DEF InSequence
<1>6. ASSUME NEW p, Fits(p, s.buffer, s.block_rx, s.ordered), \A k \in DOMAIN p : p[k].last \in Nat
      PROVE  Fits(p, s.buffer, q, last)
  <2>1. \A k \in DOMAIN p : p[k].last <= s.ordered /\ p[k].last <= last /\ p[k].last < batch.first
    BY <1>1, <1>2, <1>6 DEF Fits
  <2>2. \A k \in DOMAIN p, i \in DOMAIN q : p[k].last < q[i].first
    BY Zenon, <1>3, <1>6, <2>1 DEF Fits
  <2> QED BY Zenon, <1>6, <2>1, <2>2 DEF Fits
<1>7. Fits(s.exec_req, s.buffer, q, last) /\ Fits(s.exec_resp, s.buffer, q, last)
  BY Zenon, <1>1, <1>6, QueueFacts DEF Sound
<1>8. LedgerBehind(t, c) /\ SyncAhead(t)
  BY <1>1, <1>4 DEF Sound, LedgerBehind, SyncAhead
<1>9. Covered(t, c)
  <2>1. \A x : Within(x, s.block_rx) => Within(x, q)
    BY <1>3 DEF Within
  <2>2. \A x \in (s.ordered + 1)..last : Within(x, q)
    BY <1>1, <1>2, <1>3 DEF Within
  <2>3. \A x \in (s.ledger + 1)..last :
           x \in (s.ledger + 1)..s.ordered \/ x \in (s.ordered + 1)..last
    BY <1>1
  <2> QED BY ZenonT(30), <1>1, <1>4, <2>1, <2>2, <2>3 DEF Sound, Covered
<1>10. Ahead(t, c)
  <2>1. CASE s.stale \/ EpochOver(c, s.ledger)
    BY Zenon, <1>4, <2>1 DEF Ahead
  <2>2. CASE ~(s.stale \/ EpochOver(c, s.ledger))
    <3>1. Ahead(s, c) /\ s.ledger <= s.ordered
      BY Zenon, <1>1, <2>2 DEF Sound, LedgerBehind
    <3>2. \A k \in DOMAIN q : q[k].first > s.ledger
      <4>1. batch.first > s.ledger
        BY <1>1, <1>2, <3>1
      <4>2. \A k \in DOMAIN s.block_rx : q[k].first > s.ledger
        BY Zenon, <1>3, <2>2, <3>1 DEF Ahead
      <4> QED BY Zenon, <1>3, <4>1, <4>2
    <3> QED BY Zenon, <1>4, <2>2, <3>1, <3>2 DEF Ahead
  <2> QED BY Zenon, <2>1, <2>2
<1>11. Sound(t, c, V)
  BY Zenon, <1>1, <1>4, <1>5, <1>7, <1>8, <1>9, <1>10 DEF Sound
<1>12. ExecutionDriven(t) /\ SigningDriven(t)
  BY Zenon, <1>1, <1>4 DEF ExecutionDriven, SigningDriven
<1>13. NodeOK(t, c, V)
  BY Zenon, <1>11, <1>12 DEF NodeOK
<1> QED BY <1>13 DEF t, q, batch

\* The execution phase answers requests in order.
LEMMA ExecuteRequestKept ==
    ASSUME NEW s, NEW c, NEW V, NodeOK(s, c, V), s.exec_req # << >>, NEW done \in BOOLEAN,
           NEW e \in Nat, NEW req, req = Head(s.exec_req)
    PROVE  NodeOK([s EXCEPT !.exec_req = Tail(@),
                     !.exec_resp = Append(@, [first |-> req.first, last |-> req.last, ok |-> done]),
                     !.executed = e], c, V)
<1> DEFINE ans == [first |-> req.first, last |-> req.last, ok |-> done]
           r == Tail(s.exec_req)
           q == Append(s.exec_resp, ans)
           t == [s EXCEPT !.exec_req = r, !.exec_resp = q, !.executed = e]
           n == Len(s.exec_resp) + 1
           o == s.exec_req
           p == s.exec_resp
<1>1. /\ Sound(s, c, V) /\ s \in NodeState /\ ExecutionDriven(s) /\ SigningDriven(s)
      /\ o \in Seq(Batch) /\ p \in Seq(ExecutionAnswer)
      /\ o # << >> /\ r = Tail(o) /\ req = Head(o) /\ q = Append(p, ans) /\ n = Len(p) + 1
  BY DEF NodeOK, Sound, NodeState
<1>2. Fits(o, s.buffer, s.block_rx, s.ordered) /\ Fits(p, s.buffer, s.block_rx, s.ordered)
  BY Zenon, <1>1 DEF Sound
<1>3. s.execution_root # 0 => Asked(s.execution_root, o) \/ Asked(s.execution_root, p)
  BY Zenon, <1>1 DEF ExecutionDriven
<1> HIDE DEF r, q, n, o, p, ans
<1>4. /\ r \in Seq(Batch) /\ req \in Batch /\ req = o[1] /\ 1 \in DOMAIN o
      /\ \A k \in DOMAIN o : k = 1 \/ (k - 1 \in DOMAIN r /\ r[k - 1] = o[k])
  BY <1>1, TailFacts
<1>5. ans \in ExecutionAnswer /\ ans.first = req.first /\ ans.last = req.last
  BY Zenon, <1>4 DEF Batch, ExecutionAnswer, ans
<1>6. /\ q \in Seq(ExecutionAnswer) /\ n \in DOMAIN q /\ q[n] = ans
      /\ \A k \in DOMAIN p : k \in DOMAIN q /\ q[k] = p[k]
      /\ \A k \in DOMAIN q : k \in DOMAIN p \/ k = n
  BY <1>1, <1>5, AppendFacts
<1>7. /\ t \in NodeState /\ t.exec_req = r /\ t.exec_resp = q
      /\ t.ordered = s.ordered /\ t.block_rx = s.block_rx /\ t.buffer = s.buffer
      /\ t.persisting = s.persisting /\ t.ledger = s.ledger
      /\ t.syncing = s.syncing /\ t.lost = s.lost /\ t.stale = s.stale
      /\ t.execution_root = s.execution_root /\ t.signing_root = s.signing_root
      /\ t.signing = s.signing
  BY Zenon, <1>1, <1>4, <1>6 DEF NodeState
<1> HIDE DEF t
<1>8. Fits(r, s.buffer, s.block_rx, s.ordered)
  BY Zenon, <1>1, <1>2, TailKeeps
<1>9. Fits(q, s.buffer, s.block_rx, s.ordered)
  <2>1. \A k \in DOMAIN q : \/ k \in DOMAIN p /\ q[k] = p[k]
                            \/ q[k].first = o[1].first /\ q[k].last = o[1].last
    BY Zenon, <1>4, <1>5, <1>6
  <2> QED BY <1>2, <1>4, <2>1 DEF Fits
<1>10. Sound(t, c, V)
  BY Zenon, <1>1, <1>7, <1>8, <1>9, SoundQueues
<1>11. ExecutionDriven(t)
  <2>1. ASSUME NEW root, Asked(root, o) PROVE Asked(root, r) \/ Asked(root, q)
    BY <1>4, <1>5, <1>6, <2>1 DEF Asked
  <2>2. ASSUME NEW root, Asked(root, p) PROVE Asked(root, q)
    BY Zenon, <1>6, <2>2 DEF Asked
  <2> QED BY ZenonT(30), <1>1, <1>3, <1>7, <2>1, <2>2 DEF ExecutionDriven
<1>12. SigningDriven(t)
  BY Zenon, <1>1, <1>7 DEF SigningDriven
<1>13. NodeOK(t, c, V)
  BY Zenon, <1>10, <1>11, <1>12 DEF NodeOK
<1> QED BY Zenon, <1>13 DEF t, r, q, ans

\* What a natural has reached a later one has reached.
LEMMA AtLeastIsKept == \A a, b, d \in Nat : a >= d /\ a <= b => b >= d
OBVIOUS

\* The persisting phase commits what follows the ledger, or loses it.
LEMMA PersistKept ==
    ASSUME NEW s, NEW c, NEW V, NodeOK(s, c, V), c.reconfig \in Nat, s.persisting # << >>,
           NEW h, h = Head(s.persisting), NEW done \in BOOLEAN, done => h.first = s.ledger + 1
    PROVE  /\ h \in PersistRequest /\ Certified(h.proof, h.last, c, V)
           /\ NodeOK([s EXCEPT !.persisting = Tail(@),
                        !.ledger = IF done THEN h.last ELSE @,
                        !.lost = @ \/ (~done /\ h.last > s.ledger)], c, V)
<1> DEFINE q == s.persisting
           r == Tail(s.persisting)
           l == IF done THEN h.last ELSE s.ledger
           lost == s.lost \/ (~done /\ h.last > s.ledger)
           t == [s EXCEPT !.persisting = r, !.ledger = l, !.lost = lost]
<1>1. /\ Sound(s, c, V) /\ s \in NodeState /\ InSequence(s) /\ s.ordered \in Nat
      /\ ExecutionDriven(s) /\ SigningDriven(s) /\ s.ledger \in Nat /\ s.lost \in BOOLEAN
      /\ q \in Seq(PersistRequest) /\ q # << >> /\ r = Tail(q) /\ h = Head(q)
  BY Zenon DEF NodeOK, Sound, NodeState
<1>2. /\ Ascending(q, s.ordered) /\ Before(q, s.buffer) /\ Before(q, s.block_rx)
      /\ ProofsCertified(q, c, V)
  BY Zenon, <1>1 DEF InSequence, Sound
<1>3. (s.stale \/ EpochOver(c, s.ledger)) \/
      \A k \in DOMAIN q : q[k].last > s.ledger => q[k].first > s.ledger
  BY Zenon, <1>1 DEF Sound, Ahead
<1>4. \/ s.lost \/ EpochOver(c, s.ledger)
      \/ \A x \in (s.ledger + 1)..s.ordered :
            Within(x, q) \/ Within(x, s.buffer) \/ Within(x, s.block_rx)
  BY <1>1 DEF Sound, Covered
<1>5. t = [s EXCEPT !.persisting = Tail(@), !.ledger = IF done THEN h.last ELSE @,
                        !.lost = @ \/ (~done /\ h.last > s.ledger)]
  BY Zenon, <1>1 DEF NodeState
<1> HIDE DEF q, r
<1>6. /\ r \in Seq(PersistRequest) /\ h \in PersistRequest /\ h = q[1] /\ 1 \in DOMAIN q
      /\ \A k \in DOMAIN r : k \in Nat /\ k > 0 /\ k + 1 \in DOMAIN q /\ r[k] = q[k + 1]
      /\ \A k \in DOMAIN q : k \in Nat /\ (k = 1 \/ (k - 1 \in DOMAIN r /\ r[k - 1] = q[k]))
  BY SMTT(30), <1>1, TailFacts
<1>7. h.first \in Nat /\ h.last \in Nat /\ \A k \in DOMAIN q : q[k].first \in Nat /\ q[k].last \in Nat
  <2>1. \A k \in DOMAIN q : q[k] \in PersistRequest
    BY <1>1, ElementOfSeq
  <2> QED BY Zenon, <1>6, <2>1 DEF PersistRequest
<1>8. /\ 0 < h.first /\ h.first <= h.last /\ h.last <= s.ordered
      /\ \A k \in DOMAIN r : h.last < r[k].first
      /\ \A k \in DOMAIN s.buffer : h.last < s.buffer[k].first
      /\ \A k \in DOMAIN s.block_rx : h.last < s.block_rx[k].first
  <2>1. \A k \in DOMAIN r : 1 < k + 1
    BY <1>6
  <2>2. \A k \in DOMAIN r : h.last < r[k].first
    BY <1>2, <1>6, <2>1 DEF Ascending
  <2> QED BY Zenon, <1>2, <1>6, <2>2 DEF Ascending, Before
<1>9. l \in Nat /\ lost \in BOOLEAN /\ s.ledger <= l
  BY <1>1, <1>7, <1>8
<1>10. /\ t \in NodeState /\ t.persisting = r /\ t.ledger = l /\ t.lost = lost
       /\ t.ordered = s.ordered /\ t.block_rx = s.block_rx /\ t.buffer = s.buffer
       /\ t.exec_req = s.exec_req /\ t.exec_resp = s.exec_resp
       /\ t.syncing = s.syncing /\ t.stale = s.stale
       /\ t.execution_root = s.execution_root /\ t.signing_root = s.signing_root
       /\ t.signing = s.signing
  <2> HIDE DEF l, lost
  <2> QED BY Zenon, <1>1, <1>6, <1>9 DEF NodeState
<1> HIDE DEF t
<1>11. InSequence(t)
  <2>1. Ascending(r, s.ordered) /\ Before(r, s.buffer) /\ Before(r, s.block_rx)
    BY Zenon, <1>1, <1>2, TailKeeps
  <2> QED BY Zenon, <1>1, <1>10, <2>1 DEF InSequence
<1>12. ProofsCertified(r, c, V) /\ Certified(h.proof, h.last, c, V)
  BY <1>2, <1>6 DEF ProofsCertified
<1>13. EpochOver(c, s.ledger) => EpochOver(c, l)
  <2>1. CASE done
    <3>1. s.ledger <= h.last
      BY Zenon, <1>9, <2>1
    <3>2. c.reconfig > 0 /\ s.ledger >= c.reconfig => h.last >= c.reconfig
      BY Zenon, <1>1, <1>7, <3>1, AtLeastIsKept
    <3> QED BY Zenon, <2>1, <3>2 DEF EpochOver
  <2> QED BY <2>1
<1>14. LedgerBehind(t, c)
  BY ZenonT(30), <1>1, <1>8, <1>10, <1>13 DEF Sound, LedgerBehind
<1>15. Covered(t, c)
  <2>1. CASE ~done /\ h.last > s.ledger
    BY Zenon, <1>10, <2>1 DEF Covered
  <2>2. CASE done \/ h.last <= s.ledger
    <3>1. ASSUME NEW x \in (l + 1)..s.ordered, Within(x, q) PROVE Within(x, r)
      <4>1. PICK k \in DOMAIN q : q[k].first <= x /\ x <= q[k].last
        BY Zenon, <3>1 DEF Within
      <4>2. k # 1
        BY SMTT(30), <1>1, <1>6, <1>7, <2>2, <4>1
      <4> QED BY Zenon, <1>6, <4>1, <4>2 DEF Within
    <3>2. \A x \in (l + 1)..s.ordered : x \in (s.ledger + 1)..s.ordered
      BY <1>1, <1>9
    <3> QED BY Zenon, <1>4, <1>10, <1>13, <2>2, <3>1, <3>2 DEF Covered
  <2> QED BY <1>1, <1>7, <2>1, <2>2
<1>16. Ahead(t, c)
  <2>1. CASE done
    <3>1. /\ \A k \in DOMAIN r : r[k].first > h.last
          /\ \A k \in DOMAIN s.buffer : s.buffer[k].first > h.last
          /\ \A k \in DOMAIN s.block_rx : s.block_rx[k].first > h.last
      BY Zenon, <1>8
    <3> QED BY ZenonT(30), <1>10, <2>1, <3>1 DEF Ahead
  <2>2. CASE ~done
    <3>1. Ahead(s, c) /\ l = s.ledger
      BY Zenon, <1>1, <2>2 DEF Sound
    <3>2. (s.stale \/ EpochOver(c, s.ledger)) \/
          \A k \in DOMAIN r : r[k].last > s.ledger => r[k].first > s.ledger
      BY Zenon, <1>3, <1>6
    <3> QED BY Zenon, <1>10, <3>1, <3>2 DEF Ahead
  <2> QED BY Zenon, <2>1, <2>2
<1>17. Sound(t, c, V)
  <2>1. SyncAhead(t)
    BY Zenon, <1>1, <1>10 DEF Sound, SyncAhead
  <2> QED BY ZenonT(30), <1>1, <1>10, <1>11, <1>12, <1>14, <1>15, <1>16, <2>1 DEF Sound
<1>18. ExecutionDriven(t) /\ SigningDriven(t)
  BY Zenon, <1>1, <1>10 DEF ExecutionDriven, SigningDriven
<1>19. NodeOK(t, c, V)
  BY ZenonT(30), <1>17, <1>18 DEF NodeOK
<1> QED BY Zenon, <1>5, <1>6, <1>12, <1>19

\* A reset empties the buffer and leaves the roots None.
LEMMA ResetKept ==
    ASSUME NEW s, NEW c, NEW V, NodeOK(s, c, V), NEW t \in NodeState,
           t.buffer = << >>, t.execution_root = 0, t.signing_root = 0,
           t.ordered = s.ordered, t.block_rx = s.block_rx, t.exec_req = s.exec_req,
           t.exec_resp = s.exec_resp, t.persisting = s.persisting, t.ledger = s.ledger,
           SyncAhead(t), Covered(t, c), Ahead(t, c)
    PROVE  NodeOK(t, c, V)
<1>1. Sound(s, c, V) /\ InSequence(s)
  BY Zenon DEF NodeOK, Sound
<1>2. InSequence(t)
  BY Zenon, <1>1, NoneInEmpty DEF InSequence
<1>3. Fits(t.exec_req, t.buffer, t.block_rx, t.ordered)
      /\ Fits(t.exec_resp, t.buffer, t.block_rx, t.ordered)
  BY ZenonT(30), <1>1, NoneInEmpty DEF Sound
<1>4. Sound(t, c, V)
  BY ZenonT(30), <1>1, <1>2, <1>3, NoneInEmpty DEF Sound, LedgerBehind
<1>5. ExecutionDriven(t) /\ SigningDriven(t)
  BY NoneInEmpty DEF ExecutionDriven, SigningDriven
<1> QED BY Zenon, <1>4, <1>5 DEF NodeOK

\* The reset of a sync.
LEMMA SyncToKept ==
    ASSUME NEW s, NEW c, NEW V, NodeOK(s, c, V), NEW b \in Nat, b > s.ordered
    PROVE  NodeOK([process_reset_request(s, FALSE) EXCEPT
                     !.syncing = b,
                     !.lost = @ \/ s.buffer # << >>,
                     !.stale = s.block_rx # << >> \/ (@ /\ s.persisting # << >>)], c, V)
<1> DEFINE lost == s.lost \/ s.buffer # << >>
           stale == s.block_rx # << >> \/ (s.stale /\ s.persisting # << >>)
           t == [s EXCEPT !.buffer = << >>, !.execution_root = 0, !.signing_root = 0,
                          !.stop = FALSE, !.syncing = b, !.lost = lost, !.stale = stale]
<1>1. /\ Sound(s, c, V) /\ s \in NodeState /\ s.lost \in BOOLEAN /\ s.stale \in BOOLEAN
  BY DEF NodeOK, Sound, NodeState
<1>2. t = [process_reset_request(s, FALSE) EXCEPT
             !.syncing = b,
             !.lost = @ \/ s.buffer # << >>,
             !.stale = s.block_rx # << >> \/ (@ /\ s.persisting # << >>)]
  BY Zenon, <1>1 DEF process_reset_request, NodeState
<1>3. lost \in BOOLEAN /\ stale \in BOOLEAN /\ << >> \in Seq(Item)
  BY <1>1
<1>4. /\ t \in NodeState /\ t.syncing = b /\ t.lost = lost /\ t.stale = stale
      /\ t.buffer = << >> /\ t.execution_root = 0 /\ t.signing_root = 0
      /\ t.ordered = s.ordered /\ t.block_rx = s.block_rx /\ t.exec_req = s.exec_req
      /\ t.exec_resp = s.exec_resp /\ t.persisting = s.persisting /\ t.ledger = s.ledger
  <2> HIDE DEF lost, stale
  <2> QED BY Zenon, <1>1, <1>3 DEF NodeState
<1> HIDE DEF t
<1>5. SyncAhead(t)
  BY ZenonT(30), <1>4 DEF SyncAhead
<1>6. Covered(t, c)
  BY Zenon, <1>1, <1>4 DEF Sound, Covered
<1>7. Ahead(t, c)
  <2>1. CASE stale
    BY ZenonT(30), <1>4, <2>1 DEF Ahead
  <2>2. CASE ~stale
    <3>1. s.block_rx = << >> /\ (~s.stale \/ s.persisting = << >>) /\ DOMAIN << >> = {}
      BY <2>2
    <3> QED BY Zenon, <1>1, <1>4, <3>1 DEF Sound, Ahead
  <2> QED BY <2>1, <2>2
<1>8. NodeOK(t, c, V)
  BY ZenonT(30), <1>4, <1>5, <1>6, <1>7, ResetKept
<1> QED BY ZenonT(30), <1>2, <1>8

\* The end of a sync: the ledger is at its target or where it was.
LEMMA SyncDoneKept ==
    ASSUME NEW s, NEW c, NEW V, NodeOK(s, c, V), c.reconfig \in Nat, s.syncing # 0,
           NEW done \in BOOLEAN, done => s.syncing >= s.ledger,
           NEW t,
           t = IF done THEN [s EXCEPT !.syncing = 0, !.ledger = s.syncing,
                                      !.executed = s.syncing, !.ordered = s.syncing,
                                      !.lost = FALSE]
               ELSE [s EXCEPT !.syncing = 0, !.executed = s.ledger]
    PROVE  NodeOK(t, c, V)
<1> DEFINE T == s.syncing
<1>1. /\ Sound(s, c, V) /\ s \in NodeState /\ InSequence(s) /\ SyncAhead(s)
      /\ ExecutionDriven(s) /\ SigningDriven(s)
      /\ s.ledger \in Nat /\ s.ordered \in Nat /\ T \in Nat
  BY DEF NodeOK, Sound, NodeState
<1>2. CASE ~done
  <2>1. /\ t \in NodeState /\ t.syncing = 0
        /\ t.ordered = s.ordered /\ t.block_rx = s.block_rx /\ t.buffer = s.buffer
        /\ t.exec_req = s.exec_req /\ t.exec_resp = s.exec_resp
        /\ t.persisting = s.persisting /\ t.ledger = s.ledger
        /\ t.lost = s.lost /\ t.stale = s.stale
        /\ t.execution_root = s.execution_root /\ t.signing_root = s.signing_root
        /\ t.signing = s.signing
    BY Zenon, <1>1, <1>2 DEF NodeState
  <2>2. SyncAhead(t) /\ InSequence(t) /\ LedgerBehind(t, c) /\ Covered(t, c) /\ Ahead(t, c)
    BY ZenonT(30), <1>1, <2>1 DEF Sound, SyncAhead, InSequence, LedgerBehind, Covered, Ahead
  <2>3. Sound(t, c, V)
    BY ZenonT(30), <1>1, <2>1, <2>2 DEF Sound
  <2> QED BY ZenonT(30), <1>1, <2>1, <2>3 DEF NodeOK, ExecutionDriven, SigningDriven
<1>3. CASE done
  <2>1. s.ordered < T /\ (s.stale \/ (s.buffer = << >> /\ s.block_rx = << >>))
    BY <1>1 DEF SyncAhead
  <2>2. /\ t \in NodeState /\ t.syncing = 0 /\ t.ledger = T /\ t.ordered = T
        /\ t.block_rx = s.block_rx /\ t.buffer = s.buffer
        /\ t.exec_req = s.exec_req /\ t.exec_resp = s.exec_resp
        /\ t.persisting = s.persisting /\ t.stale = s.stale
        /\ t.execution_root = s.execution_root /\ t.signing_root = s.signing_root
        /\ t.signing = s.signing
    BY Zenon, <1>1, <1>3 DEF NodeState
  <2>3. InSequence(t)
    <3>1. \A q : /\ Ascending(q, s.ordered) /\ (\A i \in DOMAIN q : q[i].last \in Nat)
                 => Ascending(q, T)
      BY <1>1, <2>1 DEF Ascending
    <3>2. Ascending(s.persisting, T) /\ Ascending(s.buffer, T) /\ Ascending(s.block_rx, T)
      BY <1>1, <3>1, QueueFacts DEF InSequence
    <3> QED BY ZenonT(30), <1>1, <2>2, <3>2 DEF InSequence
  <2>4. Fits(t.exec_req, t.buffer, t.block_rx, t.ordered)
    <3>1. \A k \in DOMAIN s.exec_req : s.exec_req[k].last <= T
      BY <1>1, <2>1, QueueFacts DEF Sound, Fits
    <3> QED BY <1>1, <2>2, <3>1 DEF Sound, Fits
  <2>5. Fits(t.exec_resp, t.buffer, t.block_rx, t.ordered)
    <3>1. \A k \in DOMAIN s.exec_resp : s.exec_resp[k].last <= T
      BY <1>1, <2>1, QueueFacts DEF Sound, Fits
    <3> QED BY <1>1, <2>2, <3>1 DEF Sound, Fits
  <2>6. SyncAhead(t) /\ LedgerBehind(t, c)
    BY <1>1, <2>2 DEF SyncAhead, LedgerBehind
  <2>7. Covered(t, c)
    <3>1. (T + 1)..T = {}
      BY <1>1
    <3> QED BY Zenon, <2>2, <3>1 DEF Covered
  <2>8. Ahead(t, c)
    <3>1. CASE s.stale
      BY ZenonT(30), <2>2, <3>1 DEF Ahead
    <3>2. CASE ~s.stale
      <4>1. \A k \in DOMAIN s.persisting : ~(s.persisting[k].last > T)
        BY <1>1, <2>1, QueueFacts DEF InSequence, Ascending
      <4>2. s.buffer = << >> /\ s.block_rx = << >> /\ DOMAIN << >> = {}
        BY <2>1, <3>2
      <4> QED BY ZenonT(30), <2>2, <4>1, <4>2 DEF Ahead
    <3> QED BY ZenonT(30), <3>1, <3>2
  <2>9. Sound(t, c, V)
    BY ZenonT(30), <1>1, <2>2, <2>3, <2>4, <2>5, <2>6, <2>7, <2>8 DEF Sound
  <2> QED BY ZenonT(30), <1>1, <2>2, <2>9 DEF NodeOK, ExecutionDriven, SigningDriven
<1> QED BY Zenon, <1>2, <1>3

\* The end of the epoch: the ledger goes on without the pipeline.
LEMMA NewEpochKept ==
    ASSUME NEW s, NEW c, NEW V, NodeOK(s, c, V), NEW b \in Nat, EpochOver(c, b)
    PROVE  NodeOK([s EXCEPT !.ledger = b, !.executed = b], c, V)
<1> DEFINE t == [s EXCEPT !.ledger = b, !.executed = b]
<1>1. Sound(s, c, V) /\ s \in NodeState /\ ExecutionDriven(s) /\ SigningDriven(s)
  BY DEF NodeOK, Sound
<1>2. /\ t \in NodeState /\ t.ledger = b
      /\ t.ordered = s.ordered /\ t.block_rx = s.block_rx /\ t.buffer = s.buffer
      /\ t.exec_req = s.exec_req /\ t.exec_resp = s.exec_resp
      /\ t.persisting = s.persisting /\ t.syncing = s.syncing
      /\ t.lost = s.lost /\ t.stale = s.stale
      /\ t.execution_root = s.execution_root /\ t.signing_root = s.signing_root
      /\ t.signing = s.signing
  BY ZenonT(30), <1>1 DEF NodeState
<1> HIDE DEF t
<1>3. InSequence(t) /\ SyncAhead(t) /\ LedgerBehind(t, c) /\ Covered(t, c) /\ Ahead(t, c)
  BY Zenon, <1>1, <1>2 DEF Sound, InSequence, SyncAhead, LedgerBehind, Covered, Ahead
<1>4. Sound(t, c, V)
  BY Zenon, <1>1, <1>2, <1>3 DEF Sound
<1>5. NodeOK(t, c, V)
  BY ZenonT(30), <1>1, <1>2, <1>4 DEF NodeOK, ExecutionDriven, SigningDriven
<1> QED BY Zenon, <1>5 DEF t

\* The reset with which the epoch stops.
LEMMA ShutdownKept ==
    ASSUME NEW s, NEW c, NEW V, NodeOK(s, c, V), s.syncing = 0, EpochOver(c, s.ledger)
    PROVE  NodeOK(process_reset_request(s, TRUE), c, V)
<1> DEFINE t == process_reset_request(s, TRUE)
<1>1. s \in NodeState
  BY DEF NodeOK, Sound
<1>2. /\ t \in NodeState
      /\ t.buffer = << >> /\ t.execution_root = 0 /\ t.signing_root = 0 /\ t.syncing = 0
      /\ t.ordered = s.ordered /\ t.block_rx = s.block_rx /\ t.exec_req = s.exec_req
      /\ t.exec_resp = s.exec_resp /\ t.persisting = s.persisting /\ t.ledger = s.ledger
  BY ZenonT(30), <1>1, EmptySeq DEF NodeState, process_reset_request
<1> HIDE DEF t
<1>3. SyncAhead(t) /\ Covered(t, c) /\ Ahead(t, c)
  BY Zenon, <1>2 DEF SyncAhead, Covered, Ahead
<1>4. NodeOK(t, c, V)
  BY Zenon, <1>2, <1>3, ResetKept
<1> QED BY Zenon, <1>4 DEF t
--------------------------------------------------------------------------------
\* The steps.

\* What a step of node n has to show.
LEMMA NodeStep ==
    ASSUME Inv, NEW n \in config.nodes, NEW s, bm' = [bm EXCEPT ![n] = s],
           config' = config, chain' = chain, votes \subseteq votes', NodeOK(s, config, votes'),
           votes' \subseteq [author : config.nodes, block : Nat, ok : {TRUE}],
           \A d \in decided' :
             \/ d \in decided
             \/ d \in [block : Nat, proof : SUBSET Sig] /\ Certified(d.proof, d.block, config, votes')
    PROVE  Inv'
<1>1. s \in NodeState
  BY DEF NodeOK, Sound
<1>2. bm' \in [config.nodes -> NodeState]
  BY Zenon, <1>1 DEF Inv
<1>3. \A m \in config.nodes : NodeOK(bm'[m], config, votes')
  <2>1. ASSUME NEW m \in config.nodes, m # n PROVE NodeOK(bm'[m], config, votes')
    <3>1. bm'[m] = bm[m] /\ NodeOK(bm[m], config, votes)
      BY Zenon, <2>1 DEF Inv
    <3> QED BY Zenon, <3>1, MoreVotes
  <2>2. bm'[n] = s
    BY Zenon DEF Inv
  <2> QED BY Zenon, <2>1, <2>2
<1>4. \A d \in decided : /\ d \in [block : Nat, proof : SUBSET Sig]
                         /\ Certified(d.proof, d.block, config, votes')
  BY DEF Inv, Certified
<1> QED BY Zenon, <1>2, <1>3, <1>4 DEF Inv

\* The greater of two numbers is a number.
LEMMA MaxOfTwo ==
    ASSUME NEW a \in Nat, NEW b \in Nat
    PROVE  Max({a, b}) \in Nat
<1>1. \E x \in {a, b} : \A y \in {a, b} : x >= y
  BY a >= b \/ b >= a
<1> QED BY <1>1 DEF Max

\* Every step keeps the invariant.
LEMMA InvNext ==
    ASSUME Inv, [Next]_vars
    PROVE  Inv'
<1>1. /\ config \in Config /\ config.nodes \subseteq Validator
      /\ config.reconfig \in Nat /\ config.limit \in Nat /\ chain \in Nat
  BY Zenon, ConfigAssumption DEF Inv, Config
<1>2. \A n \in config.nodes : NodeOK(bm[n], config, votes) /\ bm[n] \in NodeState
  BY DEF Inv
<1>3. /\ votes \subseteq [author : config.nodes, block : Nat, ok : {TRUE}]
      /\ \A d \in decided : /\ d \in [block : Nat, proof : SUBSET Sig]
                            /\ Certified(d.proof, d.block, config, votes)
  BY Zenon DEF Inv
<1>4. \A d \in decided \cup PeerDecisions : /\ d \in [block : Nat, proof : SUBSET Sig]
                                            /\ Certified(d.proof, d.block, config, votes)
  <2>1. ASSUME NEW d \in PeerDecisions
        PROVE  d \in [block : Nat, proof : SUBSET Sig] /\ Certified(d.proof, d.block, config, votes)
    <3>1. PICK Q \in Quorum : Q \cap config.nodes = {} /\ d.proof = [author : Q, ok : {TRUE}]
      BY Zenon DEF PeerDecisions
    <3>2. d = [block |-> d.block, proof |-> d.proof] /\ d.block \in Nat
      BY <1>1 DEF PeerDecisions
    <3>3. d.proof \in SUBSET Sig
      <4>1. Q \subseteq Validator
        BY ConfigAssumption
      <4>2. [author : Q, ok : {TRUE}] \subseteq [author : Validator, ok : BOOLEAN]
        BY Zenon, <4>1
      <4> QED BY Zenon, <3>1, <4>2 DEF Sig
    <3>4. Q \subseteq Authors(d.proof)
      <4>1. ASSUME NEW a \in Q PROVE a \in Authors(d.proof)
        <5>1. [author |-> a, ok |-> TRUE] \in d.proof /\ [author |-> a, ok |-> TRUE].author = a
          BY Zenon, <3>1
        <5> QED BY Zenon, <5>1 DEF Authors
      <4> QED BY Zenon, <4>1
    <3>5. ASSUME NEW g \in d.proof PROVE g.ok /\ g.author \notin config.nodes
      <4>1. g \in [author : Q, ok : {TRUE}]
        BY Zenon, <3>1, <3>5
      <4>2. g.ok = TRUE /\ g.author \in Q
        BY Zenon, <4>1
      <4> QED BY Zenon, <3>1, <4>2
    <3> QED BY Zenon, <3>1, <3>2, <3>3, <3>4, <3>5 DEF Certified, check_voting_power
  <2> QED BY <1>3, <2>1
<1>5. CASE UNCHANGED vars
  <2>1. /\ config' = config /\ chain' = chain /\ bm' = bm /\ votes' = votes
        /\ decided' = decided
    BY <1>5 DEF vars
  <2> QED BY Zenon, <2>1 DEF Inv
<1>6. CASE Extend
  <2>1. /\ config' = config /\ bm' = bm /\ votes' = votes /\ decided' = decided
        /\ chain' \in Nat
    BY <1>1, <1>6 DEF Extend
  <2> QED BY Zenon, <2>1 DEF Inv
<1>7. ASSUME NEW n \in config.nodes, NEW last \in 1..chain, Order(n, last)
      PROVE  Inv'
  <2> DEFINE s == [bm[n] EXCEPT !.block_rx = Append(@, [first |-> bm[n].ordered + 1, last |-> last]),
                                !.ordered = last]
  <2>1. /\ bm' = [bm EXCEPT ![n] = s] /\ bm[n].syncing = 0
        /\ last \in (bm[n].ordered + 1)..chain
        /\ config' = config /\ chain' = chain /\ votes' = votes /\ decided' = decided
    BY Zenon, <1>7 DEF Order, Becomes, InOrder
  <2>2. bm[n].ordered \in Nat /\ last \in Nat /\ last > bm[n].ordered
    BY <1>1, <1>2, <2>1, QueueFacts
  <2>3. NodeOK(s, config, votes)
    BY ZenonT(30), <1>2, <2>1, <2>2, OrderKept
  <2> HIDE DEF s
  <2> QED BY ZenonT(30), <1>3, <2>1, <2>3, NodeStep
<1>8. ASSUME NEW n \in config.nodes, OrderedBlocks(n)
      PROVE  Inv'
  <2> DEFINE s == process_ordered_blocks([bm[n] EXCEPT !.block_rx = Tail(@)],
                                         Head(bm[n].block_rx))
  <2>1. /\ bm' = [bm EXCEPT ![n] = s] /\ bm[n].block_rx # << >>
        /\ config' = config /\ chain' = chain /\ votes' = votes /\ decided' = decided
    BY <1>8 DEF OrderedBlocks, Becomes
  <2>2. NodeOK(s, config, votes)
    BY Zenon, <1>2, <2>1, OrderedBlocksKept
  <2> HIDE DEF s
  <2> QED BY Zenon, <1>3, <2>1, <2>2, NodeStep
<1>9. ASSUME NEW n \in config.nodes, ExecutionResponse(n)
      PROVE  Inv'
  <2> DEFINE s == process_execution_response([bm[n] EXCEPT !.exec_resp = Tail(@)],
                                             Head(bm[n].exec_resp))
  <2>1. /\ bm' = [bm EXCEPT ![n] = s] /\ bm[n].exec_resp # << >>
        /\ config' = config /\ chain' = chain /\ votes' = votes /\ decided' = decided
    BY <1>9 DEF ExecutionResponse, Becomes
  <2>2. NodeOK(s, config, votes)
    BY Zenon, <1>2, <2>1, ExecutionResponseKept
  <2> HIDE DEF s
  <2> QED BY Zenon, <1>3, <2>1, <2>2, NodeStep
<1>10. ASSUME NEW n \in config.nodes, NEW ok \in BOOLEAN, SigningResponse(n, ok)
       PROVE  Inv'
  <2> DEFINE last == Head(bm[n].signing)
             v == [bm[n] EXCEPT !.signing = Tail(@)]
             s == process_signing_response(v, last, ok)
             new == {[author |-> n, block |-> last, ok |-> TRUE] : i \in ToSign(v, last, ok)}
  <2>1. /\ bm' = [bm EXCEPT ![n] = s] /\ bm[n].signing # << >>
        /\ config' = config /\ chain' = chain /\ votes' = votes \cup new /\ decided' = decided
    BY <1>10 DEF SigningResponse, Becomes
  <2>2. NodeOK(s, config, votes)
    BY Zenon, <1>2, <2>1, SigningResponseKept
  <2>3. last \in Nat
    BY Zenon, <1>2, <2>1, TailFacts DEF NodeState
  <2> HIDE DEF s, last
  <2>4. new \subseteq [author : config.nodes, block : Nat, ok : {TRUE}]
    <3>1. [author |-> n, block |-> last, ok |-> TRUE] \in [author : config.nodes, block : Nat, ok : {TRUE}]
      BY Zenon, <2>3
    <3>2. new \subseteq {[author |-> n, block |-> last, ok |-> TRUE]}
      OBVIOUS
    <3> QED BY Zenon, <3>1, <3>2
  <2> HIDE DEF new
  <2>5. NodeOK(s, config, votes')
    BY Zenon, <2>1, <2>2, MoreVotes
  <2> QED BY Zenon, <1>3, <2>1, <2>4, <2>5, NodeStep
<1>11. ASSUME NEW n \in config.nodes, NEW ok \in BOOLEAN, SyncDone(n, ok)
       PROVE  Inv'
  <2> DEFINE o == bm[n]
             done == ok /\ o.syncing >= o.ledger
             s == IF done THEN [o EXCEPT !.syncing = 0, !.ledger = o.syncing,
                                      !.executed = o.syncing, !.ordered = o.syncing,
                                      !.lost = FALSE]
                  ELSE [o EXCEPT !.syncing = 0, !.executed = o.ledger]
  <2>1. /\ bm' = [bm EXCEPT ![n] = s] /\ o.syncing # 0
        /\ config' = config /\ chain' = chain /\ votes' = votes /\ decided' = decided
    BY <1>2, <1>11 DEF SyncDone, Becomes, NodeState
  <2>2. NodeOK(o, config, votes) /\ done \in BOOLEAN
    BY <1>2
  <2> HIDE DEF o
  <2>3. NodeOK(s, config, votes)
    BY Zenon, <1>1, <2>1, <2>2, SyncDoneKept
  <2> HIDE DEF s
  <2> QED BY ZenonT(30), <1>3, <2>1, <2>3, NodeStep
<1>12. ASSUME NEW n \in config.nodes, NEW ok \in BOOLEAN, ExecuteRequest(n, ok)
       PROVE  Inv'
  <2> DEFINE o == bm[n]
             req == Head(o.exec_req)
             done == ok /\ CanExecute(o, req)
             e == IF done THEN Max({o.executed, req.last}) ELSE o.executed
             s == [o EXCEPT !.exec_req = Tail(@),
                     !.exec_resp = Append(@, [first |-> req.first, last |-> req.last, ok |-> done]),
                     !.executed = e]
  <2>1. /\ bm' = [bm EXCEPT ![n] = s] /\ o.exec_req # << >>
        /\ config' = config /\ chain' = chain /\ votes' = votes /\ decided' = decided
    BY Zenon, <1>2, <1>12 DEF ExecuteRequest, Becomes, NodeState
  <2>2. NodeOK(o, config, votes) /\ done \in BOOLEAN /\ o.executed \in Nat /\ req \in Batch
    BY ZenonT(30), <1>2, <2>1, TailFacts DEF NodeState, CanExecute
  <2>3. e \in Nat
    BY Zenon, <2>2, MaxOfTwo DEF Batch
  <2> HIDE DEF o, req, done, e
  <2>4. NodeOK(s, config, votes)
    BY ZenonT(30), <2>1, <2>2, <2>3, ExecuteRequestKept DEF req
  <2> HIDE DEF s
  <2> QED BY Zenon, <1>3, <2>1, <2>4, NodeStep
<1>13. ASSUME NEW n \in config.nodes, NEW ok \in BOOLEAN, Persist(n, ok)
       PROVE  Inv'
  <2> DEFINE o == bm[n]
             p == Head(o.persisting)
             done == ok /\ p.first = o.ledger + 1 /\ p.last <= o.executed
             s == [o EXCEPT !.persisting = Tail(@),
                     !.ledger = IF done THEN p.last ELSE @,
                     !.lost = @ \/ (~done /\ p.last > o.ledger)]
  <2>1. /\ bm' = [bm EXCEPT ![n] = s] /\ o.persisting # << >>
        /\ config' = config /\ chain' = chain /\ votes' = votes
        /\ decided' = IF done THEN decided \cup {[block |-> p.last, proof |-> p.proof]} ELSE decided
    BY Zenon, <1>13 DEF Persist, Becomes
  <2>2. NodeOK(o, config, votes) /\ done \in BOOLEAN /\ (done => p.first = o.ledger + 1)
    BY Zenon, <1>2
  <2> HIDE DEF o, done
  <2>3. /\ p \in PersistRequest /\ Certified(p.proof, p.last, config, votes)
        /\ NodeOK(s, config, votes)
    BY ZenonT(30), <1>1, <2>1, <2>2, PersistKept
  <2> HIDE DEF s, p
  <2>4. \A d \in decided' : \/ d \in decided
                            \/ /\ d \in [block : Nat, proof : SUBSET Sig]
                               /\ Certified(d.proof, d.block, config, votes)
    BY <2>1, <2>3 DEF PersistRequest
  <2> QED BY ZenonT(30), <1>3, <2>1, <2>3, <2>4, NodeStep
<1>14. ASSUME NEW n \in config.nodes, NEW v \in votes \cup PeerVotes, CommitVote(n, v)
       PROVE  Inv'
  <2> DEFINE s == process_commit_vote(bm[n], v)
  <2>1. /\ bm' = [bm EXCEPT ![n] = s]
        /\ config' = config /\ chain' = chain /\ votes' = votes /\ decided' = decided
    BY Zenon, <1>14 DEF CommitVote, Becomes
  <2>2. /\ v \in [author : Validator, block : Nat, ok : BOOLEAN]
        /\ v.author \in config.nodes => VoteOf(v.author, v.block) \in votes
    <3>1. CASE v \in votes
      <4>1. v \in [author : config.nodes, block : Nat, ok : {TRUE}]
        BY Zenon, <1>3, <3>1
      <4>2. v = VoteOf(v.author, v.block)
        BY Zenon, <4>1 DEF VoteOf
      <4> QED BY Zenon, <1>1, <3>1, <4>1, <4>2
    <3>2. CASE v \in PeerVotes
      BY <1>1, <3>2 DEF PeerVotes
    <3> QED BY Zenon, <3>1, <3>2
  <2>3. NodeOK(s, config, votes)
    BY Zenon, <1>2, <2>2, CommitVoteKept
  <2> HIDE DEF s
  <2> QED BY Zenon, <1>3, <2>1, <2>3, NodeStep
<1>15. ASSUME NEW n \in config.nodes, NEW d \in decided \cup PeerDecisions, CommitDecision(n, d)
       PROVE  Inv'
  <2> DEFINE s == process_commit_decision(bm[n], d)
  <2>1. /\ bm' = [bm EXCEPT ![n] = s]
        /\ config' = config /\ chain' = chain /\ votes' = votes /\ decided' = decided
    BY Zenon, <1>15 DEF CommitDecision, Becomes
  <2>2. NodeOK(s, config, votes)
    BY ZenonT(30), <1>2, <1>4, CommitDecisionKept
  <2> HIDE DEF s
  <2> QED BY ZenonT(30), <1>3, <2>1, <2>2, NodeStep
<1>16. ASSUME NEW n \in config.nodes, NEW d \in decided \cup PeerDecisions, SyncTo(n, d)
       PROVE  Inv'
  <2> DEFINE o == bm[n]
             b == d.block
             s == [process_reset_request(o, FALSE) EXCEPT
                     !.syncing = b,
                     !.lost = @ \/ o.buffer # << >>,
                     !.stale = o.block_rx # << >> \/ (@ /\ o.persisting # << >>)]
  <2>1. /\ bm' = [bm EXCEPT ![n] = s] /\ o.ordered + config.limit < b
        /\ config' = config /\ chain' = chain /\ votes' = votes /\ decided' = decided
    BY Zenon, <1>16 DEF SyncTo, Becomes
  <2>2. NodeOK(o, config, votes) /\ o.ordered \in Nat /\ b \in Nat
    BY ZenonT(30), <1>2, <1>4, QueueFacts
  <2> HIDE DEF o, b
  <2>3. b > o.ordered
    BY SMTT(30), <1>1, <2>1, <2>2
  <2>4. NodeOK(s, config, votes)
    BY ZenonT(30), <2>2, <2>3, SyncToKept
  <2> HIDE DEF s
  <2> QED BY Zenon, <1>3, <2>1, <2>4, NodeStep
<1>17. ASSUME NEW n \in config.nodes, NEW d \in decided \cup PeerDecisions, initiate_new_epoch(n, d)
       PROVE  Inv'
  <2> DEFINE s == [bm[n] EXCEPT !.ledger = d.block, !.executed = d.block]
  <2>1. /\ bm' = [bm EXCEPT ![n] = s] /\ EpochOver(config, d.block)
        /\ config' = config /\ chain' = chain /\ votes' = votes /\ decided' = decided
    BY <1>17 DEF initiate_new_epoch, Becomes, EndsEpoch, EpochOver
  <2>2. NodeOK(s, config, votes)
    BY Zenon, <1>2, <1>4, <2>1, NewEpochKept
  <2> HIDE DEF s
  <2> QED BY ZenonT(30), <1>3, <2>1, <2>2, NodeStep
<1>18. ASSUME NEW n \in config.nodes, Shutdown(n)
       PROVE  Inv'
  <2> DEFINE s == process_reset_request(bm[n], TRUE)
  <2>1. /\ bm' = [bm EXCEPT ![n] = s] /\ bm[n].syncing = 0 /\ EpochOver(config, bm[n].ledger)
        /\ config' = config /\ chain' = chain /\ votes' = votes /\ decided' = decided
    BY <1>18 DEF Shutdown, Becomes, InOrder, EndsEpoch, EpochOver
  <2>2. NodeOK(s, config, votes)
    BY Zenon, <1>2, <2>1, ShutdownKept
  <2> HIDE DEF s
  <2> QED BY Zenon, <1>3, <2>1, <2>2, NodeStep
<1>19. ASSUME NEW n \in config.nodes, Restart(n)
       PROVE  Inv'
  <2> DEFINE s == NewNode(bm[n].ledger)
  <2>1. /\ bm' = [bm EXCEPT ![n] = s]
        /\ config' = config /\ chain' = chain /\ votes' = votes /\ decided' = decided
    BY Zenon, <1>19 DEF Restart, Becomes
  <2>2. NodeOK(s, config, votes)
    BY ZenonT(30), <1>2, QueueFacts, NewNodeOK
  <2> HIDE DEF s
  <2> QED BY Zenon, <1>3, <2>1, <2>2, NodeStep
<1> QED BY ZenonT(30), <1>5, <1>6, <1>7, <1>8, <1>9, <1>10, <1>11, <1>12, <1>13, <1>14, <1>15, <1>16, <1>17,
           <1>18, <1>19 DEF Next, Manager, ExecutionPhase, PersistingPhase

\* The validators start with an empty pipeline.
LEMMA InvInit == Init => Inv
<1> SUFFICES ASSUME Init PROVE Inv
  OBVIOUS
<1>1. \A V : NodeOK(NewNode(0), config, V)
  BY Zenon, NewNodeOK
<1>2. NewNode(0) \in NodeState
  BY <1>1 DEF NodeOK, Sound
<1> QED BY Zenon, <1>1, <1>2 DEF Init, Inv

\* The invariant of the pipeline holds for every number of validators, blocks and faults.
THEOREM Invariant == Spec => []Inv
<1>1. Inv /\ [Next]_vars => Inv'
  BY InvNext
<1> QED BY InvInit, <1>1, PTL DEF Spec

\* The first item in a stage, as RootsAreDriven finds it.
LEMMA FirstFound ==
    ASSUME NEW s \in NodeState, Ascending(s.buffer, s.ordered), NEW root, NEW stage,
           IsFirst(s.buffer, root, stage)
    PROVE  root = First(s, stage)
<1> DEFINE i == find_elem_from(s, 0, stage)
<1>1. \/ i = 0 /\ \A j \in DOMAIN s.buffer : s.buffer[j].stage # stage
      \/ /\ i \in DOMAIN s.buffer /\ i # 0 /\ s.buffer[i].stage = stage
         /\ \A j \in DOMAIN s.buffer : j < i => s.buffer[j].stage # stage
  <2>1. Cursor(s.buffer, 0, stage)
    BY DEF Cursor
  <2> HIDE DEF i
  <2> QED BY <2>1, FindFacts DEF i
<1>2. First(s, stage) = IF i = 0 THEN 0 ELSE s.buffer[i].last
  BY Zenon DEF First
<1> HIDE DEF i
<1>3. CASE i = 0
  BY Zenon, <1>1, <1>2, <1>3, BufferFacts DEF IsFirst
<1>4. CASE i # 0
  <2>1. PICK k \in DOMAIN s.buffer : /\ s.buffer[k].last = root /\ s.buffer[k].stage = stage
                                     /\ \A j \in DOMAIN s.buffer : j < k => s.buffer[j].stage # stage
    BY <1>1, <1>4 DEF IsFirst
  <2>2. k = i
    BY <1>1, <1>4, <2>1, BufferFacts
  <2> QED BY ZenonT(30), <1>2, <1>4, <2>1, <2>2
<1> QED BY Zenon, <1>3, <1>4

\* RootsAreDriven: the roots are the first items to execute and to sign, and a request for
\* each is on its way.
THEOREM RootsDriven == Spec => []RootsAreDriven
<1>1. Inv => RootsAreDriven
  <2> SUFFICES ASSUME Inv, NEW n \in config.nodes, NEW s, s = bm[n]
               PROVE  /\ s.execution_root = First(s, "Ordered")
                      /\ s.signing_root = First(s, "Executed")
                      /\ s.execution_root # 0 =>
                           s.execution_root \in {s.exec_req[i].last : i \in DOMAIN s.exec_req} \cup
                                                {s.exec_resp[i].last : i \in DOMAIN s.exec_resp}
                      /\ s.signing_root # 0 =>
                           \E i \in DOMAIN s.signing : s.signing[i] = s.signing_root
    BY SMTT(30) DEF RootsAreDriven
  <2>1. /\ s \in NodeState /\ Ascending(s.buffer, s.ordered)
        /\ ExecutionDriven(s) /\ SigningDriven(s)
    BY Zenon DEF Inv, NodeOK, Sound, InSequence
  <2>2. /\ s.execution_root = First(s, "Ordered")
        /\ s.signing_root = First(s, "Executed")
    BY Zenon, <2>1, FirstFound DEF ExecutionDriven, SigningDriven
  <2>3. s.execution_root # 0 =>
           s.execution_root \in {s.exec_req[i].last : i \in DOMAIN s.exec_req} \cup
                                {s.exec_resp[i].last : i \in DOMAIN s.exec_resp}
    BY ZenonT(30), <2>1 DEF ExecutionDriven, Asked
  <2> QED BY ZenonT(30), <2>1, <2>2, <2>3 DEF SigningDriven
<1> QED BY Invariant, <1>1, PTL

\* ResultsFit: a result that finds an item is of its blocks, and the item waits for it.
THEOREM ResultsFitItems == Spec => []ResultsFit
<1>1. Inv => ResultsFit
  <2> SUFFICES ASSUME Inv, NEW n \in config.nodes, NEW s, s = bm[n], s.exec_resp # << >>,
                      NEW resp, resp = Head(s.exec_resp),
                      NEW i, i = find_elem_by_key(s, s.execution_root, resp.last), i > 0
               PROVE  s.buffer[i].stage = "Ordered" /\ s.buffer[i].first = resp.first
    BY DEF ResultsFit
  <2>1. /\ Sound(s, config, votes) /\ IsFirst(s.buffer, s.execution_root, "Ordered")
        /\ s.exec_resp \in Seq(ExecutionAnswer)
        /\ Fits(s.exec_resp, s.buffer, s.block_rx, s.ordered)
    BY ZenonT(30) DEF Inv, NodeOK, Sound, ExecutionDriven, NodeState
  <2>2. resp \in ExecutionAnswer /\ resp = s.exec_resp[1] /\ 1 \in DOMAIN s.exec_resp
    BY Zenon, <2>1, TailFacts
  <2>3. Fits(<<resp>>, s.buffer, s.block_rx, s.ordered)
    BY ZenonT(30), <2>1, <2>2, FirstFits
  <2>4. i # 0
    OBVIOUS
  <2>5. Awaits(s, i, resp)
    BY Zenon, <2>1, <2>2, <2>3, <2>4, ResponseFinds
  <2> QED BY ZenonT(30), <2>5 DEF Awaits
<1> QED BY Invariant, <1>1, PTL

\* Where a position of three sequences in a row is in one of them.
LEMMA ThirdOf ==
    ASSUME NEW l \in Nat, NEW m \in Nat, NEW n \in Nat, NEW i \in 1..(l + m + n)
    PROVE  i \in Nat /\
           \/ i \in 1..l /\ i \in 1..(l + m) /\ i <= l /\ i <= l + m
           \/ i - l \in 1..m /\ i \in 1..(l + m) /\ ~(i <= l) /\ i > l /\ i <= l + m
           \/ i - l - m \in 1..n /\ ~(i <= l + m) /\ i > l + m /\ i - (l + m) = i - l - m
OBVIOUS

\* A queue of some elements is one of more.
LEMMA SeqOfMore == ASSUME NEW S, NEW T, S \subseteq T PROVE Seq(S) \subseteq Seq(T)
OBVIOUS

\* Where the elements of three queues are in the one they make up.
LEMMA ConcatFacts ==
    ASSUME NEW X, NEW p \in Seq(X), NEW q \in Seq(X), NEW r \in Seq(X),
           NEW z, z = p \o q \o r
    PROVE  /\ Len(p) \in Nat /\ Len(q) \in Nat
           /\ \A i \in DOMAIN z : i \in Nat /\
                \/ i \in DOMAIN p /\ z[i] = p[i] /\ i <= Len(p)
                \/ /\ i - Len(p) \in DOMAIN q /\ z[i] = q[i - Len(p)]
                   /\ i > Len(p) /\ i <= Len(p) + Len(q)
                \/ /\ i - Len(p) - Len(q) \in DOMAIN r /\ z[i] = r[i - Len(p) - Len(q)]
                   /\ i > Len(p) + Len(q)
           /\ \A k \in DOMAIN p : k \in DOMAIN z /\ z[k] = p[k]
           /\ \A k \in DOMAIN q : Len(p) + k \in DOMAIN z /\ z[Len(p) + k] = q[k]
           /\ \A k \in DOMAIN r :
                Len(p) + Len(q) + k \in DOMAIN z /\ z[Len(p) + Len(q) + k] = r[k]
<1> DEFINE y == p \o q
           l == Len(p)
           m == Len(q)
           n == Len(r)
<1>1. /\ l \in Nat /\ m \in Nat /\ n \in Nat
      /\ DOMAIN p = 1..l /\ DOMAIN q = 1..m /\ DOMAIN r = 1..n
  BY Zenon, LenProperties
<1>2. /\ y \in Seq(X) /\ Len(y) = l + m
      /\ \A i \in 1..(l + m) : y[i] = IF i <= l THEN p[i] ELSE q[i - l]
  BY Zenon, ConcatProperties
<1> HIDE DEF y, l, m, n
<1>3. /\ z \in Seq(X) /\ Len(z) = l + m + n
      /\ \A i \in 1..(l + m + n) : z[i] = IF i <= l + m THEN y[i] ELSE r[i - (l + m)]
  BY <1>2, ConcatProperties DEF y, n
<1>4. DOMAIN z = 1..(l + m + n)
  BY Zenon, <1>3, LenProperties
<1>5. \A i \in DOMAIN z : i \in Nat /\
                \/ i \in DOMAIN p /\ z[i] = p[i] /\ i <= l
                \/ i - l \in DOMAIN q /\ z[i] = q[i - l] /\ i > l /\ i <= l + m
                \/ i - l - m \in DOMAIN r /\ z[i] = r[i - l - m] /\ i > l + m
  <2> SUFFICES ASSUME NEW i \in 1..(l + m + n)
               PROVE  i \in Nat /\
                \/ i \in DOMAIN p /\ z[i] = p[i] /\ i <= l
                \/ i - l \in DOMAIN q /\ z[i] = q[i - l] /\ i > l /\ i <= l + m
                \/ i - l - m \in DOMAIN r /\ z[i] = r[i - l - m] /\ i > l + m
    BY Zenon, <1>4
  <2>0. i \in Nat
    BY Zenon, <1>1, ThirdOf
  <2>1. CASE i \in 1..l /\ i \in 1..(l + m) /\ i <= l /\ i <= l + m
    BY Zenon, <1>1, <1>2, <1>3, <2>0, <2>1
  <2>2. CASE i - l \in 1..m /\ i \in 1..(l + m) /\ ~(i <= l) /\ i > l /\ i <= l + m
    BY Zenon, <1>1, <1>2, <1>3, <2>0, <2>2
  <2>3. CASE i - l - m \in 1..n /\ ~(i <= l + m) /\ i > l + m /\ i - (l + m) = i - l - m
    BY Zenon, <1>1, <1>3, <2>0, <2>3
  <2>4. \/ i \in 1..l /\ i \in 1..(l + m) /\ i <= l /\ i <= l + m
        \/ i - l \in 1..m /\ i \in 1..(l + m) /\ ~(i <= l) /\ i > l /\ i <= l + m
        \/ i - l - m \in 1..n /\ ~(i <= l + m) /\ i > l + m /\ i - (l + m) = i - l - m
    BY ZenonT(30), <1>1, ThirdOf
  <2> QED BY Zenon, <2>1, <2>2, <2>3, <2>4
<1>6. ASSUME NEW k \in DOMAIN p PROVE k \in DOMAIN z /\ z[k] = p[k]
  <2>1. k \in 1..(l + m) /\ k \in 1..(l + m + n) /\ k <= l /\ k <= l + m
    BY SMTT(30), <1>1
  <2> QED BY Zenon, <1>2, <1>3, <1>4, <2>1
<1>7. ASSUME NEW k \in DOMAIN q PROVE l + k \in DOMAIN z /\ z[l + k] = q[k]
  <2>1. /\ l + k \in 1..(l + m) /\ l + k \in 1..(l + m + n) /\ l + k <= l + m
        /\ ~(l + k <= l) /\ (l + k) - l = k
    BY SMTT(30), <1>1
  <2>2. y[l + k] = q[k] /\ z[l + k] = y[l + k]
    BY Zenon, <1>2, <1>3, <2>1
  <2> QED BY Zenon, <1>4, <2>1, <2>2
<1>8. ASSUME NEW k \in DOMAIN r PROVE l + m + k \in DOMAIN z /\ z[l + m + k] = r[k]
  <2>1. l + m + k \in 1..(l + m + n) /\ ~(l + m + k <= l + m) /\ (l + m + k) - (l + m) = k
    BY SMTT(30), <1>1
  <2> QED BY ZenonT(30), <1>3, <1>4, <2>1
<1> QED BY Zenon, <1>1, <1>5, <1>6, <1>7, <1>8 DEF l, m

\* What is above a natural, or above the sum of two, is not at most that.
LEMMA AboveIsNotAtMost == \A a, b \in Nat :
    (b > a => ~(b <= a)) /\ (b <= a => ~(b > a)) /\ \A d \in Nat : b > a + d => ~(b <= a + d)
OBVIOUS

\* NothingIsLost: the requests to persist, the buffer and block_rx are the blocks between
\* the ledger and the last one ordered, in order.
THEOREM NothingLost == Spec => []NothingIsLost
<1>1. Inv => NothingIsLost
  <2> SUFFICES ASSUME Inv, NEW n \in config.nodes, NEW s, s = bm[n],
                      NEW items, items = s.persisting \o s.buffer \o s.block_rx
               PROVE  /\ \A i, j \in DOMAIN items : i < j => items[i].last < items[j].first
                      /\ \/ s.lost \/ EndsEpoch(s.ledger)
                         \/ \A b \in (s.ledger + 1)..s.ordered :
                              \E i \in DOMAIN items : b \in items[i].first..items[i].last
                      /\ \/ s.stale \/ EndsEpoch(s.ledger)
                         \/ \A i \in DOMAIN items :
                              i > Len(s.persisting) \/ items[i].last > s.ledger =>
                                items[i].first > s.ledger
    BY ZenonT(30) DEF NothingIsLost
  <2> DEFINE p == s.persisting
             q == s.buffer
             r == s.block_rx
             X == PersistRequest \cup Item \cup Batch
             l == Len(p)
             m == Len(q)
  <2>1. /\ s \in NodeState /\ InSequence(s) /\ Covered(s, config) /\ Ahead(s, config)
        /\ EpochOver(config, s.ledger) = EndsEpoch(s.ledger)
    BY ZenonT(30) DEF Inv, NodeOK, Sound, EpochOver, EndsEpoch
  <2>2. p \in Seq(X) /\ q \in Seq(X) /\ r \in Seq(X) /\ items = p \o q \o r
    <3>1. p \in Seq(PersistRequest) /\ q \in Seq(Item) /\ r \in Seq(Batch)
      BY Zenon, <2>1 DEF NodeState
    <3>2. PersistRequest \subseteq X /\ Item \subseteq X /\ Batch \subseteq X
      BY Zenon
    <3> HIDE DEF p, q, r, X
    <3>3. p \in Seq(X) /\ q \in Seq(X) /\ r \in Seq(X)
      BY Zenon, <3>1, <3>2, SeqOfMore
    <3> QED BY Zenon, <3>3 DEF p, q, r
  <2>3. /\ Ascending(p, s.ordered) /\ Ascending(q, s.ordered) /\ Ascending(r, s.ordered)
        /\ Before(p, q) /\ Before(p, r) /\ Before(q, r)
    BY Zenon, <2>1 DEF InSequence
  <2>4. \/ s.lost \/ EndsEpoch(s.ledger)
        \/ \A b \in (s.ledger + 1)..s.ordered : Within(b, p) \/ Within(b, q) \/ Within(b, r)
    BY Zenon, <2>1 DEF Covered
  <2>5. \/ s.stale \/ EndsEpoch(s.ledger)
        \/ /\ \A i \in DOMAIN p : p[i].last > s.ledger => p[i].first > s.ledger
           /\ \A i \in DOMAIN q : q[i].first > s.ledger
           /\ \A i \in DOMAIN r : r[i].first > s.ledger
    BY Zenon, <2>1 DEF Ahead
  <2>6. /\ s.ledger \in Nat /\ s.ordered \in Nat
        /\ \A i \in DOMAIN p : p[i].first \in Nat /\ p[i].last \in Nat
        /\ \A i \in DOMAIN q : q[i].first \in Nat /\ q[i].last \in Nat
        /\ \A i \in DOMAIN r : r[i].first \in Nat /\ r[i].last \in Nat
    BY Zenon, <2>1, QueueFacts
  <2> HIDE DEF p, q, r, X
  <2>7. /\ l \in Nat /\ m \in Nat
        /\ \A i \in DOMAIN items : i \in Nat /\
             \/ i \in DOMAIN p /\ items[i] = p[i] /\ i <= l
             \/ i - l \in DOMAIN q /\ items[i] = q[i - l] /\ i > l /\ i <= l + m
             \/ i - l - m \in DOMAIN r /\ items[i] = r[i - l - m] /\ i > l + m
    BY <2>2, ConcatFacts
  <2>8. /\ \A k \in DOMAIN p : k \in DOMAIN items /\ items[k] = p[k]
        /\ \A k \in DOMAIN q : l + k \in DOMAIN items /\ items[l + k] = q[k]
        /\ \A k \in DOMAIN r : l + m + k \in DOMAIN items /\ items[l + m + k] = r[k]
    BY SMTT(30), <2>2, ConcatFacts
  <2> HIDE DEF l, m
  <2>9. ASSUME NEW i \in DOMAIN items, NEW j \in DOMAIN items, i < j
        PROVE  items[i].last < items[j].first
    <3>0. /\ i \in Nat /\ j \in Nat
          /\ \/ j \in DOMAIN p /\ items[j] = p[j] /\ j <= l
             \/ j - l \in DOMAIN q /\ items[j] = q[j - l] /\ j > l /\ j <= l + m
             \/ j - l - m \in DOMAIN r /\ items[j] = r[j - l - m] /\ j > l + m
      BY Zenon, <2>7
    <3>00. l \in Nat /\ m \in Nat /\ i \in Nat /\ j \in Nat
      BY ZenonT(30), <2>7
    <3>1. CASE i \in DOMAIN p /\ items[i] = p[i] /\ i <= l
      BY ZenonT(30), <2>3, <2>7, <2>9, <3>1 DEF Ascending, Before
    <3>2. CASE i - l \in DOMAIN q /\ items[i] = q[i - l] /\ i > l /\ i <= l + m
      <4>1. i - l < j - l /\ j > l
        BY SMTT(30), <2>9, <3>00, <3>2
      <4>2. \/ j - l \in DOMAIN q /\ items[j] = q[j - l]
            \/ j - l - m \in DOMAIN r /\ items[j] = r[j - l - m]
        <5>1. ~(j <= l)
          BY Zenon, <3>00, <4>1, AboveIsNotAtMost
        <5> QED BY ZenonT(30), <3>0, <5>1
      <4> QED BY ZenonT(30), <2>3, <3>2, <4>1, <4>2 DEF Ascending, Before
    <3>3. CASE i - l - m \in DOMAIN r /\ items[i] = r[i - l - m] /\ i > l + m
      <4>1. i - l - m < j - l - m /\ j > l + m /\ j > l
        BY SMTT(30), <2>9, <3>00, <3>3
      <4>2. j - l - m \in DOMAIN r /\ items[j] = r[j - l - m]
        <5>1. ~(j <= l) /\ ~(j <= l + m)
          BY Zenon, <3>00, <4>1, AboveIsNotAtMost
        <5> QED BY ZenonT(30), <3>0, <5>1
      <4> QED BY ZenonT(30), <2>3, <3>3, <4>1, <4>2 DEF Ascending
    <3> QED BY Zenon, <2>7, <3>1, <3>2, <3>3
  <2>10. \/ s.lost \/ EndsEpoch(s.ledger)
         \/ \A b \in (s.ledger + 1)..s.ordered :
              \E i \in DOMAIN items : b \in items[i].first..items[i].last
    <3>1. ASSUME NEW b \in (s.ledger + 1)..s.ordered,
                 Within(b, p) \/ Within(b, q) \/ Within(b, r)
          PROVE  \E i \in DOMAIN items : b \in items[i].first..items[i].last
      <4>0. b \in Int
        BY SMTT(30), <2>6
      <4>1. CASE Within(b, p)
        <5>1. PICK k \in DOMAIN p : p[k].first <= b /\ b <= p[k].last
          BY Zenon, <4>1 DEF Within
        <5>2. k \in DOMAIN items /\ items[k] = p[k]
          BY Zenon, <2>8
        <5>3. b \in p[k].first..p[k].last
          BY <2>6, <4>0, <5>1
        <5> QED BY ZenonT(30), <5>2, <5>3
      <4>2. CASE Within(b, q)
        <5>1. PICK k \in DOMAIN q : q[k].first <= b /\ b <= q[k].last
          BY <4>2 DEF Within
        <5>2. l + k \in DOMAIN items /\ items[l + k] = q[k]
          BY Zenon, <2>8
        <5>3. b \in q[k].first..q[k].last
          BY <2>6, <4>0, <5>1
        <5> QED BY ZenonT(30), <5>2, <5>3
      <4>3. CASE Within(b, r)
        <5>1. PICK k \in DOMAIN r : r[k].first <= b /\ b <= r[k].last
          BY <4>3 DEF Within
        <5>2. l + m + k \in DOMAIN items /\ items[l + m + k] = r[k]
          BY ZenonT(30), <2>8
        <5>3. b \in r[k].first..r[k].last
          BY <2>6, <4>0, <5>1
        <5> QED BY ZenonT(30), <5>2, <5>3
      <4> QED BY Zenon, <3>1, <4>1, <4>2, <4>3
    <3> SUFFICES ASSUME ~s.lost, ~EndsEpoch(s.ledger), NEW b \in (s.ledger + 1)..s.ordered
                 PROVE  \E i \in DOMAIN items : b \in items[i].first..items[i].last
      BY Zenon
    <3>2. Within(b, p) \/ Within(b, q) \/ Within(b, r)
      BY Zenon, <2>4
    <3> QED BY ZenonT(30), <3>1, <3>2
  <2>11. \/ s.stale \/ EndsEpoch(s.ledger)
         \/ \A i \in DOMAIN items : i > l \/ items[i].last > s.ledger => items[i].first > s.ledger
    <3>1. CASE ~(s.stale \/ EndsEpoch(s.ledger))
      <4>1. ASSUME NEW i \in DOMAIN items, i > l \/ items[i].last > s.ledger
            PROVE  items[i].first > s.ledger
        <5>1. CASE i \in DOMAIN p /\ items[i] = p[i] /\ i <= l
          <6>1. i \in Nat /\ ~(i > l)
            BY Zenon, <2>7, <5>1, AboveIsNotAtMost
          <6> QED BY ZenonT(30), <2>5, <3>1, <4>1, <5>1, <6>1
        <5>2. CASE i - l \in DOMAIN q /\ items[i] = q[i - l]
          BY ZenonT(30), <2>5, <3>1, <5>2
        <5>3. CASE i - l - m \in DOMAIN r /\ items[i] = r[i - l - m]
          BY ZenonT(30), <2>5, <3>1, <5>3
        <5> QED BY ZenonT(30), <2>7, <5>1, <5>2, <5>3
      <4> QED BY ZenonT(30), <4>1
    <3> QED BY ZenonT(30), <3>1
  <2> QED BY ZenonT(30), <2>9, <2>10, <2>11 DEF l, p
<1> QED BY Invariant, <1>1, PTL

\* PersistsCertified: what goes to the persisting phase is executed and has the right votes
\* of a quorum.
THEOREM PersistsOnlyCertified == Spec => []PersistsCertified
<1>1. Inv => PersistsCertified
  BY Zenon DEF Inv, NodeOK, Sound, ProofsCertified, Certified, VoteOf, PersistsCertified
<1> QED BY Invariant, <1>1, PTL
================================================================================
