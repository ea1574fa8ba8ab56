----------------------------- MODULE MempoolProofs -----------------------------
(***************************************************************************)
(* What can be executed next is ready, for every configuration of the core *)
(* mempool.  The proof does not look into the parking lot: it is about the *)
(* store, the priority index, the cache of sequence numbers and the race   *)
(* between submissions, commits and notifications.                         *)
(***************************************************************************)
EXTENDS Mempool, TLAPS
--------------------------------------------------------------------------------
\* The store and the priority index.

\* A Mempool is made of these.
IsMempool(m) ==
    /\ m = [txns |-> m.txns, priority |-> m.priority, timeline |-> m.timeline,
            parking |-> m.parking, cache |-> m.cache]
    /\ DOMAIN m.txns \subseteq Nat \X Nat
    /\ m.cache \in [DOMAIN m.cache -> Nat]

\* In account a nothing is before seq, and what can be executed from seq on is ready.
ReadyFrom(m, a, seq) ==
    \A p \in DOMAIN m.txns : p[1] = a =>
        /\ seq <= p[2]
        /\ (\A q \in seq..p[2] : <<a, q>> \in DOMAIN m.txns) => p \in m.priority

\* n is m without some transactions, and without what follows them in the priority index.
Removed(m, n, gone, follow) ==
    /\ IsMempool(n) /\ n.cache = m.cache
    /\ DOMAIN n.txns = DOMAIN m.txns \ gone
    /\ n.priority = m.priority \ follow
    /\ \A p \in follow : p \in DOMAIN m.txns =>
         \E q \in gone : q \in DOMAIN m.txns /\ q[1] = p[1] /\ q[2] <= p[2]

\* Four fields of a mempool are replaced, as index_remove and gc do.
LEMMA Updated ==
    ASSUME NEW m, IsMempool(m), NEW T, NEW P, NEW L, NEW K
    PROVE  [m EXCEPT !.txns = T, !.priority = P, !.timeline = L, !.parking = K]
             = [txns |-> T, priority |-> P, timeline |-> L, parking |-> K, cache |-> m.cache]
<1> DEFINE R(t, p, l, k, c) ==
             [txns |-> t, priority |-> p, timeline |-> l, parking |-> k, cache |-> c]
<1>1. \A t, p, l, k, c : [R(t, p, l, k, c) EXCEPT !.txns = T] = R(T, p, l, k, c)
  OBVIOUS
<1>2. \A t, p, l, k, c : [R(t, p, l, k, c) EXCEPT !.priority = P] = R(t, P, l, k, c)
  OBVIOUS
<1>3. \A t, p, l, k, c : [R(t, p, l, k, c) EXCEPT !.timeline = L] = R(t, p, L, k, c)
  OBVIOUS
<1>4. \A t, p, l, k, c : [R(t, p, l, k, c) EXCEPT !.parking = K] = R(t, p, l, K, c)
  OBVIOUS
<1>5. m = R(m.txns, m.priority, m.timeline, m.parking, m.cache)
  BY Zenon DEF IsMempool
<1>6. PICK a : a = [m EXCEPT !.txns = T]
  BY Zenon
<1>7. PICK b : b = [a EXCEPT !.priority = P]
  BY Zenon
<1>8. PICK c : c = [b EXCEPT !.timeline = L]
  BY ZenonT(30)
<1>9. [m EXCEPT !.txns = T, !.priority = P, !.timeline = L, !.parking = K]
        = [c EXCEPT !.parking = K]
  BY <1>6, <1>7, <1>8
<1> HIDE DEF R
<1>10. a = R(T, m.priority, m.timeline, m.parking, m.cache)
  BY <1>1, <1>5, <1>6
<1>11. b = R(T, P, m.timeline, m.parking, m.cache)
  BY SMTT(30), <1>2, <1>7, <1>10
<1>12. c = R(T, P, L, m.parking, m.cache)
  BY SMTT(30), <1>3, <1>8, <1>11
<1>13. [c EXCEPT !.parking = K] = R(T, P, L, K, m.cache)
  BY <1>4, <1>12
<1> QED BY Zenon, <1>9, <1>13 DEF R

\* What removing transactions from all indexes does.
LEMMA RemoveEach ==
    ASSUME NEW m, IsMempool(m), NEW P
    PROVE  Removed(m, remove_each(m, P), P, P)
<1> DEFINE T == Restrict(m.txns, DOMAIN m.txns \ P)
           K == unpark_each(m.parking, P)
<1>1. remove_each(m, P) = [txns |-> T, priority |-> m.priority \ P,
          timeline |-> m.timeline \ P, parking |-> K, cache |-> m.cache]
  <2>1. remove_each(m, P) = [m EXCEPT !.txns = T, !.priority = m.priority \ P,
                              !.timeline = m.timeline \ P, !.parking = K]
    BY DEF remove_each
  <2> HIDE DEF T, K
  <2> QED BY Zenon, <2>1, Updated
<1> QED
  <2> HIDE DEF K
  <2> QED BY <1>1 DEF Removed, IsMempool, Restrict

\* The same for one transaction.
LEMMA IndexRemove ==
    ASSUME NEW m, IsMempool(m), NEW p
    PROVE  Removed(m, index_remove(m, p), {p}, {p})
<1> DEFINE T == Restrict(m.txns, DOMAIN m.txns \ {p})
           K == unpark(m.parking, p)
<1>1. index_remove(m, p) = [txns |-> T, priority |-> m.priority \ {p},
          timeline |-> m.timeline \ {p}, parking |-> K, cache |-> m.cache]
  <2>1. index_remove(m, p) = [m EXCEPT !.txns = T, !.priority = m.priority \ {p},
                              !.timeline = m.timeline \ {p}, !.parking = K]
    BY DEF index_remove
  <2> HIDE DEF T, K
  <2> QED BY Zenon, <2>1, Updated
<1> QED
  <2> HIDE DEF K
  <2> QED BY <1>1 DEF Removed, IsMempool, Restrict

\* Expired transactions are removed, and what follows them leaves the priority index.
LEMMA Collects ==
    ASSUME NEW m, IsMempool(m), NEW E, E \subseteq DOMAIN m.txns
    PROVE  \E F : Removed(m, gc(m, E), E, F)
<1> DEFINE T == Restrict(m.txns, DOMAIN m.txns \ E)
           F == {p \in DOMAIN m.txns : \E q \in E : q[1] = p[1] /\ q[2] <= p[2]}
           K == gc_each(m.parking, E, F)
<1>1. gc(m, E) = [txns |-> T, priority |-> m.priority \ F,
          timeline |-> m.timeline \ F, parking |-> K, cache |-> m.cache]
  <2>1. gc(m, E) = [m EXCEPT !.txns = T, !.priority = m.priority \ F,
                              !.timeline = m.timeline \ F, !.parking = K]
    BY DEF gc
  <2> HIDE DEF T, F, K
  <2> QED BY ZenonT(30), <2>1, Updated
<1>2. \A p \in F : p \in DOMAIN m.txns /\ \E q \in E : q[1] = p[1] /\ q[2] <= p[2]
  BY Zenon
<1>3. Removed(m, gc(m, E), E, F)
  <2> HIDE DEF F, K
  <2> QED BY <1>1, <1>2 DEF Removed, IsMempool, Restrict
<1> QED BY Zenon, <1>3

\* Removing transactions leaves no transaction that is next out of the priority index.
LEMMA RemovedReady ==
    ASSUME NEW m, NEW n, NEW gone, NEW follow, IsMempool(m), Removed(m, n, gone, follow),
           NEW a, NEW seq \in Nat, ReadyFrom(m, a, seq)
    PROVE  ReadyFrom(n, a, seq)
<1> SUFFICES ASSUME NEW p \in DOMAIN n.txns, p[1] = a
             PROVE  /\ seq <= p[2]
                    /\ (\A q \in seq..p[2] : <<a, q>> \in DOMAIN n.txns) => p \in n.priority
  BY Zenon DEF ReadyFrom
<1>1. p \in DOMAIN m.txns /\ p[2] \in Nat
  BY DEF Removed, IsMempool
<1>2. seq <= p[2]
  BY Zenon, <1>1 DEF ReadyFrom
<1>3. ASSUME \A q \in seq..p[2] : <<a, q>> \in DOMAIN n.txns PROVE p \in n.priority
  <2>1. \A q \in seq..p[2] : <<a, q>> \in DOMAIN m.txns /\ <<a, q>> \notin gone
    BY <1>3 DEF Removed
  <2>2. p \in m.priority
    BY Zenon, <1>1, <2>1 DEF ReadyFrom
  <2>3. ASSUME p \in follow PROVE FALSE
    <3>1. PICK q \in gone : q \in DOMAIN m.txns /\ q[1] = a /\ q[2] <= p[2]
      BY <1>1, <2>3 DEF Removed
    <3>2. q = <<a, q[2]>> /\ q[2] \in Nat
      BY <3>1 DEF IsMempool
    <3>3. seq <= q[2]
      BY Zenon, <3>1 DEF ReadyFrom
    <3> QED BY SMTT(30), <1>1, <2>1, <3>1, <3>2, <3>3
  <2> QED BY <2>2, <2>3 DEF Removed
<1> QED BY Zenon, <1>2, <1>3

\* n keeps the cache of m and, in the accounts B, what is ready.
Keeps(m, n, B) ==
    /\ IsMempool(n) /\ n.cache = m.cache
    /\ \A b \in B, s \in Nat : ReadyFrom(m, b, s) => ReadyFrom(n, b, s)

\* Removing transactions keeps what is ready in all accounts.
LEMMA RemovedKeeps ==
    ASSUME NEW m, NEW n, NEW gone, NEW follow, IsMempool(m), Removed(m, n, gone, follow), NEW B
    PROVE  Keeps(m, n, B)
<1>1. IsMempool(n) /\ n.cache = m.cache
  BY Zenon DEF Removed
<1> QED BY Zenon, <1>1, RemovedReady DEF Keeps

\* Promotion from seq on makes ready what can be executed from there.
LEMMA ProcessReady ==
    ASSUME NEW m, IsMempool(m), NEW a, NEW seq \in Nat, NEW B
    PROVE  /\ Keeps(m, process_ready_transactions(m, a, seq), B)
           /\ (\A p \in DOMAIN m.txns : p[1] = a => seq <= p[2])
                => ReadyFrom(process_ready_transactions(m, a, seq), a, seq)
<1> DEFINE ready == {p \in DOMAIN m.txns :
                       p[1] = a /\ p[2] >= seq /\ \A s \in seq..p[2] : <<a, s>> \in DOMAIN m.txns}
           end == seq + Cardinality(ready)
           broadcast == {p \in ready : m.txns[p].state = "NotReady"}
           parked == {p \in DOMAIN m.txns : p[1] = a /\ p[2] > end /\ m.txns[p].state # "Ready"}
           T == [p \in DOMAIN m.txns |->
                   IF p \in broadcast THEN [m.txns[p] EXCEPT !.state = "Ready"] ELSE m.txns[p]]
           K == park_each(unpark_each(m.parking, ready), parked)
           n == process_ready_transactions(m, a, seq)
<1>1. n = [txns |-> T, priority |-> m.priority \cup ready,
           timeline |-> m.timeline \cup broadcast, parking |-> K, cache |-> m.cache]
  <2>1. n = [m EXCEPT !.txns = T, !.priority = m.priority \cup ready,
                      !.timeline = m.timeline \cup broadcast, !.parking = K]
    BY DEF process_ready_transactions
  <2> HIDE DEF T, K, ready, broadcast, n
  <2> QED BY Zenon, <2>1, Updated
<1>2. DOMAIN T = DOMAIN m.txns
  OBVIOUS
<1>3. \A p \in DOMAIN m.txns :
        p[1] = a /\ seq <= p[2] /\ (\A q \in seq..p[2] : <<a, q>> \in DOMAIN m.txns) => p \in ready
  OBVIOUS
<1> HIDE DEF T, K, ready, broadcast, n
<1>4. /\ n.txns = T /\ n.cache = m.cache /\ n.priority = m.priority \cup ready
      /\ n = [txns |-> n.txns, priority |-> n.priority, timeline |-> n.timeline,
              parking |-> n.parking, cache |-> n.cache]
  BY <1>1
<1>5. IsMempool(n) /\ DOMAIN n.txns = DOMAIN m.txns
  BY <1>2, <1>4 DEF IsMempool
<1>6. ASSUME NEW b, NEW s \in Nat, ReadyFrom(m, b, s) PROVE ReadyFrom(n, b, s)
  BY <1>4, <1>5, <1>6 DEF ReadyFrom
<1>7. ASSUME \A p \in DOMAIN m.txns : p[1] = a => seq <= p[2] PROVE ReadyFrom(n, a, seq)
  BY <1>3, <1>4, <1>5, <1>7 DEF ReadyFrom
<1>8. Keeps(m, n, B)
  BY Zenon, <1>4, <1>5, <1>6 DEF Keeps
<1> QED BY Zenon, <1>7, <1>8 DEF n

\* Cleaning removes what is before seq, and keeps the rest.
LEMMA Cleans ==
    ASSUME NEW m, IsMempool(m), NEW a, NEW seq \in Nat, NEW B
    PROVE  /\ Keeps(m, clean_committed_transactions(m, a, seq), B)
           /\ DOMAIN clean_committed_transactions(m, a, seq).txns \subseteq DOMAIN m.txns
           /\ \A p \in DOMAIN clean_committed_transactions(m, a, seq).txns : p[1] = a => seq <= p[2]
<1> DEFINE P == {p \in DOMAIN m.txns : p[1] = a /\ p[2] < seq}
<1>1. clean_committed_transactions(m, a, seq) = remove_each(m, P)
  BY Zenon DEF clean_committed_transactions
<1>2. Removed(m, remove_each(m, P), P, P)
  <2> HIDE DEF P
  <2> QED BY Zenon, RemoveEach
<1>3. Keeps(m, remove_each(m, P), B)
  <2> HIDE DEF P
  <2> QED BY Zenon, <1>2, RemovedKeeps
<1>4. DOMAIN remove_each(m, P).txns = DOMAIN m.txns \ P
  BY Zenon, <1>2 DEF Removed
<1>5. \A p \in DOMAIN m.txns \ P : p[1] = a => seq <= p[2]
  BY DEF IsMempool
<1> QED BY Zenon, <1>1, <1>3, <1>4, <1>5

\* A commit makes ready what can be executed after it.
LEMMA Commits ==
    ASSUME NEW m, IsMempool(m), NEW a, NEW seq \in Nat, NEW B
    PROVE  /\ Keeps(m, commit_transaction(m, a, seq), B)
           /\ ReadyFrom(commit_transaction(m, a, seq), a, seq)
<1> DEFINE c == clean_committed_transactions(m, a, seq)
<1>1. Keeps(m, c, B) /\ \A p \in DOMAIN c.txns : p[1] = a => seq <= p[2]
  BY Zenon, Cleans
<1> HIDE DEF c
<1>2. IsMempool(c)
  BY Zenon, <1>1 DEF Keeps
<1>3. Keeps(c, process_ready_transactions(c, a, seq), B)
  BY Zenon, <1>2, ProcessReady
<1>4. ReadyFrom(process_ready_transactions(c, a, seq), a, seq)
  BY Zenon, <1>1, <1>2, ProcessReady
<1>5. commit_transaction(m, a, seq) = process_ready_transactions(c, a, seq)
  BY Zenon DEF commit_transaction, c
<1> QED BY Zenon, <1>1, <1>3, <1>4, <1>5 DEF Keeps

\* What an insertion into account a may come to: the account is promoted from seq on, or
\* nothing was inserted.
Advances(m, n, a, seq, B) ==
    \/ Keeps(m, n, B)
    \/ Keeps(m, n, B \ {a}) /\ ReadyFrom(n, a, seq)

\* n is m with transactions T, which has one more.
WithOneMore(m, n, T, p) ==
    /\ DOMAIN T = DOMAIN m.txns \cup {p}
    /\ n = [txns |-> T, priority |-> m.priority, timeline |-> m.timeline,
            parking |-> m.parking, cache |-> m.cache]

\* One more transaction in account p[1].
LEMMA OneMore ==
    ASSUME NEW m, IsMempool(m), NEW p \in Nat \X Nat, NEW T, NEW B, NEW n,
           WithOneMore(m, n, T, p)
    PROVE  Keeps(m, n, B \ {p[1]})
<1>2. /\ n.txns = T /\ n.cache = m.cache /\ n.priority = m.priority
      /\ n = [txns |-> n.txns, priority |-> n.priority, timeline |-> n.timeline,
              parking |-> n.parking, cache |-> n.cache]
  BY DEF WithOneMore
<1>3. IsMempool(n)
  BY <1>2 DEF IsMempool, WithOneMore
<1>4. ASSUME NEW b, b # p[1], NEW s \in Nat, ReadyFrom(m, b, s) PROVE ReadyFrom(n, b, s)
  <2>1. \A q \in DOMAIN n.txns : q[1] = b => q \in DOMAIN m.txns
    BY <1>2, <1>4 DEF WithOneMore
  <2>2. \A q : <<b, q>> \in DOMAIN n.txns => <<b, q>> \in DOMAIN m.txns
    BY <2>1
  <2> QED BY Zenon, <1>2, <1>4, <2>1, <2>2 DEF ReadyFrom
<1> QED BY Zenon, <1>2, <1>3, <1>4 DEF Keeps

\* The part of insert that has room.
LEMMA InsertedAdvances ==
    ASSUME NEW m, IsMempool(m), NEW p \in Nat \X Nat, NEW txn, NEW seq \in Nat,
           seq <= p[2], NEW B
    PROVE  Advances(m, Inserted(m, p, txn, seq), p[1], seq, B)
<1> DEFINE c == clean_committed_transactions(m, p[1], seq)
           new == [q \in DOMAIN c.txns \cup {p} |-> IF q = p THEN txn ELSE c.txns[q]]
           d == [c EXCEPT !.txns = new]
           n == process_ready_transactions(d, p[1], seq)
<1>1. Keeps(m, c, B) /\ Keeps(m, c, B \ {p[1]})
  BY Zenon, Cleans
<1>2. \A q \in DOMAIN c.txns : q[1] = p[1] => seq <= q[2]
  BY Zenon, Cleans
<1>3. Inserted(m, p, txn, seq) \in {c, n}
  BY DEF Inserted
<1>4. DOMAIN new = DOMAIN c.txns \cup {p}
  OBVIOUS
<1> HIDE DEF c, new
<1>5. IsMempool(c)
  BY Zenon, <1>1 DEF Keeps
<1>0. WithOneMore(c, d, new, p)
  BY <1>4, <1>5 DEF IsMempool, WithOneMore
<1> HIDE DEF d
<1>6. Keeps(c, d, B \ {p[1]}) /\ d.txns = new
  <2>1. Keeps(c, d, B \ {p[1]})
    BY Zenon, <1>0, <1>5, OneMore
  <2>2. d.txns = new
    BY <1>0 DEF WithOneMore
  <2> QED BY Zenon, <2>1, <2>2
<1>7. IsMempool(d)
  BY Zenon, <1>6 DEF Keeps
<1>8. \A q \in DOMAIN d.txns : q[1] = p[1] => seq <= q[2]
  BY Zenon, <1>2, <1>4, <1>6
<1>9. Keeps(d, n, B \ {p[1]})
  BY Zenon, <1>7, ProcessReady
<1>10. ReadyFrom(n, p[1], seq)
  BY Zenon, <1>7, <1>8, ProcessReady
<1> HIDE DEF n
<1>11. Keeps(m, n, B \ {p[1]})
  BY Zenon, <1>1, <1>6, <1>9 DEF Keeps
<1> QED BY Zenon, <1>1, <1>3, <1>10, <1>11 DEF Advances

\* insert, whatever it updates, evicts or turns down.
LEMMA InsertAdvances ==
    ASSUME NEW m, IsMempool(m), NEW p \in Nat \X Nat, NEW txn, NEW seq \in Nat,
           seq <= p[2], NEW B, NEW n \in insert(m, p, txn, seq)
    PROVE  Advances(m, n, p[1], seq, B)
<1> DEFINE r == IF p \in DOMAIN m.txns THEN index_remove(m, p) ELSE m
<1>1. Keeps(m, m, B)
  BY Zenon DEF Keeps
<1>2. Keeps(m, r, B) /\ Keeps(m, r, B \ {p[1]})
  BY ZenonT(30), IndexRemove, RemovedKeeps DEF Keeps
<1>3. n = m \/ \E e \in Evicted(r, p, seq) : n = e \/ n = Inserted(e, p, txn, seq)
  BY Zenon DEF insert
<1> HIDE DEF r
<1>4. IsMempool(r)
  BY Zenon, <1>2 DEF Keeps
<1>5. ASSUME NEW e \in Evicted(r, p, seq), n = e \/ n = Inserted(e, p, txn, seq)
      PROVE  Advances(m, n, p[1], seq, B)
  <2>1. e = r \/ \E q : e = index_remove(r, q)
    BY Zenon, <1>5 DEF Evicted
  <2>2. Keeps(r, e, B) /\ Keeps(r, e, B \ {p[1]})
    <3>1. CASE e = r
      BY Zenon, <1>4, <3>1 DEF Keeps
    <3>2. ASSUME NEW q, e = index_remove(r, q)
          PROVE  Keeps(r, e, B) /\ Keeps(r, e, B \ {p[1]})
      <4>1. Removed(r, e, {q}, {q})
        BY Zenon, <1>4, <3>2, IndexRemove
      <4> QED BY Zenon, <1>4, <4>1, RemovedKeeps
    <3> QED BY Zenon, <2>1, <3>1, <3>2
  <2>3. IsMempool(e)
    BY Zenon, <2>2 DEF Keeps
  <2>4. Keeps(m, e, B) /\ Keeps(m, e, B \ {p[1]})
    BY Zenon, <1>2, <2>2 DEF Keeps
  <2>5. Advances(e, Inserted(e, p, txn, seq), p[1], seq, B)
    BY Zenon, <2>3, InsertedAdvances
  <2> QED BY Zenon, <1>5, <2>4, <2>5 DEF Advances, Keeps
<1> QED BY Zenon, <1>1, <1>3, <1>5 DEF Advances

\* The higher of two numbers.
LEMMA MaxOfTwo ==
    ASSUME NEW a \in Nat, NEW b \in Nat
    PROVE  /\ Max({a, b}) \in Nat /\ a <= Max({a, b}) /\ b <= Max({a, b})
           /\ Max({a, b}) \in {a, b}
<1>1. \E m \in {a, b} : \A y \in {a, b} : m >= y
  OBVIOUS
<1>2. Max({a, b}) \in {a, b} /\ \A y \in {a, b} : Max({a, b}) >= y
  BY Zenon, <1>1 DEF Max
<1> QED BY <1>2

\* n is m but for the cache.
Recached(m, n) ==
    /\ IsMempool(n)
    /\ \A b, s \in Nat : ReadyFrom(m, b, s) => ReadyFrom(n, b, s)

\* The number cached for account a is set.
CacheSet(m, n, a, seq) ==
    /\ Recached(m, n)
    /\ DOMAIN n.cache = DOMAIN m.cache \cup {a}
    /\ n.cache[a] = seq
    /\ \A b \in DOMAIN m.cache : b # a => n.cache[b] = m.cache[b]

\* What Cache does.
LEMMA Caches ==
    ASSUME NEW m, IsMempool(m), NEW a, NEW seq \in Nat
    PROVE  CacheSet(m, Cache(m, a, seq), a, seq)
<1> DEFINE C == [b \in DOMAIN m.cache \cup {a} |-> IF b = a THEN seq ELSE m.cache[b]]
           n == Cache(m, a, seq)
<1>1. n = [txns |-> m.txns, priority |-> m.priority, timeline |-> m.timeline,
           parking |-> m.parking, cache |-> C]
  BY DEF Cache, IsMempool
<1>2. C \in [DOMAIN C -> Nat] /\ DOMAIN C = DOMAIN m.cache \cup {a} /\ C[a] = seq
  BY DEF IsMempool
<1>3. \A b \in DOMAIN m.cache : b # a => C[b] = m.cache[b]
  OBVIOUS
<1> HIDE DEF n, C
<1>4. /\ n.txns = m.txns /\ n.cache = C /\ n.priority = m.priority
      /\ n = [txns |-> n.txns, priority |-> n.priority, timeline |-> n.timeline,
              parking |-> n.parking, cache |-> n.cache]
  BY <1>1
<1>5. IsMempool(n)
  BY <1>2, <1>4 DEF IsMempool
<1>6. \A b, s \in Nat : ReadyFrom(m, b, s) => ReadyFrom(n, b, s)
  BY Zenon, <1>4 DEF ReadyFrom
<1>7. Recached(m, n)
  BY Zenon, <1>5, <1>6 DEF Recached
<1> QED BY Zenon, <1>2, <1>3, <1>4, <1>7 DEF CacheSet, n

\* Cached numbers of accounts A are lost.
CacheLost(m, n, A) ==
    /\ Recached(m, n)
    /\ DOMAIN n.cache = DOMAIN m.cache \ A
    /\ \A b \in DOMAIN m.cache \ A : n.cache[b] = m.cache[b]

\* What Uncache does.
LEMMA Uncaches ==
    ASSUME NEW m, IsMempool(m), NEW A
    PROVE  CacheLost(m, Uncache(m, A), A)
<1> DEFINE C == Restrict(m.cache, DOMAIN m.cache \ A)
           n == Uncache(m, A)
<1>1. n = [txns |-> m.txns, priority |-> m.priority, timeline |-> m.timeline,
           parking |-> m.parking, cache |-> C]
  BY DEF Uncache, IsMempool, Restrict
<1>2. C \in [DOMAIN C -> Nat] /\ DOMAIN C = DOMAIN m.cache \ A
  BY DEF IsMempool, Restrict
<1>3. \A b \in DOMAIN m.cache \ A : C[b] = m.cache[b]
  BY DEF Restrict
<1> HIDE DEF n, C
<1>4. /\ n.txns = m.txns /\ n.cache = C /\ n.priority = m.priority
      /\ n = [txns |-> n.txns, priority |-> n.priority, timeline |-> n.timeline,
              parking |-> n.parking, cache |-> n.cache]
  BY <1>1
<1>5. IsMempool(n)
  BY <1>2, <1>4 DEF IsMempool
<1>6. \A b, s \in Nat : ReadyFrom(m, b, s) => ReadyFrom(n, b, s)
  BY Zenon, <1>4 DEF ReadyFrom
<1>7. Recached(m, n)
  BY Zenon, <1>5, <1>6 DEF Recached
<1> QED BY Zenon, <1>2, <1>3, <1>4, <1>7 DEF CacheLost, n

\* The number cached for an account, 0 if there is none.
LEMMA CachedIs ==
    ASSUME NEW m, IsMempool(m), NEW a
    PROVE  /\ Cached(m, a) \in Nat
           /\ a \in DOMAIN m.cache => Cached(m, a) = m.cache[a]
           /\ a \notin DOMAIN m.cache => Cached(m, a) = 0
BY DEF Cached, IsMempool
--------------------------------------------------------------------------------
\* Steps.

\* An account, when m is the mempool, the DB is at d, k was notified and F is under way:
\* the cached number is between them, and what can be executed from there is ready unless
\* a notification is still to come; without a cached number, what can be executed after
\* the last notification is ready, and no submission has read an older number.
AccountOK(m, d, k, F, a) ==
    /\ a \in DOMAIN m.cache =>
          /\ k <= m.cache[a] /\ m.cache[a] <= d
          /\ k < m.cache[a] \/ ReadyFrom(m, a, m.cache[a])
    /\ a \notin DOMAIN m.cache =>
          /\ ReadyFrom(m, a, k)
          /\ \A t \in F : t.account = a => k <= t.db_seq

\* The inductive invariant.
MempoolInv ==
    /\ config \in Config
    /\ IsMempool(mempool) /\ DOMAIN mempool.cache \subseteq config.accounts
    /\ db \in [config.accounts -> Nat] /\ notified \in [config.accounts -> Nat]
    /\ \A a \in config.accounts : notified[a] <= db[a]
    /\ inflight \subseteq [account : config.accounts, db_seq : Nat]
    /\ \A t \in inflight : t.db_seq <= db[t.account]
    /\ \A a \in config.accounts \ raced : AccountOK(mempool, db[a], notified[a], inflight, a)

\* An account that a step leaves alone.
LEMMA AccountKept ==
    ASSUME NEW m, NEW n, NEW d \in Nat, NEW e \in Nat, d <= e, NEW k \in Nat, NEW F, NEW G, NEW a,
           IsMempool(m), AccountOK(m, d, k, F, a),
           \A s \in Nat : ReadyFrom(m, a, s) => ReadyFrom(n, a, s),
           a \in DOMAIN m.cache <=> a \in DOMAIN n.cache,
           a \in DOMAIN m.cache => n.cache[a] = m.cache[a],
           \A t \in G : t.account = a => t \in F \/ k <= t.db_seq
    PROVE  AccountOK(n, e, k, G, a)
<1>1. CASE a \in DOMAIN m.cache
  <2>1. m.cache[a] \in Nat
    BY <1>1 DEF IsMempool
  <2>2. m.cache[a] <= e
    BY <1>1, <2>1 DEF AccountOK
  <2> QED BY Zenon, <1>1, <2>1, <2>2 DEF AccountOK
<1>2. CASE a \notin DOMAIN m.cache
  BY Zenon, <1>2 DEF AccountOK
<1> QED BY Zenon, <1>1, <1>2

\* A submission reads the number in the DB, which is never before the last notification.
LEMMA SubmitKeeps ==
    ASSUME MempoolInv, NEW a \in config.accounts, Submit(a) PROVE MempoolInv'
<1>1. /\ config' = config /\ mempool' = mempool /\ db' = db /\ notified' = notified
      /\ raced' = raced /\ inflight' = inflight \cup {[account |-> a, db_seq |-> db[a]]}
  BY Zenon DEF Submit
<1>2. \A t \in inflight' : t \in inflight \/ (t.account = a /\ t.db_seq = db[a])
  BY <1>1
<1>3. \A t \in inflight' : t \in inflight \/ notified[t.account] <= t.db_seq
  BY <1>2 DEF MempoolInv
<1>4. inflight' \subseteq [account : config.accounts, db_seq : Nat]
  BY <1>1 DEF MempoolInv
<1>5. ASSUME NEW b \in config.accounts \ raced
      PROVE  AccountOK(mempool, db[b], notified[b], inflight', b)
  <2>1. AccountOK(mempool, db[b], notified[b], inflight, b)
    BY Zenon DEF MempoolInv
  <2>2. \A t \in inflight' : t.account = b => t \in inflight \/ notified[b] <= t.db_seq
    BY Zenon, <1>3
  <2> QED BY Zenon, <2>1, <2>2 DEF AccountOK
<1>6. \A t \in inflight' : t.db_seq <= db[t.account]
  BY <1>2 DEF MempoolInv
<1> QED BY Zenon, <1>1, <1>4, <1>5, <1>6 DEF MempoolInv

\* A submission that is discarded leaves the mempool alone.
LEMMA DiscardKeeps ==
    ASSUME MempoolInv, NEW t \in inflight, Discard(t) PROVE MempoolInv'
<1>1. /\ config' = config /\ mempool' = mempool /\ db' = db /\ notified' = notified
      /\ raced' = raced /\ inflight' \subseteq inflight
  BY Zenon DEF Discard
<1>2. ASSUME NEW b \in config.accounts \ raced
      PROVE  AccountOK(mempool, db[b], notified[b], inflight', b)
  <2>1. AccountOK(mempool, db[b], notified[b], inflight, b)
    BY Zenon DEF MempoolInv
  <2> QED BY Zenon, <1>1, <2>1 DEF AccountOK
<1>3. /\ inflight' \subseteq [account : config.accounts, db_seq : Nat]
      /\ \A u \in inflight' : u.db_seq <= db[u.account]
  BY Zenon, <1>1 DEF MempoolInv
<1> QED BY Zenon, <1>1, <1>2, <1>3 DEF MempoolInv

\* A commit of the chain only moves the DB on.
LEMMA ChainCommitsKeeps ==
    ASSUME MempoolInv, NEW a \in config.accounts, ChainCommits(a) PROVE MempoolInv'
<1>1. /\ config' = config /\ mempool' = mempool /\ inflight' = inflight /\ notified' = notified
      /\ raced' = raced /\ db' = [db EXCEPT ![a] = @ + 1]
  BY Zenon DEF ChainCommits
<1>2. /\ db' \in [config.accounts -> Nat]
      /\ \A b \in config.accounts : db[b] \in Nat /\ db'[b] \in Nat /\ db[b] <= db'[b]
  BY <1>1 DEF MempoolInv
<1>3. \A b \in config.accounts : notified[b] <= db'[b]
  BY <1>2 DEF MempoolInv
<1>4. \A t \in inflight : t.db_seq <= db'[t.account]
  BY <1>2 DEF MempoolInv
<1>5. ASSUME NEW b \in config.accounts \ raced
      PROVE  AccountOK(mempool, db'[b], notified[b], inflight, b)
  <2>1. notified[b] \in Nat
    BY DEF MempoolInv
  <2>2. AccountOK(mempool, db[b], notified[b], inflight, b) /\ IsMempool(mempool)
    BY Zenon DEF MempoolInv
  <2> QED BY Zenon, <1>2, <2>1, <2>2, AccountKept
<1> QED BY Zenon, <1>1, <1>2, <1>3, <1>4, <1>5 DEF MempoolInv

\* What an add_txn of account a, whose DB was read at r, leaves: the higher of the cached
\* number and r is cached, and if what can be executed from there was ready, it still is.
LEMMA AddTxn ==
    ASSUME NEW m, IsMempool(m), NEW p \in Nat \X Nat, NEW txn, NEW r \in Nat,
           NEW n \in add_txn(m, p, txn, r)
    PROVE  LET seq == Max({Cached(m, p[1]), r})
           IN  /\ IsMempool(n)
               /\ DOMAIN n.cache = DOMAIN m.cache \cup {p[1]}
               /\ n.cache[p[1]] = seq
               /\ \A b \in DOMAIN m.cache : b # p[1] => n.cache[b] = m.cache[b]
               /\ \A b, s \in Nat : b # p[1] /\ ReadyFrom(m, b, s) => ReadyFrom(n, b, s)
               /\ ReadyFrom(m, p[1], seq) => ReadyFrom(n, p[1], seq)
<1> DEFINE a == p[1]
           seq == Max({Cached(m, a), r})
           c == Cache(m, a, seq)
<1>1. seq \in Nat /\ a \in Nat /\ p[2] \in Nat
  BY CachedIs, MaxOfTwo
<1>2. n = c \/ (seq <= p[2] /\ n \in insert(c, p, txn, seq))
  <2>1. n \in IF p[2] < seq THEN {c} ELSE insert(c, p, txn, seq)
    BY Zenon DEF add_txn
  <2> HIDE DEF c, seq
  <2> QED BY <1>1, <2>1
<1> HIDE DEF seq
<1>3. /\ Recached(m, c)
      /\ DOMAIN c.cache = DOMAIN m.cache \cup {a} /\ c.cache[a] = seq
      /\ \A b \in DOMAIN m.cache : b # a => c.cache[b] = m.cache[b]
  <2>1. CacheSet(m, c, a, seq)
    BY Zenon, <1>1, Caches
  <2> HIDE DEF c
  <2> QED BY Zenon, <2>1 DEF CacheSet
<1> HIDE DEF c
<1>4. IsMempool(c)
  BY Zenon, <1>3 DEF Recached
<1>5. Advances(c, n, a, seq, Nat)
  <2>1. CASE n = c
    BY Zenon, <1>4, <2>1 DEF Advances, Keeps
  <2>2. CASE seq <= p[2] /\ n \in insert(c, p, txn, seq)
    BY Zenon, <1>1, <1>4, <2>2, InsertAdvances
  <2> QED BY Zenon, <1>2, <2>1, <2>2
<1>6. IsMempool(n) /\ n.cache = c.cache
  BY Zenon, <1>5 DEF Advances, Keeps
<1>7. \A b, s \in Nat : b # a /\ ReadyFrom(m, b, s) => ReadyFrom(n, b, s)
  BY Zenon, <1>3, <1>5 DEF Advances, Keeps, Recached
<1>8. ReadyFrom(m, a, seq) => ReadyFrom(n, a, seq)
  BY Zenon, <1>1, <1>3, <1>5 DEF Advances, Keeps, Recached
<1> QED BY Zenon, <1>3, <1>6, <1>7, <1>8 DEF seq

\* A submission may have read an old number: it is used only if nothing newer is cached.
LEMMA AddKeeps ==
    ASSUME MempoolInv, NEW t \in inflight, NEW p \in Pointers, NEW txn, Add(t, p, txn)
    PROVE  MempoolInv'
<1> DEFINE a == p[1]
           seq == Max({Cached(mempool, a), t.db_seq})
<1>1. /\ config' = config /\ db' = db /\ notified' = notified /\ raced' = raced
      /\ inflight' \subseteq inflight /\ mempool' \in add_txn(mempool, p, txn, t.db_seq)
      /\ a = t.account
  BY Zenon DEF Add, Becomes
<1>2. config.accounts \subseteq Nat /\ config.max_seq \in Nat
  BY DEF MempoolInv, Config
<1>3. p \in Nat \X Nat /\ a \in config.accounts /\ t.db_seq \in Nat /\ t.db_seq <= db[a]
  BY <1>1, <1>2 DEF Pointers, MempoolInv
<1>4. IsMempool(mempool)
  BY Zenon DEF MempoolInv
<1>5. /\ IsMempool(mempool')
      /\ DOMAIN mempool'.cache = DOMAIN mempool.cache \cup {a}
      /\ mempool'.cache[a] = seq
      /\ \A b \in DOMAIN mempool.cache : b # a => mempool'.cache[b] = mempool.cache[b]
      /\ \A b, s \in Nat : b # a /\ ReadyFrom(mempool, b, s) => ReadyFrom(mempool', b, s)
      /\ ReadyFrom(mempool, a, seq) => ReadyFrom(mempool', a, seq)
  BY Zenon, <1>1, <1>3, <1>4, AddTxn
<1>6. /\ db[a] \in Nat /\ notified[a] \in Nat
      /\ DOMAIN mempool'.cache \subseteq config.accounts
  BY <1>3, <1>5 DEF MempoolInv
<1>7. ASSUME NEW b \in config.accounts \ raced
      PROVE  AccountOK(mempool', db[b], notified[b], inflight', b)
  <2>1. AccountOK(mempool, db[b], notified[b], inflight, b)
    BY Zenon DEF MempoolInv
  <2>2. CASE b # a
    <3>1. db[b] \in Nat /\ notified[b] \in Nat /\ db[b] <= db[b] /\ b \in Nat
      BY <1>2 DEF MempoolInv
    <3>2. b \in DOMAIN mempool.cache <=> b \in DOMAIN mempool'.cache
      BY <1>5, <2>2
    <3>3. b \in DOMAIN mempool.cache => mempool'.cache[b] = mempool.cache[b]
      BY Zenon, <1>5, <2>2
    <3>4. \A s \in Nat : ReadyFrom(mempool, b, s) => ReadyFrom(mempool', b, s)
      BY Zenon, <1>5, <2>2, <3>1
    <3> QED BY Zenon, <1>1, <1>4, <2>1, <3>1, <3>2, <3>3, <3>4, AccountKept
  <2>3. CASE b = a
    <3>1. Cached(mempool, a) \in Nat
      BY Zenon, <1>4, CachedIs
    <3>2. /\ seq \in Nat /\ Cached(mempool, a) <= seq /\ t.db_seq <= seq
          /\ seq \in {Cached(mempool, a), t.db_seq}
      BY Zenon, <1>3, <3>1, MaxOfTwo
    <3> HIDE DEF seq
    <3>3. CASE a \in DOMAIN mempool.cache
      <4>1. Cached(mempool, a) = mempool.cache[a]
        BY Zenon, <1>4, <3>3, CachedIs
      <4>2. /\ notified[a] <= mempool.cache[a] /\ mempool.cache[a] <= db[a]
            /\ notified[a] < mempool.cache[a] \/ ReadyFrom(mempool, a, mempool.cache[a])
        BY Zenon, <2>1, <2>3, <3>3 DEF AccountOK
      <4>3. notified[a] <= seq /\ seq <= db[a]
        BY SMTT(30), <1>3, <1>6, <3>1, <3>2, <4>1, <4>2
      <4>4. notified[a] < seq \/ seq = mempool.cache[a]
        BY SMTT(30), <1>6, <3>1, <3>2, <4>1, <4>2
      <4>5. notified[a] < seq \/ ReadyFrom(mempool', a, seq)
        BY Zenon, <1>5, <4>2, <4>4
      <4> QED BY Zenon, <1>5, <2>3, <4>3, <4>5 DEF AccountOK
    <3>4. CASE a \notin DOMAIN mempool.cache
      <4>1. Cached(mempool, a) = 0
        BY Zenon, <1>4, <3>4, CachedIs
      <4>2. ReadyFrom(mempool, a, notified[a]) /\ notified[a] <= t.db_seq
        BY Zenon, <1>1, <2>1, <2>3, <3>4 DEF AccountOK
      <4>3. seq = t.db_seq
        BY SMTT(30), <1>3, <3>2, <4>1
      <4>4. notified[a] <= seq /\ seq <= db[a]
        BY Zenon, <1>3, <4>2, <4>3
      <4>5. notified[a] < seq \/ seq = notified[a]
        BY SMTT(30), <1>6, <3>2, <4>4
      <4>6. notified[a] < seq \/ ReadyFrom(mempool', a, seq)
        BY Zenon, <1>5, <4>2, <4>5
      <4> QED BY Zenon, <1>5, <2>3, <4>4, <4>6 DEF AccountOK
    <3> QED BY Zenon, <3>3, <3>4
  <2> QED BY Zenon, <2>2, <2>3
<1> HIDE DEF seq
<1>8. /\ inflight' \subseteq [account : config.accounts, db_seq : Nat]
      /\ \A u \in inflight' : u.db_seq <= db[u.account]
  BY Zenon, <1>1 DEF MempoolInv
<1> QED BY Zenon, <1>1, <1>5, <1>6, <1>7, <1>8 DEF MempoolInv

\* A notification caches at least the number after it, and promotes from there.
LEMMA NotifyKeeps ==
    ASSUME MempoolInv, NEW a \in config.accounts, NEW E, Notify(a, E)
    PROVE  MempoolInv'
<1> DEFINE seq == Max({Cached(mempool, a), notified[a] + 1})
           c == Cache(mempool, a, seq)
           m == commit_transaction(c, a, seq)
<1>1. /\ config' = config /\ db' = db /\ inflight' = inflight /\ raced' = raced
      /\ notified' = [notified EXCEPT ![a] = @ + 1] /\ notified[a] < db[a]
  BY Zenon DEF Notify, Becomes
<1>2. mempool' = gc(m, E \cap DOMAIN m.txns)
  <2>1. <<a, notified[a]>>[1] = a /\ <<a, notified[a]>>[2] = notified[a]
    OBVIOUS
  <2>2. remove_transaction(mempool, <<a, notified[a]>>, FALSE) = m
    BY Zenon, <2>1 DEF remove_transaction
  <2> QED BY Zenon, <2>2 DEF Notify, Becomes
<1>3. IsMempool(mempool) /\ Cached(mempool, a) \in Nat
  BY Zenon, CachedIs DEF MempoolInv
<1>4. /\ notified[a] \in Nat /\ notified[a] + 1 \in Nat /\ db[a] \in Nat /\ config.accounts \subseteq Nat
      /\ notified[a] + 1 <= db[a]
  BY <1>1 DEF MempoolInv, Config
<1>5. /\ seq \in Nat /\ Cached(mempool, a) <= seq /\ notified[a] + 1 <= seq
      /\ seq \in {Cached(mempool, a), notified[a] + 1}
  BY Zenon, <1>3, <1>4, MaxOfTwo
<1> HIDE DEF seq
<1>6. CacheSet(mempool, c, a, seq)
  BY Zenon, <1>3, <1>5, Caches
<1> HIDE DEF c
<1>7. IsMempool(c)
  BY Zenon, <1>6 DEF CacheSet, Recached
<1>8. Keeps(c, m, Nat) /\ ReadyFrom(m, a, seq)
  BY Zenon, <1>5, <1>7, Commits
<1> HIDE DEF m
<1>9. IsMempool(m)
  BY Zenon, <1>8 DEF Keeps
<1>10. \E F : Removed(m, mempool', E \cap DOMAIN m.txns, F)
  BY Zenon, <1>2, <1>9, Collects
<1>11. Keeps(m, mempool', Nat)
  BY Zenon, <1>9, <1>10, RemovedKeeps
<1>12. IsMempool(mempool') /\ mempool'.cache = c.cache /\ ReadyFrom(mempool', a, seq)
  BY Zenon, <1>4, <1>5, <1>8, <1>11 DEF Keeps
<1>13. \A b, s \in Nat : ReadyFrom(mempool, b, s) => ReadyFrom(mempool', b, s)
  BY Zenon, <1>6, <1>8, <1>11 DEF Keeps, CacheSet, Recached
<1>14. /\ DOMAIN mempool'.cache = DOMAIN mempool.cache \cup {a} /\ mempool'.cache[a] = seq
       /\ \A b \in DOMAIN mempool.cache : b # a => mempool'.cache[b] = mempool.cache[b]
  BY Zenon, <1>6, <1>12 DEF CacheSet
<1>15. DOMAIN mempool'.cache \subseteq config.accounts
  BY Zenon, <1>14 DEF MempoolInv
<1>16. /\ notified' \in [config.accounts -> Nat] /\ notified'[a] = notified[a] + 1
       /\ \A b \in config.accounts : b # a => notified'[b] = notified[b]
  BY <1>1, <1>4 DEF MempoolInv
<1>17. \A b \in config.accounts : notified'[b] <= db[b]
  <2>1. \A b \in config.accounts : b # a => notified'[b] <= db[b]
    BY Zenon, <1>16 DEF MempoolInv
  <2> QED BY Zenon, <1>4, <1>16, <2>1
<1>18. ASSUME NEW b \in config.accounts \ raced
       PROVE  AccountOK(mempool', db[b], notified'[b], inflight, b)
  <2>1. AccountOK(mempool, db[b], notified[b], inflight, b)
    BY Zenon DEF MempoolInv
  <2>2. CASE b # a
    <3>1. db[b] \in Nat /\ notified[b] \in Nat /\ db[b] <= db[b] /\ b \in Nat
      BY <1>4 DEF MempoolInv
    <3>2. b \in DOMAIN mempool.cache <=> b \in DOMAIN mempool'.cache
      BY <1>14, <2>2
    <3>3. AccountOK(mempool', db[b], notified[b], inflight, b)
      BY Zenon, <1>3, <1>13, <1>14, <2>1, <2>2, <3>1, <3>2, AccountKept
    <3> QED BY Zenon, <1>16, <2>2, <3>3
  <2>3. CASE b = a
    <3>1. Cached(mempool, a) <= db[a]
      <4>1. CASE a \in DOMAIN mempool.cache
        BY Zenon, <1>3, <2>1, <2>3, <4>1, CachedIs DEF AccountOK
      <4>2. CASE a \notin DOMAIN mempool.cache
        <5>1. Cached(mempool, a) = 0
          BY Zenon, <1>3, <4>2, CachedIs
        <5> QED BY <1>4, <5>1
      <4> QED BY Zenon, <4>1, <4>2
    <3>2. seq <= db[a]
      BY Zenon, <1>4, <1>5, <3>1
    <3> QED BY Zenon, <1>5, <1>12, <1>14, <1>16, <2>3, <3>2 DEF AccountOK
  <2> QED BY Zenon, <2>2, <2>3
<1>19. /\ inflight \subseteq [account : config.accounts, db_seq : Nat]
       /\ \A u \in inflight : u.db_seq <= db[u.account]
       /\ db \in [config.accounts -> Nat] /\ config \in Config
  BY Zenon DEF MempoolInv
<1> QED BY Zenon, <1>1, <1>12, <1>15, <1>16, <1>17, <1>18, <1>19 DEF MempoolInv

\* Cached numbers of A are lost.  The accounts that may go back are raced from then on.
LEMMA LostKeeps ==
    ASSUME MempoolInv, NEW A, Lost(A), IsMempool(mempool'),
           UNCHANGED <<config, db, notified, inflight>>,
           \A b, s \in Nat : ReadyFrom(mempool, b, s) => ReadyFrom(mempool', b, s),
           DOMAIN mempool'.cache = DOMAIN mempool.cache \ A,
           \A b \in DOMAIN mempool.cache \ A : mempool'.cache[b] = mempool.cache[b]
    PROVE  MempoolInv'
<1>1. /\ raced \subseteq raced'
      /\ \A b \in (A \cap DOMAIN mempool.cache) \ raced' :
           /\ ~(notified[b] < mempool.cache[b])
           /\ \A t \in inflight : t.account = b => ~(t.db_seq < mempool.cache[b])
  BY Zenon DEF Lost
<1>2. IsMempool(mempool) /\ config.accounts \subseteq Nat
  BY DEF MempoolInv, Config
<1>3. DOMAIN mempool'.cache \subseteq config.accounts
  BY Zenon DEF MempoolInv
<1>4. ASSUME NEW b \in config.accounts \ raced'
      PROVE  AccountOK(mempool', db[b], notified[b], inflight, b)
  <2>1. AccountOK(mempool, db[b], notified[b], inflight, b)
    BY Zenon, <1>1 DEF MempoolInv
  <2>2. db[b] \in Nat /\ notified[b] \in Nat /\ db[b] <= db[b] /\ b \in Nat
    BY <1>2 DEF MempoolInv
  <2>3. CASE b \in A \cap DOMAIN mempool.cache
    <3>1. mempool.cache[b] \in Nat
      BY <1>2, <2>3 DEF IsMempool
    <3>2. notified[b] <= mempool.cache[b] /\ ~(notified[b] < mempool.cache[b])
      BY Zenon, <1>1, <1>4, <2>1, <2>3 DEF AccountOK
    <3>3. notified[b] = mempool.cache[b]
      BY SMTT(30), <2>2, <3>1, <3>2
    <3>4. ReadyFrom(mempool', b, notified[b])
      BY Zenon, <2>1, <2>2, <2>3, <3>2, <3>3 DEF AccountOK
    <3>5. ASSUME NEW t \in inflight, t.account = b PROVE notified[b] <= t.db_seq
      <4>1. t.db_seq \in Nat
        BY DEF MempoolInv
      <4>2. ~(t.db_seq < mempool.cache[b])
        BY Zenon, <1>1, <1>4, <2>3, <3>5
      <4> QED BY SMTT(30), <3>1, <3>3, <4>1, <4>2
    <3> QED BY Zenon, <2>3, <3>4, <3>5 DEF AccountOK
  <2>4. CASE b \notin A \cap DOMAIN mempool.cache
    <3>1. b \in DOMAIN mempool.cache <=> b \in DOMAIN mempool'.cache
      BY Zenon, <2>4
    <3>2. b \in DOMAIN mempool.cache => mempool'.cache[b] = mempool.cache[b]
      BY Zenon, <2>4
    <3> QED BY Zenon, <1>2, <2>1, <2>2, <3>1, <3>2, AccountKept
  <2> QED BY Zenon, <2>3, <2>4
<1> QED BY Zenon, <1>3, <1>4 DEF MempoolInv

\* A rejection drops the cached number of the account, with or without its transactions.
LEMMA RejectKeeps ==
    ASSUME MempoolInv, NEW p \in Pointers, Reject(p) PROVE MempoolInv'
<1> DEFINE A == {p[1]}
           u == Uncache(mempool, A)
           P == {q \in DOMAIN u.txns : q[1] = p[1]}
<1>1. Lost(A) /\ UNCHANGED <<config, db, notified, inflight>>
  BY Zenon DEF Reject, Becomes
<1>2. mempool' \in {u, remove_each(u, P)}
  BY Zenon DEF Reject, Becomes, remove_transaction, reject_transaction
<1>3. IsMempool(mempool)
  BY Zenon DEF MempoolInv
<1>4. /\ Recached(mempool, u) /\ DOMAIN u.cache = DOMAIN mempool.cache \ A
      /\ \A b \in DOMAIN mempool.cache \ A : u.cache[b] = mempool.cache[b]
  <2>1. CacheLost(mempool, u, A)
    BY Zenon, <1>3, Uncaches
  <2> HIDE DEF u, A
  <2> QED BY Zenon, <2>1 DEF CacheLost
<1> HIDE DEF A, u, P
<1>5. IsMempool(u)
  BY Zenon, <1>4 DEF Recached
<1>6. Keeps(u, mempool', Nat)
  <2>1. Keeps(u, u, Nat)
    BY Zenon, <1>5 DEF Keeps
  <2>2. Keeps(u, remove_each(u, P), Nat)
    BY Zenon, <1>5, RemoveEach, RemovedKeeps
  <2> QED BY Zenon, <1>2, <2>1, <2>2
<1>7. IsMempool(mempool') /\ mempool'.cache = u.cache
  BY Zenon, <1>6 DEF Keeps
<1>8. \A b, s \in Nat : ReadyFrom(mempool, b, s) => ReadyFrom(mempool', b, s)
  BY Zenon, <1>4, <1>6 DEF Keeps, Recached
<1> QED BY Zenon, <1>1, <1>4, <1>7, <1>8, LostKeeps

\* gc removes what has expired, and the cache loses entries.
LEMMA GCKeeps ==
    ASSUME MempoolInv, NEW E \in SUBSET DOMAIN mempool.txns, NEW A, GC(E, A) PROVE MempoolInv'
<1> DEFINE m == gc(mempool, E)
<1>1. Lost(A) /\ UNCHANGED <<config, db, notified, inflight>> /\ mempool' = Uncache(m, A)
  BY Zenon DEF GC, Becomes
<1>2. IsMempool(mempool)
  BY Zenon DEF MempoolInv
<1>3. \E F : Removed(mempool, m, E, F)
  BY Zenon, <1>2, Collects
<1> HIDE DEF m
<1>4. Keeps(mempool, m, Nat)
  BY Zenon, <1>2, <1>3, RemovedKeeps
<1>5. IsMempool(m) /\ m.cache = mempool.cache
  BY Zenon, <1>4 DEF Keeps
<1>6. CacheLost(m, mempool', A)
  BY Zenon, <1>1, <1>5, Uncaches
<1>7. /\ IsMempool(mempool') /\ DOMAIN mempool'.cache = DOMAIN mempool.cache \ A
      /\ \A b \in DOMAIN mempool.cache \ A : mempool'.cache[b] = mempool.cache[b]
  BY Zenon, <1>5, <1>6 DEF CacheLost, Recached
<1>8. \A b, s \in Nat : ReadyFrom(mempool, b, s) => ReadyFrom(mempool', b, s)
  BY Zenon, <1>4, <1>6 DEF Keeps, CacheLost, Recached
<1> QED BY Zenon, <1>1, <1>7, <1>8, LostKeeps

\* The mempool starts empty.
LEMMA MempoolStarts == ASSUME Init PROVE MempoolInv
<1>1. /\ config \in Config /\ mempool = NewMempool /\ inflight = {}
      /\ db = [a \in config.accounts |-> 0] /\ notified = [a \in config.accounts |-> 0]
  BY ConfigAssumption DEF Init
<1>2. /\ mempool = [txns |-> mempool.txns, priority |-> mempool.priority,
                    timeline |-> mempool.timeline, parking |-> mempool.parking,
                    cache |-> mempool.cache]
      /\ mempool.txns = << >> /\ mempool.cache = << >>
  BY <1>1 DEF NewMempool
<1>3. DOMAIN mempool.txns = {} /\ DOMAIN mempool.cache = {}
  BY <1>2
<1>4. IsMempool(mempool)
  BY <1>2, <1>3 DEF IsMempool
<1>5. \A a \in config.accounts : db[a] = 0 /\ notified[a] = 0
  BY <1>1
<1>6. db \in [config.accounts -> Nat] /\ notified \in [config.accounts -> Nat]
  BY <1>1
<1>7. \A a \in config.accounts : AccountOK(mempool, db[a], notified[a], inflight, a)
  BY Zenon, <1>1, <1>3 DEF AccountOK, ReadyFrom
<1>8. \A a \in config.accounts : notified[a] <= db[a]
  BY <1>5
<1> QED BY Zenon, <1>1, <1>3, <1>4, <1>6, <1>7, <1>8 DEF MempoolInv

\* Every step of the mempool keeps the invariant.
LEMMA MempoolStep == ASSUME MempoolInv, [Next]_vars PROVE MempoolInv'
<1>1. CASE UNCHANGED vars
  BY Zenon, <1>1 DEF vars, MempoolInv
<1>2. CASE Next
  BY Zenon, <1>2, SubmitKeeps, DiscardKeeps, AddKeeps, ChainCommitsKeeps, NotifyKeeps, RejectKeeps,
     GCKeeps DEF Next, Adds
<1> QED BY Zenon, <1>1, <1>2

\* What can be executed next is ready.
LEMMA InvariantIsReady == ASSUME MempoolInv PROVE NextIsReady
<1> SUFFICES ASSUME NEW a \in DOMAIN mempool.cache \ raced, notified[a] = db[a],
                    NEW s \in mempool.cache[a]..config.max_seq,
                    \A q \in mempool.cache[a]..s : <<a, q>> \in DOMAIN mempool.txns
             PROVE  <<a, s>> \in mempool.priority
  BY Zenon DEF NextIsReady
<1>1. /\ a \in config.accounts \ raced /\ mempool.cache[a] \in Nat /\ config.max_seq \in Nat
      /\ notified[a] \in Nat /\ db[a] \in Nat
  BY DEF MempoolInv, IsMempool, Config
<1>2. /\ notified[a] <= mempool.cache[a] /\ mempool.cache[a] <= db[a]
      /\ notified[a] < mempool.cache[a] \/ ReadyFrom(mempool, a, mempool.cache[a])
  BY Zenon, <1>1 DEF MempoolInv, AccountOK
<1>3. ReadyFrom(mempool, a, mempool.cache[a])
  BY SMTT(30), <1>1, <1>2
<1>4. s \in mempool.cache[a]..s
  BY <1>1
<1>5. <<a, s>> \in DOMAIN mempool.txns /\ <<a, s>>[1] = a /\ <<a, s>>[2] = s
  BY <1>4
<1> QED BY Zenon, <1>3, <1>5 DEF ReadyFrom

\* A transaction the mempool holds and that can be executed after the last commit it knows
\* of is ready, for every number of accounts and transactions, capacity and order of
\* submissions, commits, notifications, rejections, expirations and evictions.
THEOREM NextIsAlwaysReady == Spec => []NextIsReady
<1>1. Init => MempoolInv
  BY Zenon, MempoolStarts
<1>2. MempoolInv /\ [Next]_vars => MempoolInv'
  BY Zenon, MempoolStep
<1>3. MempoolInv => NextIsReady
  BY Zenon, InvariantIsReady
<1> QED BY <1>1, <1>2, <1>3, PTL DEF Spec
================================================================================
