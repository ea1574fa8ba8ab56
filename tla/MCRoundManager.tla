---------------------------- MODULE MCRoundManager -----------------------------
(***************************************************************************)
(* Three validators, the first with twice the voting power of the others,  *)
(* so that it and any other are a quorum.                                  *)
(***************************************************************************)
EXTENDS RoundManager, TLC

CONSTANTS v1, v2, v3

MCProposer == <<v1, v2, v1, v2, v1>>

Setting(two_chain, up, sync_only, crashable, max_round) ==
    [two_chain |-> two_chain, up |-> up, sync_only |-> sync_only,
     crashable |-> crashable, max_round |-> max_round]

\* One round with everybody, or with a validator that only syncs; two rounds with one
\* validator down, one that may crash, or the 3-chain protocol.
MCConfigs == {
    Setting(TRUE, {v1, v2, v3}, {}, {}, 2),
    Setting(TRUE, {v1, v2, v3}, {v3}, {}, 2),
    Setting(TRUE, {v1, v2}, {}, {v2}, 3),
    Setting(FALSE, {v1, v2}, {}, {}, 3)}

\* Two states that Init with everybody up leads to, from which one validator stops.
\* In round 1, v1 and v3 vote for the proposal of v1 and v2 for the NIL block, and all
\* time out; v3 makes a QC of what it receives, v1 and v2 a timeout certificate.
P1 == <<[round |-> 1, payload |-> v1]>>

N1 == <<[round |-> 1, payload |-> Nil]>>

P2 == <<[round |-> 2, payload |-> v2]>>

N2 == <<[round |-> 2, payload |-> Nil]>>

VoteOf(n, blk, hqc) == [author |-> n, block |-> blk, timeout |-> hqc]

Sync(q, t) == [qc |-> q, tc |-> t]

TC(r) == [round |-> r, hqc_round |-> 0]

At(q, t, blocks, v, r) ==
    [qc |-> q, tc |-> t, blocks |-> blocks, saved_vote |-> {[v EXCEPT !.timeout = {}]},
     rs |-> [NewRoundState EXCEPT !.current_round = r,
                                  !.vote_sent = IF round(v.block) = r THEN {v} ELSE {}],
     safety |-> [last_voted_round |-> round(v.block), preferred_round |-> 0,
                 one_chain_round |-> qc_round(v.block), last_vote |-> v.block]]

Proposes(n, blk, si) == [type |-> "Proposal", author |-> n, block |-> blk, sync |-> si]

Sends(v, si) == [type |-> "Vote", vote |-> v, sync |-> si]

\* A vote for a proposal, and its repetition with the timeout.
SendsTwice(v, si) == {Sends([v EXCEPT !.timeout = {}], si), Sends(v, si)}

Answers(n, m, si) == [type |-> "SyncInfo", author |-> n, to |-> {m}, sync |-> si]

Sent1 == SendsTwice(VoteOf(v1, P1, {0}), Sync(Genesis, NoTC)) \cup
         SendsTwice(VoteOf(v3, P1, {0}), Sync(Genesis, NoTC)) \cup
         {Proposes(v1, P1, Sync(Genesis, NoTC)),
          Sends(VoteOf(v2, N1, {0}), Sync(Genesis, NoTC)),
          Proposes(v2, P2, Sync(Genesis, TC(1)))}

\* The three enter round 2, v3 with the QC; v2 votes for its proposal, v2 and v3 time out.
Round2(up) ==
    LET vb == VoteOf(v2, P2, {0})
        vc == VoteOf(v3, Append(P1, [round |-> 2, payload |-> Nil]), {1})
    IN  /\ config = Setting(TRUE, up, {}, {}, 3)
        /\ node = (v1 :> At(Genesis, TC(1), {Genesis, P1}, VoteOf(v1, P1, {}), 2)
                @@ v2 :> At(Genesis, TC(1), {Genesis, N1, P2}, vb, 2)
                @@ v3 :> At(P1, NoTC, {Genesis, P1, vc.block}, vc, 2))
        /\ msgs = Sent1 \cup SendsTwice(vb, Sync(Genesis, TC(1))) \cup {Sends(vc, Sync(P1, NoTC))}

\* In the 3-chain protocol v1 and v2 go through round 2 in the same way, v3 learns of the
\* timeout certificate, and v1 and v3 time out of round 3.
Round3 ==
    LET p3 == <<[round |-> 3, payload |-> v1]>>
        va == VoteOf(v1, p3, {0})
        vc == VoteOf(v3, Append(P1, [round |-> 3, payload |-> Nil]), {0})
    IN  /\ config = Setting(FALSE, {v1, v2}, {}, {}, 4)
        /\ node = (v1 :> At(Genesis, TC(2), {Genesis, P1, N2, p3}, va, 3)
                @@ v2 :> At(Genesis, TC(2), {Genesis, N1, P2}, VoteOf(v2, P2, {}), 3)
                @@ v3 :> At(P1, TC(2), {Genesis, P1, vc.block}, vc, 3))
        /\ msgs = Sent1 \cup
             SendsTwice(VoteOf(v2, P2, {0}), Sync(Genesis, TC(1))) \cup
             {Sends(VoteOf(v1, N2, {0}), Sync(Genesis, TC(1))),
              Answers(v3, v1, Sync(P1, NoTC)), Answers(v3, v2, Sync(P1, NoTC)),
              Proposes(v1, p3, Sync(Genesis, TC(2))), Sends(vc, Sync(P1, TC(2)))} \cup
             SendsTwice(va, Sync(Genesis, TC(2)))

MCInit ==
    \/ Init
    \/ (Round2({v1, v2}) \/ Round2({v1, v3}) \/ Round3) /\ restarts = 0

MCSpec == MCInit /\ [][Next]_vars /\ Fairness
================================================================================
