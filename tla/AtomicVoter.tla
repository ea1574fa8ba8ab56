------------------------------ MODULE AtomicVoter ------------------------------
(***************************************************************************)
(* What a SafetyRules promises to the protocol: over its life, through     *)
(* crashes and storage failures, it behaves as one indivisible SafetyData  *)
(* that is checked and updated in one step before a message is sent.       *)
(***************************************************************************)
EXTENDS VoterData

VARIABLES
    data,        \* the SafetyData in force
    sent         \* the votes and timeouts signed and handed out

--------------------------------------------------------------------------------
Init == data = NewSafetyData(1) /\ sent = {}

NewEpoch == \E e \in Epoch :
    /\ e > data.epoch
    /\ data' = NewSafetyData(e)
    /\ UNCHANGED sent

Vote == \E p \in Proposals, tc \in TimeoutCerts :
    /\ MayVote(data, p, tc)
    /\ data' = AfterVote(data, p)
    /\ sent' \in {sent, sent \cup {p}}

VoteAgain ==
    /\ data.last_vote # NoVote
    /\ sent' = sent \cup {data.last_vote}
    /\ UNCHANGED data

SendTimeout == \E t \in Timeouts, tc \in TimeoutCerts :
    /\ MayTimeout(data, t, tc)
    /\ data' = record_timeout(data, t.round)
    /\ sent' \in {sent, sent \cup {t}}

Next == NewEpoch \/ Vote \/ VoteAgain \/ SendTimeout

Spec == Init /\ [][Next]_<<data, sent>>
================================================================================
