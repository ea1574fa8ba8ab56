------------------------------ MODULE RoundState -------------------------------
(***************************************************************************)
(* The round a validator is in: the votes received and the vote sent in    *)
(* it.  The duration of the round, which grows with the rounds since the   *)
(* last commit, is left open: the timer of a round may expire at any time. *)
(***************************************************************************)
EXTENDS PendingVotes

\* vote_sent holds the vote, if any.
NewRoundState ==
    [current_round |-> 0, vote_sent |-> {}, pending_votes |-> NewPendingVotes]

\* Mutant: the next round instead of the round after the certificates.
process_certificates_Mutant(rs, r) ==
    IF r + 1 > rs.current_round
    THEN [NewRoundState EXCEPT !.current_round = rs.current_round + 1]
    ELSE rs

\* process_certificates on certificates whose highest round is r.
process_certificates(rs, r) ==
    IF r + 1 > rs.current_round
    THEN [NewRoundState EXCEPT !.current_round = r + 1]
    ELSE rs

\* Mutant: the vote may be one of an earlier round.
record_vote_Mutant(rs, v) == [rs EXCEPT !.vote_sent = {v}]

record_vote(rs, v) ==
    IF round(v.block) = rs.current_round THEN [rs EXCEPT !.vote_sent = {v}] ELSE rs
================================================================================
