------------------------------- MODULE MCMempool -------------------------------
EXTENDS SharedMempool

\* The core mempool, with two submissions at a time where an account has commits to itself.
Setting(accounts, max_seq, max_gas, max_commits, capacity, capacity_per_user) ==
    [accounts |-> accounts, max_seq |-> max_seq, max_gas |-> max_gas,
     max_commits |-> max_commits, capacity |-> capacity,
     capacity_per_user |-> capacity_per_user,
     workers_available |-> IF accounts = {1} /\ max_commits > 0 THEN 2 ELSE 1,
     peers |-> {}, is_validator |-> TRUE, default_failovers |-> 0,
     shared_mempool_batch_size |-> 1, max_broadcasts_per_peer |-> 1,
     max_id |-> 0, max_faults |-> 0, max_wire |-> 0]

\* Broadcasts to peers, at most max_wire messages and max_faults faults.
Shared(setting, peers, is_validator, size, max_id, max_wire, max_faults) ==
    [setting EXCEPT !.peers = peers, !.is_validator = is_validator,
                    !.shared_mempool_batch_size = size, !.max_broadcasts_per_peer = size,
                    !.max_id = max_id, !.max_faults = max_faults,
                    !.max_wire = max_wire]

MCConfigs == {Setting({1}, 2, 2, 2, 3, 2), Setting({1}, 2, 2, 1, 3, 3),
              Setting({1, 2}, 1, 1, 1, 2, 2), Setting({1, 2}, 1, 2, 0, 3, 2),
              Shared(Setting({1}, 1, 1, 0, 2, 2), {1}, TRUE, 2, 2, 1, 0),
              Shared(Setting({1}, 0, 1, 0, 1, 1), {1}, TRUE, 1, 2, 2, 1),
              Shared(Setting({1}, 0, 1, 0, 1, 1), {1, 2}, FALSE, 1, 1, 1, 1)}

\* One peer, and one transaction at a time.
OnePeer == {Shared(Setting({1}, 1, 1, 1, 1, 1), {1}, TRUE, 1, 2, 1, 1)}
================================================================================
