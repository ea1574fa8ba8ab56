---------------------------- MODULE MCBufferManager ----------------------------
EXTENDS BufferManager

CONSTANTS v1, v2, v3

Setting(nodes, max_block, reconfig, limit, max_faults) ==
    [nodes |-> nodes, max_block |-> max_block, reconfig |-> reconfig, limit |-> limit,
     max_faults |-> max_faults]

\* v1 has 4 of 7 votes, v2 2 and v3, which is faulty, 1.  Both correct validators, with back
\* pressure at once; a slow validator that syncs, in longer chains and in shorter ones
\* with two errors or crashes; an epoch that ends.
MCConfigs ==
    {Setting({v1, v2}, 2, 0, 0, 0), Setting({v2}, 3, 0, 0, 0),
     Setting({v2}, 2, 0, 0, 2), Setting({v2}, 3, 2, 1, 0)}
================================================================================
