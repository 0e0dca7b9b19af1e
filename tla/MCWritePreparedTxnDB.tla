------------------------ MODULE MCWritePreparedTxnDB ------------------------
EXTENDS WritePreparedTxnDB, TLC

CONSTANTS r1, r2

\* Two transactions and a reader that may do without a snapshot, with a crash; and
\* two snapshots, which are more than the cache of snapshots holds.
MCLoads ==
  {[txns |-> 2, readers |-> {r1}, backed |-> {TRUE, FALSE}, datas |-> BOOLEAN,
    seq |-> 4, crashes |-> 1],
   [txns |-> 1, readers |-> {r1, r2}, backed |-> {TRUE}, datas |-> {FALSE},
    seq |-> 4, crashes |-> 0]}

Symmetry == Permutations(Txns)

=============================================================================
