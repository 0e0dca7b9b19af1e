------------------------ MODULE MCTransactionLockMgr ------------------------
EXTENDS TransactionLockMgr

CONSTANTS t1, t2, t3, k1, k2, k3

MCStripeOf == [k \in Keys |-> IF k = k1 THEN 1 ELSE 2]

\* A limit of one lock, transactions that expire and one that prepares, one that
\* does not wait and one that does and looks for deadlocks.
Expiring ==
  [txns |-> {t1, t2}, keys |-> {k1, k2}, modes |-> {TRUE, FALSE},
   cf |-> [k \in Keys |-> 1],
   expiration |-> [t \in Txns |-> IF t = t1 THEN 2 ELSE 1],
   lock_timeout |-> [t \in Txns |-> IF t = t1 THEN 0 ELSE 1],
   deadlock_detect |-> {t2}, deadlock_detect_depth |-> 4, max_num_locks |-> 1,
   prepare |-> {t1}, end |-> {t1, t2}, drop |-> {}, time |-> 2]

\* Two column families, one of which is dropped, and locks shared by a
\* transaction that expires and one that does not.
Dropping ==
  [Expiring EXCEPT !.cf = MCStripeOf, !.expiration = [t \in Txns |-> IF t = t1 THEN 0 ELSE 1],
                   !.lock_timeout = [t \in Txns |-> 1],
                   !.deadlock_detect = {t1, t2}, !.max_num_locks = 0, !.prepare = {},
                   !.drop = {1}, !.time = 1]

\* Three transactions that wait for ever, and a key for each; one of them may end.
Circling ==
  [Dropping EXCEPT !.txns = {t1, t2, t3}, !.keys = {k1, k2, k3}, !.modes = {TRUE},
                   !.expiration = [t \in Txns |-> 0], !.lock_timeout = [t \in Txns |-> -1],
                   !.deadlock_detect = {t1, t2, t3}, !.deadlock_detect_depth = 6, !.end = {t1}, !.drop = {}, !.time = 0]

MCOptions == {Expiring, Dropping, Circling}

=============================================================================
