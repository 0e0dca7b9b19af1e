------------------------------- MODULE RocksDB -------------------------------
(***************************************************************************)
(* The part of the RocksDB Java binding that the indexers use.  Each of    *)
(* the ten databases under db/ is a function from the keys that have been  *)
(* put to their latest values.  A put is atomic on its own database; two   *)
(* puts, even to databases that mirror each other, are two steps, because  *)
(* no indexer uses a WriteBatch or a transaction.                          *)
(***************************************************************************)
EXTENDS Integers, FiniteSets

\* A database created by open with setCreateIfMissing(true).
EmptyDB == [k \in {} |-> 0]

\* db.get(k) != null
Has(db, k) == k \in DOMAIN db

\* db.put(k, v): adds the key or overwrites its value.
Put(db, k, v) == [x \in DOMAIN db \cup {k} |-> IF x = k THEN v ELSE db[x]]

\* The number of keys met by iterating from seekToFirst() while isValid().
Count(db) == Cardinality(DOMAIN db)

=============================================================================
