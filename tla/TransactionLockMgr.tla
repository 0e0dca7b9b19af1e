------------------------- MODULE TransactionLockMgr -------------------------
(***************************************************************************)
(* TransactionLockMgr (utilities/transactions/transaction_lock_mgr.cc) and *)
(* the transactions that use it (pessimistic_transaction.cc): row locks    *)
(* with waiting, timeouts, expiration, deadlock detection and a limit.     *)
(*                                                                         *)
(* A transaction is run by a thread of its own.  What a thread does while  *)
(* it holds a stripe's mutex is one step, except where another stripe can  *)
(* interfere: the limit on locks is compared in one step and the lock is   *)
(* counted in another.  Wake-ups belong to the unlocking step.  Time is a  *)
(* counter; transactions begin at time 0, so a transaction's expiration is *)
(* a constant.  rev_wait_txn_map_ counts how often a transaction occurs in *)
(* wait_txn_map_ and is read off it.  The number of locks is counted per   *)
(* column family, whose stripes are its own.                               *)
(***************************************************************************)
EXTENDS Integers, Sequences, FiniteSets

CONSTANTS Txns, Keys, None,
          StripeOf,   \* the stripe (of its column family) a key hashes to
          Options,    \* what the databases and transactions may be opened with
          MaxCalls    \* bound of the lock calls of a transaction

\* No transaction has the value that stands for none.
ASSUME NoneAssumption == None \notin Txns

\* TransactionDBOptions and TransactionOptions.
ASSUME OptionsAssumption ==
  /\ MaxCalls \in Nat
  /\ \A o \in Options :
       /\ o.txns \subseteq Txns /\ o.keys \subseteq Keys   \* that are used
       /\ o.modes \subseteq BOOLEAN           \* the values of exclusive
       /\ o.expiration \in [Txns -> Nat]      \* expiration_time_, 0: none
       /\ o.lock_timeout \in [Txns -> Int]    \* negative: none
       /\ o.deadlock_detect \subseteq Txns /\ o.deadlock_detect_depth \in Nat
       /\ o.max_num_locks \in Nat             \* 0: no limit
       /\ o.end \subseteq Txns                \* that may end, or be rolled back
       /\ o.prepare \subseteq Txns            \* that may prepare
       /\ o.drop \subseteq {o.cf[k] : k \in Keys}   \* column families that may be dropped
       /\ o.time \in Nat                      \* bound of the clock
       /\ \A k, l \in Keys : StripeOf[k] = StripeOf[l] => o.cf[k] = o.cf[l]

Stripes == {StripeOf[k] : k \in Keys}

VARIABLES
  opts,         \* the options in force
  now, cfs,     \* the clock; the column families that have a LockMap
  locks,        \* LockMapStripe::keys: [ids, excl, exp], ids = <<>>: no entry
  cnt, mutex,   \* lock_cnt of each column family; who holds each stripe_mutex
  waitMap,      \* wait_txn_map_: whom each transaction waits for
  expirable,    \* expirable_transactions_map_
  state,        \* txn_state_ of each transaction
  prepared,     \* transactions whose expiration_time_ Prepare has cleared
  tracked,      \* tracked_keys_: "no", "shared" or "excl" for each key
  pc, call,     \* what each thread does; the lock it asks for [key, excl, end]
  ids, hint,    \* wait_ids and expire_time_hint of AcquireWithTimeout
  rel,          \* the unlocking under way: what follows it, its column family
  calls         \* how many lock calls each transaction has made

CFOf == opts.cf
CFs == {CFOf[k] : k \in Keys}
Expiration == opts.expiration
Timeout == opts.lock_timeout
Detect == opts.deadlock_detect
Depth == opts.deadlock_detect_depth
MaxLocks == opts.max_num_locks

table == <<locks, cnt, mutex>>
vars == <<opts, now, cfs, table, waitMap, expirable, state, prepared, tracked, pc,
          call, ids, hint, rel, calls>>
locals == <<call, ids, hint>>

Unlocked == [ids |-> <<>>, excl |-> FALSE, exp |-> 0]
NoCall == [key |-> None, excl |-> FALSE, end |-> 0]
Elements(q) == {q[i] : i \in DOMAIN q}
ExpirationTime(t) == IF t \in prepared THEN 0 ELSE Expiration[t]
IsExpired(t) == ExpirationTime(t) > 0 /\ now >= ExpirationTime(t)
TrackedKeys(t) == {k \in Keys : tracked[t][k] # "no"}

Init ==
  /\ opts \in Options
  /\ now = 0 /\ cfs = CFs
  /\ locks = [k \in Keys |-> Unlocked]
  /\ cnt = [c \in CFs |-> 0] /\ mutex = [s \in Stripes |-> None]
  /\ waitMap = [t \in Txns |-> <<>>]
  /\ expirable = {t \in Txns : Expiration[t] > 0}
  /\ state = [t \in Txns |-> "STARTED"] /\ prepared = {}
  /\ tracked = [t \in Txns |-> [k \in Keys |-> "no"]]
  /\ pc = [t \in Txns |-> "idle"]
  /\ call = [t \in Txns |-> NoCall]
  /\ ids = [t \in Txns |-> <<>>] /\ hint = [t \in Txns |-> 0]
  /\ rel = [t \in Txns |-> [then |-> "none", cf |-> None]]
  /\ calls = [t \in Txns |-> 0]

Tick ==
  /\ now < opts.time
  /\ now' = now + 1
  /\ UNCHANGED <<opts, cfs, table, waitMap, expirable, state, prepared, tracked, pc,
                 locals, rel, calls>>

-----------------------------------------------------------------------------
(* Deadlock detection.                                                     *)

\* The queue of IncrementWaiters' breadth-first search, which never grows past
\* Depth places, after the first n of its entries were expanded.
Queue(t, q0, w) ==
  LET Cut(q) == SubSeq(q, 1, IF Len(q) < Depth THEN Len(q) ELSE Depth)
      Q[n \in 0 .. Depth] ==
        IF n = 0 THEN Cut(q0)
        ELSE LET q == Q[n - 1] IN IF n <= Len(q) THEN Cut(q \o w[q[n]]) ELSE q
  IN  Q[Depth]

\* Mutant of Deadlock: the search stops at the transactions t waits for itself.
DeadlockNear(t, q0, w) == t \in Elements(q0)

\* IncrementWaiters' verdict for t about to wait for q0: a path back to t, or a
\* search that used up its depth.  Without a waiter for t there is none.
Deadlock(t, q0, w) ==
  LET q == Queue(t, q0, w) IN
  /\ \E u \in Txns : t \in Elements(w[u])
  /\ t \in Elements(q) \/ Len(q) = Depth

-----------------------------------------------------------------------------
(* AcquireLocked.                                                          *)

\* TryStealingExpiredTransactionLocks: an unknown transaction's locks can be
\* taken, a known one's only if it is still STARTED.
CanSteal(u) == u \notin expirable \/ state[u] = "STARTED"

\* IsLockExpired asks the other holders one after the other, up to the first
\* that refuses.
Asked(t, info) ==
  {info.ids[i] : i \in {j \in DOMAIN info.ids :
     info.ids[j] # t /\ \A m \in 1 .. j - 1 : info.ids[m] = t \/ CanSteal(info.ids[m])}}
IsLockExpired(t, info) ==
  /\ info.exp # 0 /\ info.exp <= now
  /\ \A u \in Elements(info.ids) \ {t} : CanSteal(u)

Mine(t) == [ids |-> <<t>>, excl |-> call[t].excl, exp |-> ExpirationTime(t)]

Max2(a, b) == IF a > b THEN a ELSE b

\* Mutant of Granted: a shared lock expires with the latest to join.
GrantedLatest(t, info) ==
  IF ~info.excl /\ ~call[t].excl
  THEN [ids |-> Append(info.ids, t), excl |-> FALSE, exp |-> ExpirationTime(t)]
  ELSE Mine(t)

\* The three ways a lock somebody holds is granted: it is t's own, it is shared
\* and t asks for a share, or it is expired.
Own(t, info) == info.ids = <<t>>
Share(t, info) == ~info.excl /\ ~call[t].excl
Granted(t, info) ==
  IF Share(t, info)
  THEN [ids |-> Append(info.ids, t), excl |-> FALSE,
        exp |-> Max2(info.exp, ExpirationTime(t))]
  ELSE Mine(t)

\* The call of t is over; its local variables are no more.
Forget(t) ==
  /\ call' = [call EXCEPT ![t] = NoCall]
  /\ ids' = [ids EXCEPT ![t] = <<>>] /\ hint' = [hint EXCEPT ![t] = 0]
Return(t) ==
  /\ pc' = [pc EXCEPT ![t] = "idle"]
  /\ mutex' = [mutex EXCEPT ![StripeOf[call[t].key]] = None]
  /\ Forget(t)

\* cv_end_time: the earlier of the lock's expiration and the caller's timeout.
CvEnd(h, e) == IF h > 0 /\ (e = 0 \/ h < e) THEN h ELSE IF e > 0 THEN e ELSE -1

\* One turn of AcquireWithTimeout's loop after AcquireLocked failed with status,
\* q being wait_ids and h expire_time_hint: detect a deadlock, then wait, or go on
\* at once when the time to wait until has passed.  Going on, a TimedOut result
\* leads to a last attempt; a Busy one leads nowhere: the loop repeats itself.
Loop(t, status, q, h, w) ==
  LET wt == IF q # <<>> /\ t \in Detect THEN [w EXCEPT ![t] = q] ELSE w
      cv == CvEnd(h, call[t].end)
      s == StripeOf[call[t].key]
  IN  IF q # <<>> /\ t \in Detect /\ Deadlock(t, q, wt)
      THEN Return(t) /\ waitMap' = w
      ELSE /\ ids' = [ids EXCEPT ![t] = q] /\ hint' = [hint EXCEPT ![t] = h]
           /\ UNCHANGED call
           /\ IF cv < 0 \/ cv > now
              THEN /\ pc' = [pc EXCEPT ![t] = "waiting"]
                   /\ mutex' = [mutex EXCEPT ![s] = None]
                   /\ waitMap' = wt
              ELSE /\ pc' = [pc EXCEPT ![t] = IF status = "timedout" THEN "retry"
                                              ELSE "spinning"]
                   /\ mutex' = [mutex EXCEPT ![s] = t]
                   /\ waitMap' = w

\* What follows a failed AcquireLocked.
Failed(t, status, q, h, w, last) ==
  IF last \/ Timeout[t] = 0
  THEN Return(t) /\ waitMap' = w
  ELSE Loop(t, status, q, h, w)

\* The states of the holders after t asked them to give their lock up.
Stolen(t, info) ==
  [u \in Txns |-> IF u \in Asked(t, info) \cap expirable /\ state[u] = "STARTED"
                  THEN "LOCKS_STOLEN" ELSE state[u]]

\* AcquireLocked with the stripe's mutex held and, after a wait, the waiter's
\* entry removed; then what AcquireWithTimeout does with its result.
Attempt(t) ==
  LET k == call[t].key
      info == locks[k]
      w == [waitMap EXCEPT ![t] = <<>>]
      last == pc[t] \in {"timedout", "retry"}
      asks == info.exp # 0 /\ info.exp <= now
      grant == Share(t, info) \/ Own(t, info) \/ IsLockExpired(t, info)
      steals == ~Share(t, info) /\ ~Own(t, info) /\ asks
  IN
  /\ pc[t] \in {"lock", "woken", "timedout", "retry"}
  /\ mutex[StripeOf[k]] \in {None, t}
  /\ \/ /\ info.ids = <<>> /\ MaxLocks > 0 /\ cnt[CFOf[k]] >= MaxLocks
        /\ Failed(t, "busy", ids[t], hint[t], w, last)
        /\ UNCHANGED <<locks, state>>
     \/ /\ info.ids = <<>> /\ MaxLocks > 0 /\ cnt[CFOf[k]] < MaxLocks
        /\ pc' = [pc EXCEPT ![t] = "checked"]
        /\ mutex' = [mutex EXCEPT ![StripeOf[k]] = t]
        /\ waitMap' = w
        /\ UNCHANGED <<locks, state, locals>>
     \/ /\ info.ids = <<>> /\ MaxLocks = 0
        /\ locks' = [locks EXCEPT ![k] = Mine(t)]
        /\ pc' = [pc EXCEPT ![t] = "granted"]
        /\ mutex' = [mutex EXCEPT ![StripeOf[k]] = None]
        /\ waitMap' = w
        /\ UNCHANGED <<state, locals>>
     \/ /\ info.ids # <<>> /\ grant
        /\ locks' = [locks EXCEPT ![k] = Granted(t, info)]
        /\ pc' = [pc EXCEPT ![t] = "granted"]
        /\ mutex' = [mutex EXCEPT ![StripeOf[k]] = None]
        /\ waitMap' = w
        /\ state' = IF steals THEN Stolen(t, info) ELSE state
        /\ UNCHANGED <<locals>>
     \/ /\ info.ids # <<>> /\ ~grant
        /\ Failed(t, "timedout", info.ids, IF asks THEN 0 ELSE info.exp, w, last)
        /\ state' = IF steals THEN Stolen(t, info) ELSE state
        /\ UNCHANGED locks
  /\ UNCHANGED <<opts, now, cfs, cnt, expirable, prepared, tracked, rel, calls>>

\* The rest of AcquireLocked once the limit was found not to be reached.
Emplace(t) ==
  LET k == call[t].key IN
  /\ pc[t] = "checked"
  /\ locks' = [locks EXCEPT ![k] = Mine(t)]
  /\ cnt' = [cnt EXCEPT ![CFOf[k]] = @ + 1]
  /\ mutex' = [mutex EXCEPT ![StripeOf[k]] = None]
  /\ pc' = [pc EXCEPT ![t] = "granted"]
  /\ UNCHANGED <<opts, now, cfs, waitMap, expirable, state, prepared, tracked, locals, rel,
                 calls>>

\* Another turn of the loop with a Busy result and no time left: the wait_ids of
\* an earlier attempt, if any, can still report a deadlock.
Spin(t) ==
  /\ pc[t] = "spinning"
  /\ Loop(t, "busy", ids[t], hint[t], waitMap)
  /\ UNCHANGED <<opts, now, cfs, locks, cnt, expirable, state, prepared, tracked, rel,
                 calls>>

\* stripe_cv's WaitFor times out.
TimesOut(t) ==
  /\ pc[t] = "waiting"
  /\ CvEnd(hint[t], call[t].end) \in 0 .. now
  /\ pc' = [pc EXCEPT ![t] = "timedout"]
  /\ UNCHANGED <<opts, now, cfs, table, waitMap, expirable, state, prepared, tracked,
                 locals, rel, calls>>

\* stripe_mutex's TryLockFor times out.
MutexTimesOut(t) ==
  /\ pc[t] = "lock"
  /\ mutex[StripeOf[call[t].key]] # None
  /\ Timeout[t] >= 0 /\ now >= call[t].end
  /\ pc' = [pc EXCEPT ![t] = "idle"]
  /\ Forget(t)
  /\ UNCHANGED <<opts, now, cfs, table, waitMap, expirable, state, prepared, tracked, rel,
                 calls>>

-----------------------------------------------------------------------------
(* The transaction's side: PessimisticTransaction::TryLock.                *)

TryLock(t, k, excl) ==
  /\ pc[t] = "idle" /\ state[t] \in {"STARTED", "LOCKS_STOLEN"}
  /\ calls[t] < MaxCalls /\ now + Timeout[t] <= opts.time
  /\ CFOf[k] \in cfs
  /\ tracked[t][k] = "no" \/ (tracked[t][k] = "shared" /\ excl)
  /\ pc' = [pc EXCEPT ![t] = "lock"]
  /\ call' = [call EXCEPT ![t] = [key |-> k, excl |-> excl,
                                  end |-> IF Timeout[t] > 0 THEN now + Timeout[t] ELSE 0]]
  /\ calls' = [calls EXCEPT ![t] = @ + 1]
  /\ UNCHANGED <<opts, now, cfs, table, waitMap, expirable, state, prepared, tracked, ids,
                 hint, rel>>

\* The lock was granted: TrackKey.
Track(t) ==
  /\ pc[t] = "granted"
  /\ tracked' = [tracked EXCEPT ![t][call[t].key] = IF call[t].excl THEN "excl" ELSE "shared"]
  /\ pc' = [pc EXCEPT ![t] = "idle"]
  /\ Forget(t)
  /\ UNCHANGED <<opts, now, cfs, table, waitMap, expirable, state, prepared, rel, calls>>

\* Mutant of UnLockKey: the last holder goes, whoever it is.
UnLockKeyLast(t, info) ==
  IF t \notin Elements(info.ids) THEN info
  ELSE IF Len(info.ids) = 1 THEN Unlocked
  ELSE [info EXCEPT !.ids = SubSeq(@, 1, Len(@) - 1)]

\* UnLockKey: the last holder's id takes the place of the one removed.
UnLockKey(t, info) ==
  LET n == Len(info.ids)
      i == CHOOSE j \in 1 .. n : info.ids[j] = t
  IN  IF t \notin Elements(info.ids) THEN info
      ELSE IF n = 1 THEN Unlocked
      ELSE [info EXCEPT !.ids = SubSeq([info.ids EXCEPT ![i] = info.ids[n]], 1, n - 1)]

\* Mutant of UnLocked: only exclusive locks are counted off.
UnLockedExclusive(t, K) ==
  /\ locks' = [k \in Keys |-> IF k \in K THEN UnLockKey(t, locks[k]) ELSE locks[k]]
  /\ cnt' = [c \in CFs |->
       IF MaxLocks = 0 THEN cnt[c]
       ELSE cnt[c] - Cardinality({k \in K : CFOf[k] = c /\ locks[k].excl
                                             /\ t \in Elements(locks[k].ids)})]

\* UnLockKey for the keys K of one stripe; the count goes down for each of them
\* that t was found to hold.
UnLocked(t, K) ==
  /\ locks' = [k \in Keys |-> IF k \in K THEN UnLockKey(t, locks[k]) ELSE locks[k]]
  /\ cnt' = [c \in CFs |->
       IF MaxLocks = 0 THEN cnt[c]
       ELSE cnt[c] - Cardinality({k \in K : CFOf[k] = c /\ t \in Elements(locks[k].ids)})]

\* stripe_cv's NotifyAll.
Notified(s) ==
  [u \in Txns |-> IF pc[u] = "waiting" /\ StripeOf[call[u].key] = s THEN "woken"
                  ELSE pc[u]]

\* ValidateSnapshot failed for a key that was not locked before: UnLock(key).
ValidateFails(t) ==
  LET s == StripeOf[call[t].key] IN
  /\ pc[t] = "granted"
  /\ IF tracked[t][call[t].key] = "no"
     THEN /\ mutex[s] = None
          /\ UnLocked(t, {call[t].key})
          /\ pc' = [Notified(s) EXCEPT ![t] = "idle"]
     ELSE pc' = [pc EXCEPT ![t] = "idle"] /\ UNCHANGED <<locks, cnt>>
  /\ Forget(t)
  /\ UNCHANGED <<opts, now, cfs, mutex, waitMap, expirable, state, prepared, tracked, rel,
                 calls>>

-----------------------------------------------------------------------------
(* Commit, Prepare, Rollback and the destructor.                           *)

others == <<opts, now, cfs, waitMap, locals, calls>>

\* Clear begins; afterwards txn_state_ becomes st.
StartRelease(t, st) ==
  /\ pc' = [pc EXCEPT ![t] = "releasing"]
  /\ rel' = [rel EXCEPT ![t] = [then |-> st, cf |-> None]]

\* Commit and Prepare up to their IsExpired() test; an expired one returns.
CommitTest(t) ==
  /\ pc[t] = "idle" /\ state[t] \in {"STARTED", "PREPARED", "LOCKS_STOLEN"}
  /\ ~IsExpired(t)
  /\ pc' = [pc EXCEPT ![t] = "commit"]
  /\ UNCHANGED <<others, table, expirable, state, prepared, tracked, rel>>

PrepareTest(t) ==
  /\ t \in opts.prepare
  /\ pc[t] = "idle" /\ state[t] \in {"STARTED", "LOCKS_STOLEN"}
  /\ ~IsExpired(t)
  /\ pc' = [pc EXCEPT ![t] = "prepare"]
  /\ UNCHANGED <<others, table, expirable, state, prepared, tracked, rel>>

\* Mutant of MayCommit: the state is not compared again after the test.
MayCommitAnyway(t) == TRUE

\* Commit's compare-and-exchange, or its test when the locks cannot be stolen.
MayCommit(t) == \/ state[t] = "STARTED"
                \/ state[t] = "PREPARED" /\ ExpirationTime(t) = 0

\* Commit from there on; ok is whether WriteImpl succeeds.  A failed commit of a
\* prepared transaction keeps its locks, any other commit gives them up.
Commit(t, ok) ==
  /\ pc[t] = "commit"
  /\ IF ~MayCommit(t)
     THEN pc' = [pc EXCEPT ![t] = "idle"] /\ UNCHANGED <<state, rel>>
     ELSE /\ state' = [state EXCEPT ![t] = "AWAITING_COMMIT"]
          /\ IF state[t] = "PREPARED" /\ ~ok
             THEN pc' = [pc EXCEPT ![t] = "idle"] /\ UNCHANGED rel
             ELSE StartRelease(t, IF ok THEN "COMMITTED" ELSE "AWAITING_COMMIT")
  /\ UNCHANGED <<others, table, expirable, prepared, tracked>>

\* The commit-time batch is not empty: an error, with the state already changed
\* if the transaction has an expiration.
CommitRefused(t) ==
  /\ pc[t] = "commit" /\ state[t] = "STARTED"
  /\ state' = [state EXCEPT ![t] = IF ExpirationTime(t) > 0 THEN "AWAITING_COMMIT" ELSE @]
  /\ pc' = [pc EXCEPT ![t] = "idle"]
  /\ UNCHANGED <<others, table, expirable, prepared, tracked, rel>>

\* The rest of Prepare.  The locks keep the expiration they were taken with.
Prepare(t, ok) ==
  /\ pc[t] = "prepare"
  /\ pc' = [pc EXCEPT ![t] = "idle"]
  /\ IF state[t] = "STARTED"
     THEN /\ state' = [state EXCEPT ![t] = IF ok THEN "PREPARED" ELSE "AWAITING_PREPARE"]
          /\ prepared' = prepared \cup {t}
     ELSE UNCHANGED <<state, prepared>>
  /\ UNCHANGED <<others, table, expirable, tracked, rel>>

Rollback(t, ok) ==
  /\ pc[t] = "idle"
  /\ \/ /\ state[t] = "PREPARED"
        /\ state' = [state EXCEPT ![t] = "AWAITING_ROLLBACK"]
        /\ IF ok THEN StartRelease(t, "ROLLEDBACK") ELSE UNCHANGED <<pc, rel>>
     \/ state[t] = "STARTED" /\ TrackedKeys(t) # {} /\ StartRelease(t, "same") /\ UNCHANGED state
  /\ UNCHANGED <<others, table, expirable, prepared, tracked>>

Destroy(t) ==
  /\ pc[t] = "idle"
  /\ StartRelease(t, "gone")
  /\ UNCHANGED <<others, table, expirable, state, prepared, tracked>>

-----------------------------------------------------------------------------
(* UnLock of a transaction's tracked keys: column family by column family, *)
(* stripe by stripe.  tracked shrinks as it goes.                          *)

Rest(t, c) == {k \in TrackedKeys(t) : CFOf[k] = c}

\* The column family c is, or can be, the one being unlocked.
Turn(t, c) == rel[t].cf = c \/ (c \in cfs /\ Rest(t, rel[t].cf) = {})

ReleaseStripe(t, s) ==
  LET K == {k \in TrackedKeys(t) : StripeOf[k] = s} IN
  /\ pc[t] = "releasing" /\ K # {} /\ mutex[s] = None
  /\ \E c \in CFs :
       /\ c = CFOf[CHOOSE k \in K : TRUE] /\ Turn(t, c)
       /\ rel' = [rel EXCEPT ![t].cf = c]
  /\ UnLocked(t, K)
  /\ tracked' = [tracked EXCEPT ![t] = [k \in Keys |-> IF k \in K THEN "no" ELSE @[k]]]
  /\ pc' = Notified(s)
  /\ UNCHANGED <<others, mutex, expirable, state, prepared>>

\* A column family was dropped: UnLock returns, whatever is left to unlock.
ReleaseStops(t) ==
  /\ pc[t] = "releasing"
  /\ Rest(t, rel[t].cf) = {}
  /\ \E c \in CFs \ cfs : Rest(t, c) # {}
  /\ tracked' = [tracked EXCEPT ![t] = [k \in Keys |-> "no"]]
  /\ UNCHANGED <<others, table, expirable, state, prepared, pc, rel>>

ReleaseEnds(t) ==
  /\ pc[t] = "releasing" /\ TrackedKeys(t) = {}
  /\ pc' = [pc EXCEPT ![t] = IF rel[t].then = "gone" THEN "gone" ELSE "idle"]
  /\ state' = [state EXCEPT ![t] = IF rel[t].then \in {"gone", "same"} THEN @
                                   ELSE rel[t].then]
  /\ expirable' = IF rel[t].then = "gone" /\ ExpirationTime(t) > 0 THEN expirable \ {t}
                  ELSE expirable
  /\ rel' = [rel EXCEPT ![t] = [then |-> "none", cf |-> None]]
  /\ UNCHANGED <<others, table, prepared, tracked>>

\* RemoveColumnFamily: transactions that use the LockMap keep it.
DropColumnFamily(c) ==
  /\ c \in cfs \cap opts.drop
  /\ cfs' = cfs \ {c}
  /\ UNCHANGED <<opts, now, table, waitMap, expirable, state, prepared, tracked, pc,
                 locals, rel, calls>>

-----------------------------------------------------------------------------
Step(t) ==
  \/ Attempt(t) \/ Emplace(t) \/ Spin(t) \/ TimesOut(t) \/ MutexTimesOut(t)
  \/ Track(t) \/ ValidateFails(t)
  \/ \E ok \in BOOLEAN : Commit(t, ok) \/ Prepare(t, ok)
  \/ CommitRefused(t)
  \/ (\E s \in Stripes : ReleaseStripe(t, s)) \/ ReleaseStops(t) \/ ReleaseEnds(t)

Client(t) ==
  \/ \E k \in opts.keys, excl \in opts.modes : TryLock(t, k, excl)
  \/ t \in opts.end /\ (CommitTest(t) \/ Destroy(t) \/ \E ok \in BOOLEAN : Rollback(t, ok))
  \/ PrepareTest(t)

Next == \/ Tick
        \/ \E t \in opts.txns : Step(t) \/ Client(t)
        \/ \E c \in CFs : DropColumnFamily(c)

Spec == Init /\ [][Next]_vars

-----------------------------------------------------------------------------
(* Properties.                                                             *)

Holds(t, k) == tracked[t][k] # "no" \/ (pc[t] = "granted" /\ call[t].key = k)
HoldsAlone(t, k) == \/ tracked[t][k] = "excl"
                    \/ pc[t] = "granted" /\ call[t].key = k /\ call[t].excl

\* The one lock that goes unnoticed: the share of a transaction without expiration.
\* Sharers that expire give the lock an expiration, and a transaction that is not
\* in expirable_transactions_map_ is taken for one that is gone.
Unprotected(t, k) ==
  /\ Expiration[t] = 0 /\ ~HoldsAlone(t, k)
  /\ \E u \in Txns : Expiration[u] > 0

\* Two transactions that may both still commit never both count on a key that one
\* of them locked exclusively: what stealing expired locks must not break, however
\* the steal falls between Commit's IsExpired() and its compare-and-exchange.  It
\* does break it for unprotected shares, and for no other locks.
NoConflict ==
  \A t, u \in Txns : \A k \in Keys :
    t # u /\ HoldsAlone(t, k) /\ Holds(u, k) /\ ~Unprotected(u, k)
      => "LOCKS_STOLEN" \in {state[t], state[u]}

\* The lock table names a transaction exactly as long as the transaction tracks
\* the key, unless its locks were stolen or its share is unprotected: no lock is
\* lost, and none is left behind as long as no column family has been dropped.
LocksAgree ==
  \A k \in Keys, t \in Txns :
    /\ t \in Elements(locks[k].ids) => Holds(t, k) \/ cfs # CFs
    /\ Holds(t, k) /\ ~Unprotected(t, k) /\ state[t] # "LOCKS_STOLEN"
         => t \in Elements(locks[k].ids)
    /\ t \in Elements(locks[k].ids) /\ locks[k].excl => locks[k].ids = <<t>>

\* A transaction loses its locks only after its own expiration, also those it
\* shares with transactions that expire earlier or that join them later.
StolenWhenExpired ==
  \A t \in Txns : state[t] = "LOCKS_STOLEN" => Expiration[t] \in 1 .. now

\* With deadlock_detect_ on and no limit on locks, no transactions are left
\* waiting only for each other: of any that wait, one waits for a key held by a
\* transaction that does not.  Who joins the holders of a shared lock later is
\* not in wait_txn_map_, yet missed only as long as somebody else is still to
\* unlock.
NoDeadlock ==
  \A D \in SUBSET {t \in Detect : pc[t] = "waiting"} : D # {} /\ MaxLocks = 0 =>
    \E t \in D : \E u \in Elements(locks[call[t].key].ids) : u # t /\ u \notin D

\* lock_cnt is never more than the "Count of keys that are currently locked in this
\* column family": a call is refused at the limit (line 571) only if that many keys
\* are locked.  It may be less: each holder of a shared lock is counted off.
CountNeverAbove ==
  \A c \in CFs : cnt[c] <= Cardinality({k \in Keys : CFOf[k] = c /\ locks[k].ids # <<>>})

=============================================================================
