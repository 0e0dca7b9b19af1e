---------------------- MODULE TransactionLockMgrProofs ----------------------
(***************************************************************************)
(* The inductive invariant of TransactionLockMgr, what its steps do in the *)
(* terms of that invariant, and the proofs that they keep the types and    *)
(* the control.  TransactionLockMgrTheorems continues with the lock table. *)
(***************************************************************************)
EXTENDS TransactionLockMgr, TLAPS

LockInfos == [ids : Seq(Txns), excl : BOOLEAN, exp : Nat]
Busy == {"checked", "retry", "spinning"}
Asking == Busy \cup {"lock", "waiting", "woken", "timedout", "granted"}
PCs == Asking \cup {"idle", "commit", "prepare", "releasing", "gone"}
Ends == {"COMMITTED", "AWAITING_COMMIT", "ROLLEDBACK"}
States == Ends \cup {"STARTED", "LOCKS_STOLEN", "PREPARED", "AWAITING_PREPARE",
                     "AWAITING_ROLLBACK"}

TypeOK ==
  /\ opts \in Options /\ now \in Nat /\ cfs \subseteq CFs
  /\ locks \in [Keys -> LockInfos]
  /\ mutex \in [Stripes -> Txns \cup {None}]
  /\ state \in [Txns -> States]
  /\ tracked \in [Txns -> [Keys -> {"no", "shared", "excl"}]]
  /\ pc \in [Txns -> PCs]
  /\ call \in [Txns -> [key : Keys \cup {None}, excl : BOOLEAN, end : Int]]
  /\ rel \in [Txns -> [then : Ends \cup {"none", "gone", "same"}, cf : CFs \cup {None}]]

\* Where a thread is in its call: it holds its stripe's mutex while it is between
\* the two halves of AcquireLocked or goes round the loop, and asks only for locks
\* that it does not track already.
AtCall(t) ==
  LET k == call[t].key IN
  /\ pc[t] \in Asking =>
       /\ k \in Keys
       /\ tracked[t][k] = "no" \/ (tracked[t][k] = "shared" /\ call[t].excl)
  /\ pc[t] \in Busy => mutex[StripeOf[k]] = t
  /\ pc[t] = "checked" => locks[k].ids = <<>> /\ MaxLocks > 0

\* A transaction is in expirable_transactions_map_ until its destructor has run,
\* by when it tracks no key.
Known(t) ==
  /\ t \in expirable => Expiration[t] > 0
  /\ Expiration[t] > 0 /\ pc[t] # "gone" => t \in expirable
  /\ pc[t] = "gone" => TrackedKeys(t) = {}
  /\ pc[t] = "releasing" => rel[t].then # "none"

Control == \A t \in Txns : AtCall(t) /\ Known(t)

Injective(q) == \A i, j \in DOMAIN q : q[i] = q[j] => i = j
SomeExpire == \E u \in Txns : Expiration[u] > 0

\* What the table says of a key, compared with what the transactions think.
LockOK(k) ==
  /\ locks[k].excl => Len(locks[k].ids) = 1
  /\ locks[k].exp # 0 => SomeExpire
  /\ cfs = CFs => Injective(locks[k].ids)

HolderOK(t, k) ==
  /\ t \in Elements(locks[k].ids) /\ cfs = CFs => Holds(t, k)
  /\ state[t] # "LOCKS_STOLEN" /\ HoldsAlone(t, k) =>
       /\ locks[k].ids = <<t>> /\ locks[k].excl
       /\ Expiration[t] = 0 => locks[k].exp = 0
  /\ state[t] # "LOCKS_STOLEN" /\ Holds(t, k) =>
       t \in Elements(locks[k].ids) \/ Unprotected(t, k)

Table == \A k \in Keys : LockOK(k) /\ \A t \in Txns : HolderOK(t, k)

\* A lock does not expire before those of its holders that do.
Expiry ==
  /\ \A t \in Txns : state[t] = "STARTED" => t \notin prepared
  /\ \A k \in Keys : \A t \in Elements(locks[k].ids) :
       Expiration[t] > 0 /\ t \notin prepared => locks[k].exp >= Expiration[t]

Inv == TypeOK /\ Control /\ Table /\ Expiry /\ StolenWhenExpired

-----------------------------------------------------------------------------
(* What the steps do, in the terms of the invariant.                       *)

SetMutex(t, m) == mutex' = [mutex EXCEPT ![StripeOf[call[t].key]] = m]
GoesTo(t, p) == pc' = [pc EXCEPT ![t] = p]
Stays(t, p) == GoesTo(t, p) /\ UNCHANGED call
Leaves(t) == GoesTo(t, "idle") /\ call' = [call EXCEPT ![t] = NoCall]

\* A thread that was not granted its lock.
Parks(t) ==
  \/ Leaves(t) /\ SetMutex(t, None)
  \/ Stays(t, "waiting") /\ SetMutex(t, None)
  \/ \E p \in {"retry", "spinning"} : Stays(t, p) /\ SetMutex(t, t)

\* The holders of the lock that t asks for have been asked to give it up.
Robs(t) ==
  LET info == locks[call[t].key] IN
  info.exp # 0 /\ info.exp <= now /\ state' = Stolen(t, info)

\* The four ways to be granted a lock: nobody has it, it is shared, it is t's own,
\* it has expired.
Takes(t) ==
  LET k == call[t].key IN
  /\ locks[k].ids = <<>> /\ locks' = [locks EXCEPT ![k] = Mine(t)]
  /\ UNCHANGED state
  /\ IF MaxLocks = 0 THEN UNCHANGED cnt ELSE cnt' = [cnt EXCEPT ![CFOf[k]] = @ + 1]
Shares(t) ==
  LET k == call[t].key
      info == locks[k] IN
  /\ info.ids # <<>> /\ ~info.excl /\ ~call[t].excl
  /\ locks' = [locks EXCEPT ![k] = [ids |-> Append(info.ids, t), excl |-> FALSE,
                                    exp |-> Max2(info.exp, ExpirationTime(t))]]
  /\ UNCHANGED <<state, cnt>>
Renews(t) ==
  LET k == call[t].key IN
  /\ locks[k].ids = <<t>> /\ locks' = [locks EXCEPT ![k] = Mine(t)]
  /\ UNCHANGED <<state, cnt>>
Steals(t) ==
  LET k == call[t].key IN
  /\ locks[k].ids # <<>> /\ Robs(t) /\ IsLockExpired(t, locks[k])
  /\ locks' = [locks EXCEPT ![k] = Mine(t)]
  /\ UNCHANGED cnt

Grants(t) ==
  /\ Stays(t, "granted") /\ SetMutex(t, None)
  /\ Takes(t) \/ Shares(t) \/ Renews(t) \/ Steals(t)

LEMMA FailedParks ==
  ASSUME NEW t, NEW status, NEW q, NEW h, NEW w, NEW last,
         Failed(t, status, q, h, w, last) \/ Loop(t, status, q, h, w)
  PROVE  Parks(t)
<1>1. ASSUME Loop(t, status, q, h, w) PROVE Parks(t)
  BY <1>1 DEF Loop, Return, Forget, Parks, Leaves, Stays, GoesTo, SetMutex
<1>2. ASSUME Return(t) PROVE Parks(t)
  BY <1>2 DEF Return, Forget, Parks, Leaves, GoesTo, SetMutex
<1> QED BY <1>1, <1>2 DEF Failed

\* AcquireLocked fails, passes the test of the limit, or grants the lock.
AttemptEffect(t) ==
  \/ Parks(t) /\ (UNCHANGED state \/ Robs(t)) /\ UNCHANGED <<locks, cnt>>
  \/ /\ Stays(t, "checked") /\ SetMutex(t, t) /\ UNCHANGED <<locks, state, cnt>>
     /\ locks[call[t].key].ids = <<>> /\ MaxLocks > 0
  \/ Grants(t)

LEMMA AttemptEffects ==
  ASSUME NEW t, Attempt(t), MaxLocks \in Nat
  PROVE  AttemptEffect(t)
<1> DEFINE info == locks[call[t].key]
<1> USE DEF table, locals
<1>1. CASE /\ info.ids = <<>> /\ MaxLocks > 0 /\ cnt[CFOf[call[t].key]] >= MaxLocks
           /\ UNCHANGED <<locks, state>> /\ Parks(t)
  BY <1>1 DEF Attempt, AttemptEffect
<1>2. CASE /\ info.ids = <<>> /\ MaxLocks > 0
           /\ pc' = [pc EXCEPT ![t] = "checked"]
           /\ mutex' = [mutex EXCEPT ![StripeOf[call[t].key]] = t]
           /\ UNCHANGED <<locks, state, locals>>
  BY <1>2 DEF Attempt, AttemptEffect, Stays, GoesTo, SetMutex
<1>3. CASE /\ info.ids = <<>> /\ MaxLocks = 0
           /\ locks' = [locks EXCEPT ![call[t].key] = Mine(t)]
           /\ pc' = [pc EXCEPT ![t] = "granted"]
           /\ mutex' = [mutex EXCEPT ![StripeOf[call[t].key]] = None]
           /\ UNCHANGED <<state, locals>>
  BY <1>3 DEF Attempt, AttemptEffect, Grants, Takes, Stays, GoesTo, SetMutex
<1>4. CASE /\ info.ids # <<>>
           /\ Share(t, info) \/ Own(t, info) \/ IsLockExpired(t, info)
           /\ locks' = [locks EXCEPT ![call[t].key] = Granted(t, info)]
           /\ pc' = [pc EXCEPT ![t] = "granted"]
           /\ mutex' = [mutex EXCEPT ![StripeOf[call[t].key]] = None]
           /\ state' = IF ~Share(t, info) /\ ~Own(t, info) /\ info.exp # 0 /\ info.exp <= now
                       THEN Stolen(t, info) ELSE state
           /\ UNCHANGED locals
  <2>1. cnt' = cnt BY DEF Attempt
  <2>2. Stays(t, "granted") /\ SetMutex(t, None) BY <1>4 DEF Stays, GoesTo, SetMutex
  <2>3. CASE Share(t, info)
    BY <1>4, <2>1, <2>2, <2>3 DEF AttemptEffect, Grants, Shares, Granted, Share
  <2>4. CASE ~Share(t, info) /\ Own(t, info)
    BY <1>4, <2>1, <2>2, <2>4 DEF AttemptEffect, Grants, Renews, Granted, Own
  <2>5. CASE ~Share(t, info) /\ ~Own(t, info)
    BY <1>4, <2>1, <2>2, <2>5
       DEF AttemptEffect, Grants, Steals, Robs, Granted, IsLockExpired
  <2> QED BY <2>3, <2>4, <2>5
<1>5. CASE /\ info.ids # <<>> /\ Parks(t)
           /\ state' = IF ~Share(t, info) /\ ~Own(t, info) /\ info.exp # 0 /\ info.exp <= now
                       THEN Stolen(t, info) ELSE state
           /\ UNCHANGED locks
  BY <1>5, Zenon DEF Attempt, AttemptEffect, Robs
<1> HIDE DEF info, table, locals
<1> QED BY <1>1, <1>2, <1>3, <1>4, <1>5, FailedParks, Zenon DEF Attempt, info

-----------------------------------------------------------------------------
(* Types.                                                                  *)

LEMMA OptionTypes ==
  ASSUME opts \in Options
  PROVE  /\ opts.txns \subseteq Txns /\ opts.keys \subseteq Keys /\ opts.modes \subseteq BOOLEAN
         /\ Expiration \in [Txns -> Nat] /\ Timeout \in [Txns -> Int]
         /\ MaxLocks \in Nat
         /\ \A k, l \in Keys : StripeOf[k] = StripeOf[l] => CFOf[k] = CFOf[l]
BY OptionsAssumption DEF Expiration, Timeout, MaxLocks, CFOf

LEMMA ExpirationType ==
  ASSUME TypeOK, NEW t \in Txns
  PROVE  ExpirationTime(t) \in Nat /\ (Expiration[t] = 0 => ExpirationTime(t) = 0)
BY OptionTypes DEF ExpirationTime, TypeOK

\* The lock a transaction is granted.
LEMMA MineType ==
  ASSUME TypeOK, NEW t \in Txns
  PROVE  /\ Mine(t) \in LockInfos
         /\ Mine(t).ids = <<t>> /\ Mine(t).excl = call[t].excl
         /\ Mine(t).exp = ExpirationTime(t)
BY ExpirationType DEF Mine, LockInfos, TypeOK

LEMMA UnLockKeyEffect ==
  ASSUME NEW t \in Txns, NEW info \in LockInfos
  PROVE  LET r == UnLockKey(t, info) IN
         /\ r \in LockInfos
         /\ t \notin Elements(info.ids) => r = info
         /\ Elements(r.ids) \subseteq Elements(info.ids)
         /\ Elements(info.ids) \ {t} \subseteq Elements(r.ids)
         /\ Injective(info.ids) => t \notin Elements(r.ids) /\ Injective(r.ids)
         /\ info.excl /\ Len(info.ids) = 1 /\ t \in Elements(info.ids) => r = Unlocked
         /\ r.excl => info.excl
         /\ r.exp # 0 => r.exp = info.exp
         /\ r.ids # <<>> => r.exp = info.exp
<1> DEFINE n == Len(info.ids)
           i == CHOOSE j \in 1 .. n : info.ids[j] = t
           r == UnLockKey(t, info)
<1>1. CASE t \notin Elements(info.ids)
  BY <1>1 DEF UnLockKey, LockInfos, Elements
<1>2. CASE t \in Elements(info.ids) /\ n = 1
  <2>1. r = Unlocked BY <1>2 DEF UnLockKey
  <2>2. info.ids[1] = t /\ Elements(info.ids) = {t} BY <1>2 DEF Elements, LockInfos
  <2>3. /\ Unlocked \in LockInfos /\ Unlocked.ids = <<>> /\ Unlocked.exp = 0
        /\ ~Unlocked.excl
    BY DEF Unlocked, LockInfos
  <2>4. Elements(Unlocked.ids) = {} /\ Injective(Unlocked.ids)
    BY <2>3 DEF Elements, Injective
  <2> HIDE DEF r
  <2> QED BY <1>2, <2>1, <2>2, <2>3, <2>4 DEF r
<1>3. CASE t \in Elements(info.ids) /\ n # 1
  <2>1. n \in Nat /\ n > 1 /\ i \in 1 .. n /\ info.ids[i] = t
    <3>1. n \in Nat /\ DOMAIN info.ids = 1 .. n BY DEF LockInfos
    <3>2. PICK j \in 1 .. n : info.ids[j] = t BY <1>3, <3>1 DEF Elements
    <3> HIDE DEF n
    <3>3. i \in 1 .. n /\ info.ids[i] = t BY <3>2
    <3> QED BY <1>3, <3>1, <3>2, <3>3
  <2> DEFINE q == [info.ids EXCEPT ![i] = info.ids[n]]
  <2>2. /\ q \in Seq(Txns) /\ Len(q) = n
        /\ \A j \in 1 .. n : q[j] = IF j = i THEN info.ids[n] ELSE info.ids[j]
    BY <2>1 DEF LockInfos
  <2>3. r = [info EXCEPT !.ids = SubSeq(q, 1, n - 1)]
    BY <1>3 DEF UnLockKey
  <2> HIDE DEF q, r, i
  <2> DEFINE p == SubSeq(q, 1, n - 1)
  <2>4. p \in Seq(Txns) /\ Len(p) = n - 1 /\ \A j \in 1 .. n - 1 : p[j] = q[j]
    BY <2>1, <2>2
  <2> HIDE DEF p
  <2>5. r.ids = p /\ r.excl = info.excl /\ r.exp = info.exp /\ r \in LockInfos
    BY <2>3, <2>4, Zenon DEF LockInfos, p
  <2>6. Elements(r.ids) \subseteq Elements(info.ids)
    BY <2>1, <2>2, <2>4, <2>5 DEF Elements, LockInfos
  <2>7. Elements(info.ids) \ {t} \subseteq Elements(r.ids)
    <3> SUFFICES ASSUME NEW j \in 1 .. n, info.ids[j] # t
                 PROVE  info.ids[j] \in Elements(p)
      BY <2>5 DEF Elements, LockInfos
    <3>1. CASE j = n
      BY <3>1, <2>1, <2>2, <2>4 DEF Elements
    <3>2. CASE j # n
      BY <3>2, <2>1, <2>2, <2>4 DEF Elements
    <3> QED BY <3>1, <3>2
  <2>8. ASSUME Injective(info.ids) PROVE t \notin Elements(r.ids) /\ Injective(r.ids)
    <3>1. \A j, l \in 1 .. n : info.ids[j] = info.ids[l] => j = l
      BY <2>8 DEF Injective, LockInfos
    <3>2. \A j \in 1 .. n - 1 : p[j] # t
      BY <3>1, <2>1, <2>2, <2>4
    <3>3. \A j, l \in 1 .. n - 1 : p[j] = p[l] => j = l
      BY <3>1, <2>1, <2>2, <2>4
    <3>4. DOMAIN p = 1 .. n - 1 BY <2>4
    <3> QED BY <3>2, <3>3, <3>4, <2>5, Zenon DEF Elements, Injective
  <2> QED BY <1>3, <2>1, <2>5, <2>6, <2>7, <2>8 DEF r
<1> QED BY <1>1, <1>2, <1>3

\* The options never change, and with them the constants read off them.
LEMMA OptionsStay ==
  ASSUME opts \in Options, [Next]_vars
  PROVE  opts' = opts
<1> USE DEF others
<1>1. CASE Tick BY <1>1 DEF Tick
<1>2. ASSUME NEW t, Step(t) PROVE opts' = opts
  BY <1>2, Zenon DEF Step, Attempt, Emplace, Spin, TimesOut, MutexTimesOut, Track, ValidateFails,
              Commit, Prepare, CommitRefused, ReleaseStripe, ReleaseStops, ReleaseEnds
<1>3. ASSUME NEW t, Client(t) PROVE opts' = opts
  BY <1>3 DEF Client, TryLock, CommitTest, Destroy, Rollback, PrepareTest
<1>4. CASE \E c \in CFs : DropColumnFamily(c) BY <1>4 DEF DropColumnFamily
<1>5. CASE UNCHANGED vars BY <1>5 DEF vars
<1> QED BY <1>1, <1>2, <1>3, <1>4, <1>5 DEF Next

LEMMA ConstantsStay ==
  ASSUME opts' = opts
  PROVE  /\ CFOf' = CFOf /\ CFs' = CFs /\ Expiration' = Expiration
         /\ MaxLocks' = MaxLocks /\ SomeExpire' = SomeExpire
BY DEF CFOf, CFs, Expiration, MaxLocks, SomeExpire

LEMMA UnLockedLocks ==
  ASSUME TypeOK, NEW t \in Txns, NEW K \in SUBSET Keys, UnLocked(t, K)
  PROVE  /\ locks' \in [Keys -> LockInfos]
         /\ \A k \in Keys : locks'[k] = IF k \in K THEN UnLockKey(t, locks[k]) ELSE locks[k]
<1>1. locks \in [Keys -> LockInfos] BY DEF TypeOK
<1>2. \A k \in Keys : UnLockKey(t, locks[k]) \in LockInfos BY <1>1, UnLockKeyEffect
<1> QED BY <1>1, <1>2 DEF UnLocked

LEMMA StolenType ==
  ASSUME TypeOK, NEW t
  PROVE  Robs(t) \/ UNCHANGED state => state' \in [Txns -> States]
BY DEF Robs, Stolen, TypeOK, States

LEMMA AttemptType ==
  ASSUME TypeOK, NEW t \in Txns, call[t].key \in Keys, AttemptEffect(t)
  PROVE  /\ locks' \in [Keys -> LockInfos]
         /\ mutex' \in [Stripes -> Txns \cup {None}] /\ state' \in [Txns -> States]
         /\ pc' \in [Txns -> PCs]
         /\ call' \in [Txns -> [key : Keys \cup {None}, excl : BOOLEAN, end : Int]]
<1> DEFINE k == call[t].key
<1> DEFINE Calls == [key : Keys \cup {None}, excl : BOOLEAN, end : Int]
<1>1. /\ locks \in [Keys -> LockInfos]
      /\ mutex \in [Stripes -> Txns \cup {None}] /\ state \in [Txns -> States]
      /\ pc \in [Txns -> PCs] /\ call \in [Txns -> Calls]
  BY DEF TypeOK
<1>2. k \in Keys /\ StripeOf[k] \in Stripes
  BY DEF Stripes
<1>3. NoCall \in Calls BY DEF NoCall
<1>4. Mine(t) \in LockInfos BY MineType
<1> HIDE DEF k, Calls
<1>5. \A p \in PCs : Stays(t, p) => pc' \in [Txns -> PCs] /\ call' \in [Txns -> Calls]
  BY <1>1 DEF Stays, GoesTo
<1>6. Leaves(t) => pc' \in [Txns -> PCs] /\ call' \in [Txns -> Calls]
  BY <1>1, <1>3 DEF Leaves, GoesTo, PCs
<1>7. \A m \in Txns \cup {None} : SetMutex(t, m) => mutex' \in [Stripes -> Txns \cup {None}]
  BY <1>1, <1>2 DEF SetMutex, k
<1>8. CASE Parks(t) /\ (UNCHANGED state \/ Robs(t)) /\ UNCHANGED <<locks, cnt>>
  BY <1>1, <1>5, <1>6, <1>7, <1>8, StolenType DEF Parks, PCs, Asking, Busy, Calls
<1>9. CASE Stays(t, "checked") /\ SetMutex(t, t) /\ UNCHANGED <<locks, state, cnt>>
  BY <1>1, <1>5, <1>7, <1>9 DEF PCs, Asking, Busy, Calls
<1>10. CASE Grants(t)
  <2>1. /\ pc' \in [Txns -> PCs] /\ call' \in [Txns -> Calls]
        /\ mutex' \in [Stripes -> Txns \cup {None}]
    BY <1>5, <1>7, <1>10 DEF Grants, PCs, Asking
  <2>2. state' \in [Txns -> States]
    BY <1>1, <1>10, StolenType DEF Grants, Takes, Shares, Renews, Steals
  <2>4. CASE Shares(t)
    <3>1. /\ Append(locks[k].ids, t) \in Seq(Txns)
          /\ Max2(locks[k].exp, ExpirationTime(t)) \in Nat
      BY <1>1, <1>2, ExpirationType DEF LockInfos, Max2
    <3>2. locks' \in [Keys -> LockInfos]
      BY <1>1, <2>4, <3>1 DEF Shares, LockInfos, k
    <3> QED BY <2>1, <2>2, <3>2 DEF Calls
  <2>5. CASE locks' = [locks EXCEPT ![k] = Mine(t)]
    <3>1. locks' \in [Keys -> LockInfos] BY <1>1, <1>4, <2>5, Zenon
    <3> QED BY <2>1, <2>2, <3>1 DEF Calls
  <2> QED BY <1>10, <2>4, <2>5 DEF Grants, Takes, Renews, Steals, k
<1> QED BY <1>8, <1>9, <1>10 DEF AttemptEffect

\* The steps of AcquireWithTimeout with the mutex, in one form.
LEMMA AcquireEffect ==
  ASSUME Inv, NEW t \in Txns, Attempt(t) \/ Emplace(t) \/ Spin(t)
  PROVE  /\ pc[t] \in Asking \ {"granted", "waiting"} /\ call[t].key \in Keys
         /\ mutex[StripeOf[call[t].key]] \in {None, t}
         /\ AttemptEffect(t)
         /\ UNCHANGED <<opts, now, cfs, expirable, prepared, tracked, rel>>
<1>1. MaxLocks \in Nat BY OptionTypes DEF Inv, TypeOK
<1>2. AtCall(t) BY DEF Inv, Control
<1>3. CASE Attempt(t)
  <2>1. AttemptEffect(t) BY <1>1, <1>3, AttemptEffects
  <2> QED BY <1>2, <1>3, <2>1, Zenon DEF Attempt, AtCall, Asking, Busy
<1>4. CASE Emplace(t)
  <2>1. /\ pc[t] = "checked" /\ locks[call[t].key].ids = <<>> /\ MaxLocks > 0
        /\ mutex[StripeOf[call[t].key]] = t /\ call[t].key \in Keys
    BY <1>2, <1>4 DEF Emplace, AtCall, Asking, Busy
  <2>2. Stays(t, "granted") /\ SetMutex(t, None)
    BY <1>4 DEF Emplace, Stays, GoesTo, SetMutex, locals
  <2>3. Takes(t) BY <1>1, <1>4, <2>1 DEF Emplace, Takes
  <2> QED BY <1>4, <2>1, <2>2, <2>3, Zenon DEF Emplace, AttemptEffect, Grants, Asking, Busy
<1>5. CASE Spin(t)
  <2>1. Parks(t) BY <1>5, FailedParks DEF Spin
  <2> QED BY <1>2, <1>5, <2>1 DEF Spin, AtCall, AttemptEffect, Asking, Busy
<1> QED BY <1>3, <1>4, <1>5

\* A step changes the locks and the mutex of a stripe only if no other thread has
\* it, and of the other threads' own state nothing except that it wakes them up.
Frame(t) ==
  /\ opts' = opts
  /\ \A u \in Txns \ {t} :
       /\ call'[u] = call[u] /\ tracked'[u] = tracked[u] /\ rel'[u] = rel[u]
       /\ pc'[u] = pc[u] \/ (pc[u] = "waiting" /\ pc'[u] = "woken")
       /\ u \in expirable' <=> u \in expirable
  /\ \A k \in Keys : mutex[StripeOf[k]] \notin {None, t} =>
       locks'[k] = locks[k] /\ mutex'[StripeOf[k]] = mutex[StripeOf[k]]

\* The steps of a transaction that leave the lock table alone.
Quiet(t) ==
  \/ TimesOut(t) \/ MutexTimesOut(t) \/ Track(t)
  \/ \E ok \in BOOLEAN : Commit(t, ok) \/ Prepare(t, ok) \/ Rollback(t, ok)
  \/ CommitRefused(t) \/ ReleaseStops(t) \/ ReleaseEnds(t)
  \/ \E k \in opts.keys, excl \in opts.modes : TryLock(t, k, excl)
  \/ CommitTest(t) \/ PrepareTest(t) \/ Destroy(t)
  \/ ValidateFails(t) /\ tracked[t][call[t].key] # "no"

\* The keys that a step of a transaction unlocks.
Frees(t, K) ==
  \/ /\ ValidateFails(t) /\ tracked[t][call[t].key] = "no"
     /\ K = {call[t].key}
  \/ \E s \in Stripes : ReleaseStripe(t, s) /\ K = {k \in TrackedKeys(t) : StripeOf[k] = s}

LEMMA StepCases ==
  ASSUME Inv, Next
  PROVE  \/ Tick \/ \E c \in CFs : DropColumnFamily(c)
         \/ \E t \in Txns : \/ Attempt(t) \/ Emplace(t) \/ Spin(t) \/ Quiet(t)
                            \/ \E K \in SUBSET Keys : Frees(t, K)
<1>1. opts.txns \subseteq Txns BY OptionTypes DEF Inv, TypeOK
<1>2. ASSUME NEW t \in Txns, ValidateFails(t)
      PROVE  Quiet(t) \/ \E K \in SUBSET Keys : Frees(t, K)
  <2>1. CASE tracked[t][call[t].key] # "no" BY <1>2, <2>1 DEF Quiet
  <2>2. CASE tracked[t][call[t].key] = "no" /\ call[t].key \in Keys
    BY <1>2, <2>2, Zenon DEF Frees
  <2>3. call[t].key \in Keys
    BY <1>2 DEF Inv, Control, AtCall, Asking, ValidateFails
  <2> QED BY <2>1, <2>2, <2>3
<1>3. ASSUME NEW t, NEW s \in Stripes, ReleaseStripe(t, s)
      PROVE  \E K \in SUBSET Keys : Frees(t, K)
  <2>1. {k \in TrackedKeys(t) : StripeOf[k] = s} \in SUBSET Keys BY DEF TrackedKeys
  <2> QED BY <1>3, <2>1, Zenon DEF Frees
<1>4. ASSUME NEW t, Client(t) PROVE Quiet(t)
  BY <1>4 DEF Client, Quiet
<1>5. ASSUME NEW t \in Txns, Step(t)
      PROVE  \/ Attempt(t) \/ Emplace(t) \/ Spin(t) \/ Quiet(t)
             \/ \E K \in SUBSET Keys : Frees(t, K)
  BY <1>2, <1>3, <1>5 DEF Step, Quiet
<1> QED BY <1>1, <1>4, <1>5 DEF Next

LEMMA TickDropType ==
  ASSUME Inv, Tick \/ \E c \in CFs : DropColumnFamily(c)
  PROVE  TypeOK'
<1>1. opts' = opts BY DEF Tick, DropColumnFamily
<1>2. CFs' = CFs BY <1>1, ConstantsStay
<1> QED BY <1>1, <1>2 DEF Inv, TypeOK, Tick, DropColumnFamily, table, locals

LEMMA QuietType ==
  ASSUME Inv, NEW t \in Txns, Quiet(t)
  PROVE  /\ TypeOK'
         /\ UNCHANGED <<opts, now, cfs, locks, cnt, mutex>>
         /\ Frame(t)
<1> DEFINE Calls == [key : Keys \cup {None}, excl : BOOLEAN, end : Int]
           Rels == [then : Ends \cup {"none", "gone", "same"}, cf : CFs \cup {None}]
           Local ==
             /\ state' \in [Txns -> States] /\ pc' \in [Txns -> PCs]
             /\ tracked' \in [Txns -> [Keys -> {"no", "shared", "excl"}]]
             /\ call' \in [Txns -> Calls] /\ rel' \in [Txns -> Rels]
             /\ \A u \in Txns \ {t} :
                  /\ call'[u] = call[u] /\ tracked'[u] = tracked[u] /\ rel'[u] = rel[u]
                  /\ pc'[u] = pc[u]
                  /\ u \in expirable' <=> u \in expirable
<1>1. /\ opts \in Options /\ now \in Nat /\ cfs \subseteq CFs
      /\ locks \in [Keys -> LockInfos]
      /\ mutex \in [Stripes -> Txns \cup {None}] /\ state \in [Txns -> States]
      /\ tracked \in [Txns -> [Keys -> {"no", "shared", "excl"}]]
      /\ pc \in [Txns -> PCs] /\ call \in [Txns -> Calls] /\ rel \in [Txns -> Rels]
  BY DEF Inv, TypeOK
<1>2. UNCHANGED <<opts, now, cfs, locks, cnt, mutex>>
  BY Zenon DEF Quiet, TimesOut, MutexTimesOut, Track, Commit, Prepare, Rollback, CommitRefused,
         ReleaseStops, ReleaseEnds, TryLock, CommitTest, PrepareTest, Destroy,
         ValidateFails, others, table
<1>3. CFs' = CFs BY <1>2, ConstantsStay
<1>4. Local
  <2> HIDE DEF Calls, Rels
  <2>1. NoCall \in Calls BY DEF NoCall, Calls
  <2>2. /\ \A e \in Ends \cup {"none", "gone", "same"} : [then |-> e, cf |-> None] \in Rels
        /\ rel[t].then \in Ends \cup {"none", "gone", "same"}
    BY <1>1 DEF Rels
  <2>16. ASSUME NEW e \in Ends \cup {"none", "gone", "same"}, StartRelease(t, e)
         PROVE  /\ pc' \in [Txns -> PCs] /\ rel' \in [Txns -> Rels]
                /\ \A u \in Txns \ {t} : pc'[u] = pc[u] /\ rel'[u] = rel[u]
    BY <1>1, <2>2, <2>16 DEF StartRelease, PCs
  <2>17. \A p \in PCs : GoesTo(t, p) => /\ pc' \in [Txns -> PCs]
                                       /\ \A u \in Txns \ {t} : pc'[u] = pc[u]
    BY <1>1 DEF GoesTo
  <2>18. \A e \in States : state' = [state EXCEPT ![t] = e] => state' \in [Txns -> States]
    BY <1>1
  <2>3. CASE TimesOut(t) BY <1>1, <2>3 DEF TimesOut, PCs, Asking, locals
  <2>4. CASE MutexTimesOut(t) BY <1>1, <2>1, <2>4 DEF MutexTimesOut, Forget, PCs
  <2>5. CASE Track(t)
    <3>1. DOMAIN tracked[t] = Keys /\ tracked[t] \in [Keys -> {"no", "shared", "excl"}]
      BY <1>1
    <3> QED BY <1>1, <2>1, <2>5, <3>1, Zenon DEF Track, Forget, PCs
  <2>6. ASSUME NEW ok \in BOOLEAN, Commit(t, ok) PROVE Local
    <3>1. state' \in [Txns -> States] BY <1>1, <2>6, <2>18 DEF Commit, States, Ends
    <3>2. UNCHANGED <<tracked, call, expirable>> BY <2>6 DEF Commit, others, locals
    <3>3. CASE GoesTo(t, "idle") /\ UNCHANGED rel
      BY <1>1, <2>17, <3>1, <3>2, <3>3 DEF PCs
    <3>4. CASE StartRelease(t, "COMMITTED") \/ StartRelease(t, "AWAITING_COMMIT")
      BY <1>1, <2>16, <3>1, <3>2, <3>4 DEF Ends
    <3> QED BY <2>6, <3>3, <3>4 DEF Commit, GoesTo
  <2>7. ASSUME NEW ok \in BOOLEAN, Prepare(t, ok) PROVE Local
    BY <1>1, <2>7 DEF Prepare, PCs, States, others, locals
  <2>8. ASSUME NEW ok \in BOOLEAN, Rollback(t, ok) PROVE Local
    <3>1. state' \in [Txns -> States] BY <1>1, <2>8, <2>18 DEF Rollback, States
    <3>2. UNCHANGED <<tracked, call, expirable>> BY <2>8 DEF Rollback, others, locals
    <3>3. CASE UNCHANGED <<pc, rel>> BY <1>1, <3>1, <3>2, <3>3
    <3>4. CASE StartRelease(t, "ROLLEDBACK") \/ StartRelease(t, "same")
      BY <1>1, <2>16, <3>1, <3>2, <3>4 DEF Ends
    <3> QED BY <2>8, <3>3, <3>4 DEF Rollback
  <2>9. CASE CommitRefused(t)
    BY <1>1, <2>9 DEF CommitRefused, PCs, States, Ends, others, locals
  <2>10. CASE ReleaseStops(t)
    BY <1>1, <2>10 DEF ReleaseStops, others, locals
  <2>11. CASE ReleaseEnds(t)
    <3>1. state' \in [Txns -> States]
      <4>1. rel[t].then # "none" BY <2>11 DEF Inv, Control, Known, ReleaseEnds
      <4>2. rel[t].then \in {"gone", "same"} \/ rel[t].then \in States
        BY <2>2, <4>1 DEF States
      <4> QED BY <1>1, <2>11, <2>18, <4>2 DEF ReleaseEnds
    <3>2. /\ pc' \in [Txns -> PCs] /\ \A u \in Txns \ {t} : pc'[u] = pc[u]
      BY <2>11, <2>17, Zenon DEF ReleaseEnds, GoesTo, PCs
    <3>3. /\ rel' \in [Txns -> Rels] /\ \A u \in Txns \ {t} : rel'[u] = rel[u]
      BY <1>1, <2>2, <2>11 DEF ReleaseEnds
    <3>4. UNCHANGED <<tracked, call>> BY <2>11 DEF ReleaseEnds, others, locals
    <3>5. \A u \in Txns \ {t} : u \in expirable' <=> u \in expirable
      BY <2>11 DEF ReleaseEnds
    <3> QED BY <1>1, <3>1, <3>2, <3>3, <3>4, <3>5
  <2>12. ASSUME NEW k \in opts.keys, NEW excl \in opts.modes, TryLock(t, k, excl)
         PROVE  Local
    <3>1. k \in Keys /\ excl \in BOOLEAN /\ Timeout[t] \in Int BY <1>1, OptionTypes
    <3>2. \A e \in Int : [key |-> k, excl |-> excl, end |-> e] \in Calls
      BY <3>1 DEF Calls
    <3>3. (IF Timeout[t] > 0 THEN now + Timeout[t] ELSE 0) \in Int BY <1>1, <3>1
    <3>4. call' \in [Txns -> Calls] BY <1>1, <2>12, <3>2, <3>3 DEF TryLock
    <3> QED BY <1>1, <2>12, <3>4 DEF TryLock, PCs, Asking
  <2>13. CASE CommitTest(t) \/ PrepareTest(t)
    BY <1>1, <2>13 DEF CommitTest, PrepareTest, PCs, others, locals
  <2>14. CASE Destroy(t)
    BY <1>1, <2>2, <2>14 DEF Destroy, StartRelease, PCs, others, locals
  <2>15. CASE ValidateFails(t) /\ tracked[t][call[t].key] # "no"
    BY <1>1, <2>1, <2>15 DEF ValidateFails, Forget, PCs
  <2> HIDE DEF Local
  <2> QED BY <2>3, <2>4, <2>5, <2>6, <2>7, <2>8, <2>9, <2>10, <2>11, <2>12, <2>13, <2>14,
             <2>15, Zenon DEF Quiet
<1> QED BY <1>1, <1>2, <1>3, <1>4 DEF TypeOK, Frame

LEMMA AcquireType ==
  ASSUME Inv, NEW t \in Txns, Attempt(t) \/ Emplace(t) \/ Spin(t)
  PROVE  TypeOK' /\ Frame(t)
<1> DEFINE k == call[t].key
<1>1. /\ k \in Keys /\ mutex[StripeOf[k]] \in {None, t} /\ AttemptEffect(t)
      /\ UNCHANGED <<opts, now, cfs, expirable, prepared, tracked, rel>>
  BY AcquireEffect
<1>2. CFs' = CFs BY <1>1, ConstantsStay
<1>3. TypeOK BY DEF Inv
<1>4. TypeOK' BY <1>1, <1>2, <1>3, AttemptType DEF TypeOK
<1>5. \A u \in Txns \ {t} : call'[u] = call[u] /\ pc'[u] = pc[u]
  BY <1>1, <1>3 DEF AttemptEffect, Parks, Leaves, Stays, GoesTo, Grants, TypeOK
<1>6. \A l \in Keys : mutex[StripeOf[l]] \notin {None, t} => locks'[l] = locks[l]
  BY <1>1, <1>3, Zenon DEF AttemptEffect, Grants, Takes, Shares, Renews, Steals, TypeOK
<1>7. \A l \in Keys : mutex[StripeOf[l]] \notin {None, t} =>
        mutex'[StripeOf[l]] = mutex[StripeOf[l]]
  <2>1. \E m : SetMutex(t, m) BY <1>1, Zenon DEF AttemptEffect, Parks, Grants
  <2>2. \A l \in Keys : StripeOf[l] \in Stripes BY DEF Stripes
  <2> QED BY <1>1, <1>3, <2>1, <2>2 DEF SetMutex, TypeOK
<1> QED BY <1>1, <1>4, <1>5, <1>6, <1>7, Zenon DEF Frame

\* What an unlocking step leaves of its transaction's claims.
LEMMA FreesEffect ==
  ASSUME Inv, NEW t \in Txns, NEW K \in SUBSET Keys, Frees(t, K)
  PROVE  /\ UnLocked(t, K)
         /\ UNCHANGED <<opts, now, cfs, mutex, expirable, state, prepared>>
         /\ \A k \in K : mutex[StripeOf[k]] = None
         /\ TypeOK' /\ Frame(t)
         /\ pc'[t] = "idle" \/ (pc'[t] = "releasing" /\ rel'[t].then = rel[t].then
                                                      /\ pc[t] = "releasing")
         /\ \A k \in K : tracked'[t][k] = "no"
         /\ \A k \in Keys \ K : tracked'[t][k] = tracked[t][k]
         /\ pc[t] = "granted" => K = {call[t].key}
<1>1. TypeOK /\ AtCall(t) /\ Known(t) BY DEF Inv, Control
<1>2. UNCHANGED <<opts, now, cfs, mutex, expirable, state, prepared>> /\ UnLocked(t, K)
  BY Zenon DEF Frees, ValidateFails, ReleaseStripe, others
<1>3. locks' \in [Keys -> LockInfos] /\ \A k \in Keys : k \notin K => locks'[k] = locks[k]
  BY <1>1, <1>2, UnLockedLocks
<1>4. CFs' = CFs BY <1>2, ConstantsStay
<1> DEFINE Calls == [key : Keys \cup {None}, excl : BOOLEAN, end : Int]
           Rels == [then : Ends \cup {"none", "gone", "same"}, cf : CFs \cup {None}]
<1>5. /\ tracked \in [Txns -> [Keys -> {"no", "shared", "excl"}]]
      /\ pc \in [Txns -> PCs] /\ call \in [Txns -> Calls] /\ rel \in [Txns -> Rels]
  BY <1>1 DEF TypeOK
<1>6. NoCall \in Calls BY DEF NoCall
<1>7. \A s : Notified(s) \in [Txns -> PCs]
  BY <1>5 DEF Notified, PCs, Asking
<1> HIDE DEF Calls, Rels
<1>8. CASE ValidateFails(t) /\ tracked[t][call[t].key] = "no" /\ K = {call[t].key}
  <2>1. /\ tracked' = tracked /\ rel' = rel
        /\ pc' = [Notified(StripeOf[call[t].key]) EXCEPT ![t] = "idle"]
        /\ call' = [call EXCEPT ![t] = NoCall]
        /\ mutex[StripeOf[call[t].key]] = None
    BY <1>8, Zenon DEF ValidateFails, Forget
  <2>2. pc' \in [Txns -> PCs] /\ pc'[t] = "idle"
        /\ call' \in [Txns -> Calls]
    BY <1>5, <1>6, <1>7, <2>1 DEF PCs
  <2>3. \A u \in Txns \ {t} :
          /\ call'[u] = call[u]
          /\ pc'[u] = pc[u] \/ (pc[u] = "waiting" /\ pc'[u] = "woken")
    BY <1>5, <2>1 DEF Notified
  <2>4. TypeOK' BY <1>1, <1>2, <1>3, <1>4, <1>5, <2>1, <2>2, Zenon DEF TypeOK, Calls, Rels
  <2>5. Frame(t) BY <1>2, <1>3, <1>8, <2>1, <2>3, Zenon DEF Frame
  <2> QED BY <1>2, <1>8, <2>1, <2>2, <2>4, <2>5, Zenon
<1>9. ASSUME NEW s \in Stripes, ReleaseStripe(t, s), K = {k \in TrackedKeys(t) : StripeOf[k] = s}
      PROVE  /\ \A k \in K : mutex[StripeOf[k]] = None
             /\ TypeOK' /\ Frame(t)
             /\ pc[t] = "releasing" /\ pc'[t] = "releasing" /\ rel'[t].then = rel[t].then
             /\ \A k \in K : tracked'[t][k] = "no"
             /\ \A k \in Keys \ K : tracked'[t][k] = tracked[t][k]
  <2>1. /\ tracked' = [tracked EXCEPT ![t] = [k \in Keys |-> IF k \in K THEN "no" ELSE @[k]]]
        /\ pc' = Notified(s) /\ UNCHANGED call /\ pc[t] = "releasing"
        /\ mutex[s] = None
    BY <1>9 DEF ReleaseStripe, others, locals
  <2>2. PICK c \in CFs : rel' = [rel EXCEPT ![t].cf = c]
    BY <1>9, Zenon DEF ReleaseStripe
  <2>3. /\ rel' \in [Txns -> Rels] /\ rel'[t].then = rel[t].then
        /\ \A u \in Txns \ {t} : rel'[u] = rel[u]
    BY <1>5, <2>2, Zenon DEF Rels
  <2>4. /\ tracked' \in [Txns -> [Keys -> {"no", "shared", "excl"}]]
        /\ \A u \in Txns \ {t} : tracked'[u] = tracked[u]
        /\ \A k \in K : tracked'[t][k] = "no"
        /\ \A k \in Keys \ K : tracked'[t][k] = tracked[t][k]
    BY <1>5, <2>1
  <2>5. pc' \in [Txns -> PCs] /\ pc'[t] = "releasing"
    BY <1>7, <2>1, Zenon DEF Notified
  <2>6. \A u \in Txns \ {t} : pc'[u] = pc[u] \/ (pc[u] = "waiting" /\ pc'[u] = "woken")
    BY <2>1 DEF Notified
  <2>7. TypeOK' BY <1>1, <1>2, <1>3, <1>4, <2>1, <2>3, <2>4, <2>5 DEF TypeOK, Rels
  <2>8. \A k \in K : mutex[StripeOf[k]] = None BY <1>9, <2>1
  <2>9. Frame(t) BY <1>2, <1>3, <2>1, <2>3, <2>4, <2>6, <2>8, Zenon DEF Frame
  <2> QED BY <2>1, <2>3, <2>4, <2>5, <2>7, <2>8, <2>9
<1> QED BY <1>2, <1>8, <1>9 DEF Frees

-----------------------------------------------------------------------------
(* Control.                                                                *)

LEMMA OthersControl ==
  ASSUME Inv, NEW t \in Txns, Frame(t), NEW u \in Txns \ {t}
  PROVE  AtCall(u)' /\ Known(u)'
<1>1. AtCall(u) /\ Known(u) BY DEF Inv, Control
<1>2. Expiration' = Expiration /\ MaxLocks' = MaxLocks BY ConstantsStay DEF Frame
<1>3. /\ call'[u] = call[u] /\ tracked'[u] = tracked[u] /\ rel'[u] = rel[u]
      /\ pc'[u] = pc[u] \/ (pc[u] = "waiting" /\ pc'[u] = "woken")
      /\ u \in expirable' <=> u \in expirable
  BY DEF Frame
<1>4. Known(u)' BY <1>1, <1>2, <1>3 DEF Known, TrackedKeys
<1>5. ASSUME pc'[u] \in Busy
      PROVE  /\ mutex[StripeOf[call[u].key]] = u /\ call[u].key \in Keys
             /\ mutex'[StripeOf[call[u].key]] = u
             /\ locks'[call[u].key] = locks[call[u].key]
  <2>1. pc[u] \in Busy BY <1>3, <1>5 DEF Busy
  <2>2. mutex[StripeOf[call[u].key]] = u /\ call[u].key \in Keys
    BY <1>1, <2>1 DEF AtCall, Asking
  <2>3. u \notin {None, t} BY NoneAssumption
  <2> QED BY <2>2, <2>3 DEF Frame
<1>6. pc'[u] \in Asking => pc[u] \in Asking BY <1>3 DEF Asking
<1>7. pc'[u] = "checked" => pc[u] = "checked" /\ pc'[u] \in Busy BY <1>3 DEF Busy
<1>8. AtCall(u)' BY <1>1, <1>2, <1>3, <1>5, <1>6, <1>7 DEF AtCall
<1> QED BY <1>4, <1>8

LEMMA AcquireControl ==
  ASSUME Inv, NEW t \in Txns, Attempt(t) \/ Emplace(t) \/ Spin(t)
  PROVE  AtCall(t)' /\ Known(t)'
<1> DEFINE k == call[t].key
<1>1. TypeOK /\ AtCall(t) /\ Known(t) BY DEF Inv, Control
<1>2. /\ pc[t] \in Asking \ {"granted", "waiting"} /\ k \in Keys
      /\ AttemptEffect(t)
      /\ UNCHANGED <<opts, now, cfs, expirable, prepared, tracked, rel>>
  BY AcquireEffect
<1>3. Expiration' = Expiration /\ MaxLocks' = MaxLocks BY <1>2, ConstantsStay
<1>4. \A p : Stays(t, p) => pc'[t] = p /\ call'[t] = call[t]
  BY <1>1 DEF Stays, GoesTo, TypeOK
<1>5. Leaves(t) => pc'[t] = "idle" BY <1>1 DEF Leaves, GoesTo, TypeOK
<1>6. SetMutex(t, t) => mutex'[StripeOf[k]] = t
  BY <1>1, <1>2 DEF SetMutex, TypeOK, Stripes
<1>7. Known(t)'
  <2>1. pc'[t] # "gone" /\ pc'[t] # "releasing"
    <3>1. Leaves(t) \/ \E p \in {"waiting", "retry", "spinning", "checked", "granted"} : Stays(t, p)
      BY <1>2, Zenon DEF AttemptEffect, Parks, Grants
    <3>2. pc'[t] \in {"idle", "waiting", "retry", "spinning", "checked", "granted"}
      BY <1>4, <1>5, <3>1, Zenon
    <3> QED BY <3>2
  <2>2. pc[t] # "gone" BY <1>2 DEF Asking, Busy
  <2> QED BY <1>1, <1>2, <1>3, <2>1, <2>2, Zenon DEF Known
<1>8. AtCall(t)'
  <2>1. tracked[t][k] = "no" \/ (tracked[t][k] = "shared" /\ call[t].excl)
    BY <1>1, <1>2 DEF AtCall
  <2>2. CASE Leaves(t) BY <1>5, <2>2 DEF AtCall, Asking, Busy
  <2>3. CASE Stays(t, "waiting") \/ Stays(t, "granted")
    <3>1. pc'[t] \in {"waiting", "granted"} /\ call'[t] = call[t] BY <1>4, <2>3
    <3>2. pc'[t] \notin Busy /\ pc'[t] # "checked" BY <3>1 DEF Busy
    <3> QED BY <1>2, <2>1, <3>1, <3>2 DEF AtCall
  <2>4. CASE \E p \in {"retry", "spinning"} : Stays(t, p) /\ SetMutex(t, t)
    BY <1>2, <1>4, <1>6, <2>1, <2>4, Zenon DEF AtCall
  <2>5. CASE /\ Stays(t, "checked") /\ SetMutex(t, t) /\ UNCHANGED locks
             /\ locks[k].ids = <<>> /\ MaxLocks > 0
    BY <1>2, <1>3, <1>4, <1>6, <2>1, <2>5, Zenon DEF AtCall
  <2> QED BY <1>2, <2>2, <2>3, <2>4, <2>5 DEF AttemptEffect, Parks, Grants
<1> QED BY <1>7, <1>8

LEMMA FreesControl ==
  ASSUME Inv, NEW t \in Txns, NEW K \in SUBSET Keys, Frees(t, K)
  PROVE  AtCall(t)' /\ Known(t)'
<1>1. Known(t) BY DEF Inv, Control
<1>2. /\ UNCHANGED <<opts, expirable>>
      /\ pc'[t] = "idle" \/ (pc'[t] = "releasing" /\ rel'[t].then = rel[t].then
                                                   /\ pc[t] = "releasing")
  BY FreesEffect, Zenon
<1>3. Expiration' = Expiration BY <1>2, ConstantsStay
<1>4. pc[t] # "gone" BY <1>2, Zenon DEF Frees, ValidateFails, ReleaseStripe
<1> QED BY <1>1, <1>2, <1>3, <1>4, Zenon DEF AtCall, Known, Asking, Busy

LEMMA QuietControl ==
  ASSUME Inv, NEW t \in Txns, Quiet(t)
  PROVE  AtCall(t)' /\ Known(t)'
<1>1. TypeOK /\ AtCall(t) /\ Known(t) BY DEF Inv, Control
<1>2. UNCHANGED <<opts, now, cfs, locks, cnt, mutex>> BY QuietType
<1>3. Expiration' = Expiration /\ MaxLocks' = MaxLocks BY <1>2, ConstantsStay
<1>4. CASE TimesOut(t)
  BY <1>1, <1>2, <1>3, <1>4, Zenon DEF TimesOut, AtCall, Known, Asking, Busy, TypeOK, TrackedKeys,
                                 locals
<1>5. CASE \E l \in opts.keys, excl \in opts.modes : TryLock(t, l, excl)
  <2>1. PICK l \in opts.keys, excl \in opts.modes : TryLock(t, l, excl) BY <1>5
  <2>2. l \in Keys BY <1>1, OptionTypes DEF TypeOK
  <2>3. pc'[t] = "lock" /\ call'[t].key = l /\ call'[t].excl = excl /\ pc[t] = "idle"
    BY <1>1, <2>1, Zenon DEF TryLock, TypeOK
  <2>4. /\ UNCHANGED <<tracked, expirable, rel>>
        /\ tracked[t][l] = "no" \/ (tracked[t][l] = "shared" /\ excl)
    BY <2>1, Zenon DEF TryLock
  <2>5. AtCall(t)' BY <2>2, <2>3, <2>4 DEF AtCall, Busy
  <2> QED BY <1>1, <1>3, <2>3, <2>4, <2>5, Zenon DEF Known, TrackedKeys
<1>6. CASE ReleaseEnds(t)
  <2>1. /\ TrackedKeys(t) = {} /\ pc[t] = "releasing" /\ tracked' = tracked
        /\ pc'[t] = IF rel[t].then = "gone" THEN "gone" ELSE "idle"
        /\ expirable' \subseteq expirable
        /\ rel[t].then # "gone" => expirable' = expirable
    BY <1>1, <1>6 DEF ReleaseEnds, TypeOK
  <2> QED BY <1>1, <1>3, <2>1 DEF AtCall, Known, Asking, Busy, TrackedKeys
<1>7. ASSUME /\ pc[t] # "gone" /\ expirable' = expirable
             /\ \/ pc'[t] \in {"idle", "commit", "prepare"}
                \/ pc'[t] = "releasing" /\ rel'[t].then # "none"
      PROVE  AtCall(t)' /\ Known(t)'
  BY <1>1, <1>3, <1>7 DEF AtCall, Known, Asking, Busy
<1>8. CASE MutexTimesOut(t)
  BY <1>1, <1>7, <1>8 DEF MutexTimesOut, TypeOK
<1>9. CASE Track(t) BY <1>1, <1>7, <1>9 DEF Track, TypeOK
<1>10. CASE CommitTest(t) \/ PrepareTest(t)
  BY <1>1, <1>7, <1>10, Zenon DEF CommitTest, PrepareTest, TypeOK
<1>11. CASE ReleaseStops(t)
  BY <1>1, <1>7, <1>11, Zenon DEF ReleaseStops, Known
<1>12. CASE CommitRefused(t)
  <2>1. pc[t] # "gone" /\ pc'[t] = "idle" /\ expirable' = expirable
    BY <1>1, <1>12 DEF CommitRefused, TypeOK
  <2> QED BY <1>7, <2>1
<1>13. CASE ValidateFails(t) /\ tracked[t][call[t].key] # "no"
  BY <1>1, <1>7, <1>13 DEF ValidateFails, TypeOK
<1>14. \A e : StartRelease(t, e) => pc'[t] = "releasing" /\ rel'[t].then = e
  BY <1>1 DEF StartRelease, TypeOK
<1>15. CASE Destroy(t) BY <1>7, <1>14, <1>15 DEF Destroy
<1>16. ASSUME NEW ok \in BOOLEAN, Commit(t, ok) \/ Prepare(t, ok) \/ Rollback(t, ok)
       PROVE  AtCall(t)' /\ Known(t)'
  <2>1. pc[t] # "gone" /\ expirable' = expirable
    BY <1>16 DEF Commit, Prepare, Rollback
  <2>2. \/ pc'[t] \in {"idle", "commit", "prepare"}
        \/ pc'[t] = "releasing" /\ rel'[t].then # "none"
    BY <1>1, <1>14, <1>16 DEF Commit, Prepare, Rollback, TypeOK
  <2> QED BY <1>7, <2>1, <2>2
<1> QED BY <1>4, <1>5, <1>6, <1>8, <1>9, <1>10, <1>11, <1>12, <1>13, <1>15, <1>16, Zenon DEF Quiet

=============================================================================
