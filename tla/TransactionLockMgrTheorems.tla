--------------------- MODULE TransactionLockMgrTheorems ---------------------
(***************************************************************************)
(* Theorems about TransactionLockMgr: the lock table agrees with what the  *)
(* transactions track, conflicting transactions never both commit, and     *)
(* locks are stolen from expired transactions only.                        *)
(***************************************************************************)
EXTENDS TransactionLockMgrProofs

-----------------------------------------------------------------------------
(* The lock table.                                                         *)

LEMMA AloneHolds ==
  ASSUME NEW t, NEW k, HoldsAlone(t, k)
  PROVE  Holds(t, k)
BY DEF HoldsAlone, Holds

LEMMA Member ==
  ASSUME NEW t
  PROVE  Elements(<<t>>) = {t} /\ Injective(<<t>>) /\ Len(<<t>>) = 1
BY DEF Elements, Injective

\* Transactions only give up claims, and without telling the table only once a
\* column family has been dropped.
NoNewClaims ==
  /\ UNCHANGED <<locks, opts>> /\ cfs' \subseteq cfs
  /\ \A t \in Txns, k \in Keys :
       /\ Holds(t, k)' => Holds(t, k) /\ (state[t] = "LOCKS_STOLEN" => state'[t] = "LOCKS_STOLEN")
       /\ HoldsAlone(t, k)' => HoldsAlone(t, k)
       /\ Holds(t, k) => Holds(t, k)' \/ cfs' # CFs

LEMMA NoNewClaimsTable ==
  ASSUME Inv, NoNewClaims
  PROVE  Table'
<1> SUFFICES ASSUME NEW k \in Keys
             PROVE  LockOK(k)' /\ \A t \in Txns : HolderOK(t, k)'
  BY DEF Table
<1>1. CFs' = CFs /\ Expiration' = Expiration /\ SomeExpire' = SomeExpire
  BY ConstantsStay DEF NoNewClaims
<1>2. locks' = locks /\ (cfs' = CFs => cfs = CFs)
  BY Zenon DEF NoNewClaims, Inv, TypeOK
<1>3. LockOK(k)' BY <1>1, <1>2 DEF Inv, Table, LockOK
<1>4. ASSUME NEW t \in Txns PROVE HolderOK(t, k)'
  <2>1. HolderOK(t, k) BY DEF Inv, Table
  <2>2. /\ Holds(t, k)' => Holds(t, k) /\ (state[t] = "LOCKS_STOLEN" => state'[t] = "LOCKS_STOLEN")
        /\ HoldsAlone(t, k)' => HoldsAlone(t, k)
        /\ Holds(t, k) => Holds(t, k)' \/ cfs' # CFs
    BY DEF NoNewClaims
  <2>3. HoldsAlone(t, k)' => Holds(t, k)' BY DEF HoldsAlone, Holds
  <2>4. Unprotected(t, k) => Unprotected(t, k)' BY <1>1, <2>2 DEF Unprotected
  <2> QED BY <1>1, <1>2, <2>1, <2>2, <2>3, <2>4 DEF HolderOK
<1> QED BY <1>3, <1>4

LEMMA GrantClaims ==
  ASSUME Inv, NEW t \in Txns, pc[t] \in Asking \ {"granted"}, Stays(t, "granted"),
         tracked' = tracked
  PROVE  LET k == call[t].key IN
         /\ ~HoldsAlone(t, k)
         /\ ~call[t].excl => ~Holds(t, k)
         /\ \A u \in Txns, l \in Keys :
              /\ Holds(u, l)' <=> Holds(u, l) \/ (u = t /\ l = k)
              /\ HoldsAlone(u, l)' <=> HoldsAlone(u, l) \/ (u = t /\ l = k /\ call[t].excl)
<1>1. TypeOK /\ AtCall(t) BY DEF Inv, Control
<1>2. /\ call' = call /\ pc'[t] = "granted" /\ \A u \in Txns \ {t} : pc'[u] = pc[u]
      /\ pc[t] # "granted"
      /\ tracked[t][call[t].key] = "no" \/ (tracked[t][call[t].key] = "shared" /\ call[t].excl)
  BY <1>1 DEF Stays, GoesTo, TypeOK, AtCall
<1> QED BY <1>2 DEF Holds, HoldsAlone

\* Who holds an expired lock that is stolen: everybody but t is marked, except
\* transactions that never expire.
LEMMA StolenHolders ==
  ASSUME Inv, NEW t \in Txns, call[t].key \in Keys, Robs(t),
         IsLockExpired(t, locks[call[t].key]),
         NEW u \in Elements(locks[call[t].key].ids), u # t, u \in expirable
  PROVE  state'[u] = "LOCKS_STOLEN"
<1> DEFINE info == locks[call[t].key]
<1>1. info \in LockInfos BY DEF Inv, TypeOK
<1>2. PICK i \in DOMAIN info.ids : info.ids[i] = u BY DEF Elements
<1>3. DOMAIN info.ids = 1 .. Len(info.ids) /\ Len(info.ids) \in Nat /\ u \in Txns
  BY <1>1, <1>2 DEF LockInfos
<1>4. \A m \in 1 .. i - 1 : info.ids[m] = t \/ CanSteal(info.ids[m])
  <2>1. \A m \in 1 .. i - 1 : m \in DOMAIN info.ids BY <1>2, <1>3
  <2> QED BY <2>1 DEF IsLockExpired, Elements
<1>5. u \in Asked(t, info) BY <1>2, <1>4 DEF Asked
<1>6. state[u] = "STARTED" BY DEF IsLockExpired, CanSteal
<1> QED BY <1>3, <1>5, <1>6 DEF Robs, Stolen

LEMMA StateAfter ==
  ASSUME TypeOK, NEW t, Robs(t) \/ UNCHANGED state, NEW u \in Txns, state'[u] # "LOCKS_STOLEN"
  PROVE  state'[u] = state[u]
BY DEF Robs, Stolen, TypeOK

\* A transaction that counts on a lock has not been destroyed.
LEMMA HoldersKnown ==
  ASSUME Inv, NEW u \in Txns, NEW k \in Keys, Holds(u, k), u \notin expirable
  PROVE  Expiration[u] = 0
<1>1. Known(u) /\ Expiration[u] \in Nat BY OptionTypes DEF Inv, Control, TypeOK
<1>2. pc[u] # "gone" BY <1>1 DEF Known, Holds, TrackedKeys
<1> QED BY <1>1, <1>2 DEF Known

LEMMA AppendElements ==
  ASSUME NEW q \in Seq(Txns), NEW t \in Txns
  PROVE  /\ Elements(Append(q, t)) = Elements(q) \cup {t}
         /\ Injective(q) /\ t \notin Elements(q) => Injective(Append(q, t))
<1>1. /\ DOMAIN q = 1 .. Len(q) /\ Len(q) \in Nat
      /\ DOMAIN Append(q, t) = 1 .. (Len(q) + 1)
      /\ \A i \in 1 .. Len(q) : Append(q, t)[i] = q[i]
      /\ Append(q, t)[Len(q) + 1] = t
  OBVIOUS
<1> DEFINE r == Append(q, t)
<1> HIDE DEF r
<1>2. \A i \in DOMAIN r : i \in DOMAIN q \/ i = Len(q) + 1 BY <1>1 DEF r
<1>3. Elements(r) = Elements(q) \cup {t} BY <1>1, <1>2 DEF Elements, r
<1>4. ASSUME Injective(q), t \notin Elements(q) PROVE Injective(r)
  BY <1>1, <1>2, <1>4 DEF Elements, Injective, r
<1> QED BY <1>3, <1>4 DEF r

\* The table after a grant, for the key that was granted.
LEMMA MineTable ==
  ASSUME Inv, NEW t \in Txns, pc[t] \in Asking \ {"granted"}, NEW k \in Keys, call[t].key = k,
         Stays(t, "granted"), Takes(t) \/ Renews(t) \/ Steals(t),
         UNCHANGED <<opts, cfs, tracked>>
  PROVE  LockOK(k)' /\ \A u \in Txns : HolderOK(u, k)'
<1>1. TypeOK /\ LockOK(k) /\ \A u \in Txns : HolderOK(u, k) BY DEF Inv, Table
<1>2. CFs' = CFs /\ Expiration' = Expiration /\ SomeExpire' = SomeExpire
  BY ConstantsStay
<1>3. locks'[k] = Mine(t) BY <1>1 DEF Takes, Renews, Steals, TypeOK
<1>4. /\ locks'[k].ids = <<t>> /\ locks'[k].excl = call[t].excl
      /\ locks'[k].exp = ExpirationTime(t)
  BY <1>1, <1>3, MineType
<1>5. Expiration[t] = 0 => ExpirationTime(t) = 0 BY <1>1, ExpirationType
<1>6. ~HoldsAlone(t, k) BY GrantClaims
<1>7. \A u \in Txns : /\ Holds(u, k)' <=> Holds(u, k) \/ u = t
                      /\ HoldsAlone(u, k)' <=> HoldsAlone(u, k) \/ (u = t /\ call[t].excl)
  BY GrantClaims
<1>8. LockOK(k)'
  <2>1. ExpirationTime(t) # 0 => SomeExpire
    BY <1>1, <1>5, OptionTypes DEF SomeExpire, TypeOK
  <2> QED BY <1>2, <1>4, <2>1, Member DEF LockOK
<1>9. HolderOK(t, k)'
  BY <1>2, <1>4, <1>5, <1>6, <1>7, Member DEF HolderOK
<1>10. ASSUME NEW u \in Txns \ {t} PROVE HolderOK(u, k)'
  <2>1. u \notin Elements(locks'[k].ids) BY <1>4, Member
  <2>2. SUFFICES ASSUME state'[u] # "LOCKS_STOLEN", Holds(u, k)
                 PROVE  ~HoldsAlone(u, k) /\ Unprotected(u, k)'
    BY <1>7, <2>1, <2>2, AloneHolds DEF HolderOK
  <2>3. state'[u] = state[u] BY <1>1, <2>2, StateAfter DEF Takes, Renews, Steals
  <2>4. ASSUME u \in Elements(locks[k].ids)
        PROVE  Expiration[u] = 0 /\ locks[k].exp # 0
    <3>1. Steals(t) BY <2>4, Member DEF Takes, Renews, Elements
    <3>2. u \notin expirable BY <2>2, <2>4, <3>1, StolenHolders DEF Steals
    <3> QED BY <2>2, <3>1, <3>2, HoldersKnown DEF Steals, Robs
  <2>5. ~HoldsAlone(u, k) BY <1>1, <2>2, <2>3, <2>4, Member DEF HolderOK
  <2>6. CASE u \in Elements(locks[k].ids)
    BY <1>1, <1>2, <1>7, <2>4, <2>5, <2>6 DEF Unprotected, LockOK, SomeExpire
  <2>7. CASE Unprotected(u, k)
    BY <1>2, <1>7, <2>5, <2>7 DEF Unprotected
  <2> QED BY <1>1, <2>2, <2>3, <2>5, <2>6, <2>7 DEF HolderOK
<1> QED BY <1>8, <1>9, <1>10

LEMMA ShareTable ==
  ASSUME Inv, NEW t \in Txns, pc[t] \in Asking \ {"granted"}, NEW k \in Keys, call[t].key = k,
         Stays(t, "granted"), Shares(t), UNCHANGED <<opts, cfs, tracked>>
  PROVE  LockOK(k)' /\ \A u \in Txns : HolderOK(u, k)'
<1>1. TypeOK /\ LockOK(k) /\ \A u \in Txns : HolderOK(u, k) BY DEF Inv, Table
<1>2. CFs' = CFs /\ Expiration' = Expiration /\ SomeExpire' = SomeExpire
  BY ConstantsStay
<1>3. /\ locks'[k].ids = Append(locks[k].ids, t) /\ ~locks'[k].excl
      /\ locks'[k].exp = Max2(locks[k].exp, ExpirationTime(t))
      /\ locks[k].ids \in Seq(Txns) /\ ~locks[k].excl /\ ~call[t].excl /\ state' = state
  BY <1>1 DEF Shares, TypeOK, LockInfos
<1>4. Elements(locks'[k].ids) = Elements(locks[k].ids) \cup {t} BY <1>3, AppendElements
<1>5. ~Holds(t, k) /\ ~HoldsAlone(t, k) BY <1>3, GrantClaims
<1>6. \A u \in Txns : /\ Holds(u, k)' <=> Holds(u, k) \/ u = t
                      /\ HoldsAlone(u, k)' <=> HoldsAlone(u, k)
  BY <1>3, GrantClaims
<1>7. LockOK(k)'
  <2>1. ExpirationTime(t) # 0 => SomeExpire
    BY <1>1, ExpirationType, OptionTypes DEF SomeExpire, TypeOK
  <2>2. locks'[k].exp # 0 => SomeExpire BY <1>1, <1>3, <2>1 DEF LockOK, Max2
  <2>3. cfs = CFs => t \notin Elements(locks[k].ids) BY <1>1, <1>5 DEF HolderOK
  <2>4. cfs = CFs => Injective(locks'[k].ids)
    BY <1>1, <1>3, <2>3, AppendElements DEF LockOK
  <2> QED BY <1>2, <1>3, <2>2, <2>4 DEF LockOK
<1>8. ASSUME NEW u \in Txns PROVE HolderOK(u, k)'
  <2>1. Unprotected(u, k) => Unprotected(u, k)' BY <1>2, <1>6 DEF Unprotected
  <2> QED BY <1>1, <1>2, <1>3, <1>4, <1>5, <1>6, <2>1 DEF HolderOK
<1> QED BY <1>7, <1>8

LEMMA GrantTable ==
  ASSUME Inv, NEW t \in Txns, pc[t] \in Asking \ {"granted"}, call[t].key \in Keys,
         Grants(t), UNCHANGED <<opts, cfs, tracked>>
  PROVE  Table'
<1> PICK k \in Keys : call[t].key = k OBVIOUS
<1>1. Stays(t, "granted") /\ (Takes(t) \/ Shares(t) \/ Renews(t) \/ Steals(t)) BY DEF Grants
<1>2. LockOK(k)' /\ \A u \in Txns : HolderOK(u, k)' BY <1>1, MineTable, ShareTable
<1>3. ASSUME NEW l \in Keys, l # k PROVE LockOK(l)' /\ \A u \in Txns : HolderOK(u, l)'
  <2>1. TypeOK /\ LockOK(l) /\ \A u \in Txns : HolderOK(u, l) BY DEF Inv, Table
  <2>2. CFs' = CFs /\ Expiration' = Expiration /\ SomeExpire' = SomeExpire
    BY ConstantsStay
  <2>3. locks'[l] = locks[l]
    BY <1>1, <1>3, <2>1 DEF Takes, Shares, Renews, Steals, TypeOK
  <2>4. \A u \in Txns : (Holds(u, l)' <=> Holds(u, l)) /\ (HoldsAlone(u, l)' <=> HoldsAlone(u, l))
    BY <1>1, <1>3, GrantClaims
  <2>5. LockOK(l)' BY <2>1, <2>2, <2>3 DEF LockOK
  <2>6. ASSUME NEW u \in Txns PROVE HolderOK(u, l)'
    <3>1. state'[u] # "LOCKS_STOLEN" => state[u] # "LOCKS_STOLEN"
      BY <1>1, <2>1, StateAfter DEF Takes, Shares, Renews, Steals
    <3>2. Unprotected(u, l) => Unprotected(u, l)' BY <2>2, <2>4 DEF Unprotected
    <3> QED BY <2>1, <2>2, <2>3, <2>4, <3>1, <3>2 DEF HolderOK
  <2> QED BY <2>5, <2>6
<1> QED BY <1>2, <1>3 DEF Table

LEMMA FreesTable ==
  ASSUME Inv, NEW t \in Txns, NEW K \in SUBSET Keys, Frees(t, K)
  PROVE  Table'
<1>1. TypeOK /\ Table BY DEF Inv
<1>2. /\ UNCHANGED <<opts, cfs, state>> /\ UnLocked(t, K) /\ TypeOK' /\ Frame(t)
      /\ pc'[t] \in {"idle", "releasing"}
      /\ \A k \in K : tracked'[t][k] = "no"
      /\ \A k \in Keys \ K : tracked'[t][k] = tracked[t][k]
      /\ pc[t] = "granted" => K = {call[t].key}
  BY FreesEffect
<1>3. CFs' = CFs /\ Expiration' = Expiration /\ SomeExpire' = SomeExpire
  BY <1>2, ConstantsStay
<1>4. \A u \in Txns \ {t}, k \in Keys :
        (Holds(u, k)' <=> Holds(u, k)) /\ (HoldsAlone(u, k)' <=> HoldsAlone(u, k))
  BY <1>2 DEF Frame, Holds, HoldsAlone
<1>5. \A k \in Keys \ K :
        (Holds(t, k)' <=> Holds(t, k)) /\ (HoldsAlone(t, k)' <=> HoldsAlone(t, k))
  BY <1>2 DEF Holds, HoldsAlone
<1>6. \A k \in K : ~Holds(t, k)' /\ ~HoldsAlone(t, k)'
  BY <1>2 DEF Holds, HoldsAlone
<1>7. \A k \in Keys : locks'[k] = IF k \in K THEN UnLockKey(t, locks[k]) ELSE locks[k]
  BY <1>1, <1>2, UnLockedLocks
<1> SUFFICES ASSUME NEW k \in Keys
             PROVE  LockOK(k)' /\ \A u \in Txns : HolderOK(u, k)'
  BY DEF Table
<1>8. LockOK(k) /\ \A u \in Txns : HolderOK(u, k) BY <1>1 DEF Table
<1>9. \A u \in Txns : (HoldsAlone(u, k)' <=> HoldsAlone(u, k)) /\ Unprotected(u, k)
                        => Unprotected(u, k)'
  BY <1>3 DEF Unprotected
<1>10. CASE k \notin K
  <2>1. \A u \in Txns :
          (Holds(u, k)' <=> Holds(u, k)) /\ (HoldsAlone(u, k)' <=> HoldsAlone(u, k))
    BY <1>4, <1>5, <1>10
  <2>2. locks'[k] = locks[k] BY <1>7, <1>10
  <2>3. LockOK(k)' BY <1>2, <1>3, <1>8, <2>2 DEF LockOK
  <2>4. ASSUME NEW u \in Txns PROVE HolderOK(u, k)'
    BY <1>2, <1>3, <1>8, <1>9, <2>1, <2>2, Zenon DEF HolderOK
  <2> QED BY <2>3, <2>4
<1>11. CASE k \in K
  <2> DEFINE info == locks[k]
             r == UnLockKey(t, info)
  <2>1. locks'[k] = r BY <1>7, <1>11
  <2>2. /\ t \notin Elements(info.ids) => r = info
        /\ Elements(r.ids) \subseteq Elements(info.ids)
        /\ Elements(info.ids) \ {t} \subseteq Elements(r.ids)
        /\ Injective(info.ids) => t \notin Elements(r.ids) /\ Injective(r.ids)
        /\ info.excl /\ Len(info.ids) = 1 /\ t \in Elements(info.ids) => r = Unlocked
        /\ r.excl => info.excl
        /\ r.exp # 0 => r.exp = info.exp
    BY <1>1, UnLockKeyEffect, Zenon DEF TypeOK
  <2> HIDE DEF r
  <2>3. LockOK(k)'
    <3>1. r.excl => r = info BY <1>8, <2>2 DEF LockOK, Unlocked
    <3> QED BY <1>2, <1>3, <1>8, <2>1, <2>2, <3>1 DEF LockOK
  <2>4. HolderOK(t, k)'
    BY <1>2, <1>3, <1>6, <1>8, <1>11, <2>1, <2>2, Zenon DEF HolderOK, LockOK
  <2>5. ASSUME NEW u \in Txns \ {t} PROVE HolderOK(u, k)'
    <3>1. /\ HolderOK(u, k) /\ (Holds(u, k)' <=> Holds(u, k))
          /\ HoldsAlone(u, k)' <=> HoldsAlone(u, k)
      BY <1>4, <1>8
    <3>2. state[u] # "LOCKS_STOLEN" /\ HoldsAlone(u, k) => r = info
      BY <2>2, <3>1, Member DEF HolderOK
    <3>3. u \in Elements(r.ids) <=> u \in Elements(info.ids) BY <2>2
    <3> QED BY <1>2, <1>3, <1>9, <2>1, <3>1, <3>2, <3>3 DEF HolderOK
  <2> QED BY <2>3, <2>4, <2>5
<1> QED BY <1>10, <1>11

LEMMA AcquireTable ==
  ASSUME Inv, NEW t \in Txns, Attempt(t) \/ Emplace(t) \/ Spin(t)
  PROVE  Table'
<1>1. /\ pc[t] \in Asking \ {"granted", "waiting"} /\ call[t].key \in Keys
      /\ AttemptEffect(t)
      /\ UNCHANGED <<opts, now, cfs, expirable, prepared, tracked, rel>>
  BY AcquireEffect
<1>2. CASE Grants(t) BY <1>1, <1>2, GrantTable
<1>3. CASE ~Grants(t)
  <2>1. TypeOK BY DEF Inv
  <2>2. locks' = locks /\ (UNCHANGED state \/ Robs(t))
    BY <1>1, <1>3 DEF AttemptEffect
  <2>3. /\ pc'[t] # "granted" /\ pc[t] # "granted"
        /\ \A u \in Txns \ {t} : call'[u] = call[u] /\ pc'[u] = pc[u]
    BY <1>1, <1>3, <2>1 DEF AttemptEffect, Parks, Leaves, Stays, GoesTo, TypeOK
  <2>4. \A u \in Txns, k \in Keys :
          (Holds(u, k)' <=> Holds(u, k)) /\ (HoldsAlone(u, k)' <=> HoldsAlone(u, k))
    BY <1>1, <2>3 DEF Holds, HoldsAlone
  <2>5. \A u \in Txns : state[u] = "LOCKS_STOLEN" => state'[u] = "LOCKS_STOLEN"
    BY <2>1, <2>2, StateAfter
  <2>6. NoNewClaims BY <1>1, <2>2, <2>4, <2>5 DEF NoNewClaims
  <2> QED BY <2>6, NoNewClaimsTable
<1> QED BY <1>2, <1>3

LEMMA TickDropTable ==
  ASSUME Inv, Tick \/ \E c \in CFs : DropColumnFamily(c)
  PROVE  Table'
<1>1. /\ UNCHANGED <<opts, locks, state, tracked, pc, call>> /\ cfs' \subseteq cfs
  BY DEF Tick, DropColumnFamily, table, locals
<1>2. NoNewClaims BY <1>1 DEF NoNewClaims, Holds, HoldsAlone
<1> QED BY <1>2, NoNewClaimsTable

LEMMA QuietTable ==
  ASSUME Inv, NEW t \in Txns, Quiet(t)
  PROVE  Table'
<1>1. TypeOK /\ AtCall(t) /\ Known(t) BY DEF Inv, Control
<1>2. UNCHANGED <<opts, now, cfs, locks, cnt, mutex>> /\ TypeOK' /\ Frame(t) BY QuietType
<1>3. \A u \in Txns \ {t}, k \in Keys :
        (Holds(u, k)' <=> Holds(u, k)) /\ (HoldsAlone(u, k)' <=> HoldsAlone(u, k))
  BY <1>2 DEF Frame, Holds, HoldsAlone
<1>4. ASSUME NEW u \in Txns \ {t} PROVE state'[u] = state[u]
  BY <1>1, Zenon DEF Quiet, TimesOut, MutexTimesOut, Track, Commit, Prepare, Rollback,
         CommitRefused, ReleaseStops, ReleaseEnds, TryLock, CommitTest, PrepareTest, Destroy,
         ValidateFails, TypeOK
<1>5. ASSUME \A k \in Keys :
               /\ Holds(t, k)' => Holds(t, k) /\ (state[t] = "LOCKS_STOLEN"
                                                   => state'[t] = "LOCKS_STOLEN")
               /\ HoldsAlone(t, k)' => HoldsAlone(t, k)
               /\ Holds(t, k) => Holds(t, k)' \/ cfs' # CFs
      PROVE  Table'
  <2>1. NoNewClaims BY <1>2, <1>3, <1>4, <1>5, Zenon DEF NoNewClaims
  <2> QED BY <2>1, NoNewClaimsTable
<1>6. CASE Track(t)
  <2>1. /\ pc[t] = "granted" /\ state' = state /\ pc'[t] = "idle"
        /\ \A k \in Keys : tracked'[t][k] =
             IF k = call[t].key THEN IF call[t].excl THEN "excl" ELSE "shared"
             ELSE tracked[t][k]
    BY <1>1, <1>6 DEF Track, TypeOK
  <2>2. tracked[t][call[t].key] = "no" \/ (tracked[t][call[t].key] = "shared" /\ call[t].excl)
    BY <1>1, <2>1 DEF AtCall, Asking
  <2> QED BY <1>5, <2>1, <2>2, Zenon DEF Holds, HoldsAlone
<1>7. CASE ValidateFails(t) /\ tracked[t][call[t].key] # "no"
  BY <1>1, <1>5, <1>7 DEF ValidateFails, Holds, HoldsAlone, TypeOK
<1>8. CASE ReleaseStops(t)
  BY <1>1, <1>2, <1>5, <1>8, Zenon DEF ReleaseStops, Holds, HoldsAlone, TypeOK, others, locals
<1>9. CASE ReleaseEnds(t)
  <2>1. \A k \in Keys : tracked[t][k] = "no" BY <1>9 DEF ReleaseEnds, TrackedKeys
  <2>2. tracked' = tracked /\ pc[t] = "releasing" /\ pc'[t] # "granted"
    BY <1>1, <1>9 DEF ReleaseEnds, TypeOK
  <2> QED BY <1>5, <2>1, <2>2 DEF Holds, HoldsAlone
<1>10. ASSUME /\ tracked' = tracked /\ pc[t] # "granted" /\ pc'[t] # "granted"
              /\ state[t] = "LOCKS_STOLEN" => state'[t] = "LOCKS_STOLEN"
       PROVE  Table'
  BY <1>5, <1>10 DEF Holds, HoldsAlone
<1>11. CASE TimesOut(t) \/ MutexTimesOut(t)
  BY <1>1, <1>10, <1>11 DEF TimesOut, MutexTimesOut, TypeOK
<1>12. CASE \E k \in opts.keys, excl \in opts.modes : TryLock(t, k, excl)
  BY <1>1, <1>10, <1>12 DEF TryLock, TypeOK
<1>13. CASE CommitTest(t) \/ PrepareTest(t) \/ Destroy(t)
  BY <1>1, <1>10, <1>13 DEF CommitTest, PrepareTest, Destroy, StartRelease, TypeOK
<1>14. CASE CommitRefused(t) BY <1>1, <1>10, <1>14 DEF CommitRefused, TypeOK
<1>15. ASSUME NEW ok \in BOOLEAN, Commit(t, ok) PROVE Table'
  BY <1>1, <1>10, <1>15 DEF Commit, MayCommit, StartRelease, TypeOK
<1>16. ASSUME NEW ok \in BOOLEAN, Prepare(t, ok) PROVE Table'
  BY <1>1, <1>10, <1>16 DEF Prepare, TypeOK
<1>17. ASSUME NEW ok \in BOOLEAN, Rollback(t, ok) PROVE Table'
  BY <1>1, <1>10, <1>17 DEF Rollback, StartRelease, TypeOK
<1> QED BY <1>6, <1>7, <1>8, <1>9, <1>11, <1>12, <1>13, <1>14, <1>15, <1>16, <1>17 DEF Quiet

-----------------------------------------------------------------------------
(* Expiration.                                                             *)

\* Being asked to give up a lock costs only those their locks whose time is up.
LEMMA RobbedExpired ==
  ASSUME Inv, NEW t \in Txns, call[t].key \in Keys, Robs(t),
         NEW u \in Txns, state'[u] = "LOCKS_STOLEN"
  PROVE  Expiration[u] \in 1 .. now
<1> DEFINE info == locks[call[t].key]
<1>1. TypeOK /\ Known(u) /\ Expiration[u] \in Nat /\ now \in Nat
  BY OptionTypes, Zenon DEF Inv, Control, TypeOK
<1>2. CASE state[u] = "LOCKS_STOLEN" BY <1>2 DEF Inv, StolenWhenExpired
<1>3. CASE state[u] # "LOCKS_STOLEN"
  <2>1. u \in Asked(t, info) /\ u \in expirable /\ state[u] = "STARTED"
    BY <1>1, <1>3 DEF Robs, Stolen
  <2>2. u \in Elements(info.ids) BY <2>1 DEF Asked, Elements
  <2>3. u \notin prepared BY <2>1 DEF Inv, Expiry
  <2>4. Expiration[u] > 0 BY <1>1, <2>1 DEF Known
  <2>5. info.exp >= Expiration[u] BY <2>2, <2>3, <2>4 DEF Inv, Expiry
  <2>6. info.exp <= now /\ info.exp \in Nat BY <1>1 DEF Robs, TypeOK, LockInfos
  <2> QED BY <1>1, <2>4, <2>5, <2>6
<1> QED BY <1>2, <1>3

LEMMA AcquireExpiry ==
  ASSUME Inv, NEW t \in Txns, Attempt(t) \/ Emplace(t) \/ Spin(t)
  PROVE  Expiry' /\ StolenWhenExpired'
<1>1. PICK k \in Keys : call[t].key = k BY AcquireEffect
<1>2. AttemptEffect(t) /\ UNCHANGED <<opts, now, cfs, expirable, prepared, tracked, rel>>
  BY AcquireEffect
<1>3. TypeOK /\ Expiry /\ StolenWhenExpired BY DEF Inv
<1>4. Expiration' = Expiration /\ Expiration \in [Txns -> Nat]
  BY <1>2, <1>3, ConstantsStay, OptionTypes DEF TypeOK
<1>5. UNCHANGED state \/ Robs(t)
  BY <1>2, Zenon DEF AttemptEffect, Grants, Takes, Shares, Renews, Steals
<1>6. StolenWhenExpired'
  BY <1>1, <1>2, <1>3, <1>4, <1>5, RobbedExpired DEF StolenWhenExpired
<1>7. \A u \in Txns : state'[u] = "STARTED" => u \notin prepared'
  BY <1>2, <1>3, <1>5, StateAfter DEF Expiry
<1>8. ASSUME NEW l \in Keys, NEW u \in Elements(locks'[l].ids),
             Expiration[u] > 0, u \notin prepared
      PROVE  locks'[l].exp >= Expiration[u]
  <2>1. locks[l] \in LockInfos /\ Elements(locks[l].ids) \subseteq Txns
    BY <1>3 DEF TypeOK, LockInfos, Elements
  <2>2. CASE locks'[l] = locks[l] BY <1>3, <1>8, <2>2 DEF Expiry
  <2>3. CASE l = k /\ locks'[k] = Mine(t)
    <3>1. locks'[l].ids = <<t>> /\ locks'[l].exp = ExpirationTime(t)
      BY <1>3, <2>3, MineType
    <3>2. u = t BY <1>8, <3>1, Member
    <3> QED BY <1>4, <1>8, <3>1, <3>2 DEF ExpirationTime
  <2>4. CASE l = k /\ Shares(t)
    <3>1. /\ locks'[k].ids = Append(locks[k].ids, t)
          /\ locks'[k].exp = Max2(locks[k].exp, ExpirationTime(t))
      BY <1>1, <1>3, <2>4 DEF Shares, TypeOK
    <3>2. u = t \/ u \in Elements(locks[k].ids)
      BY <1>8, <2>1, <2>4, <3>1, AppendElements DEF LockInfos
    <3>3. /\ ExpirationTime(t) \in Nat /\ locks[k].exp \in Nat
          /\ u \in Txns /\ Expiration[u] \in Nat
      BY <1>3, <1>4, <2>1, <2>4, <3>2, ExpirationType DEF LockInfos
    <3>4. CASE u = t
      BY <1>8, <2>4, <3>1, <3>3, <3>4 DEF ExpirationTime, Max2
    <3>5. CASE u \in Elements(locks[k].ids)
      <4>1. locks[k].exp >= Expiration[u] BY <1>3, <1>8, <3>5 DEF Expiry
      <4> QED BY <2>4, <3>1, <3>3, <4>1 DEF Max2
    <3> QED BY <3>2, <3>4, <3>5
  <2>5. \/ locks'[l] = locks[l] \/ (l = k /\ locks'[k] = Mine(t)) \/ (l = k /\ Shares(t))
    BY <1>1, <1>2, <1>3, Zenon DEF AttemptEffect, Grants, Takes, Shares, Renews, Steals, TypeOK
  <2> QED BY <2>2, <2>3, <2>4, <2>5
<1>9. Expiry' BY <1>2, <1>4, <1>7, <1>8 DEF Expiry
<1> QED BY <1>6, <1>9

LEMMA FreesExpiry ==
  ASSUME Inv, NEW t \in Txns, NEW K \in SUBSET Keys, Frees(t, K)
  PROVE  Expiry' /\ StolenWhenExpired'
<1>1. UnLocked(t, K) /\ UNCHANGED <<opts, now, cfs, mutex, expirable, state, prepared>>
  BY FreesEffect
<1>2. TypeOK /\ Expiry /\ StolenWhenExpired BY DEF Inv
<1>3. Expiration' = Expiration BY <1>1, ConstantsStay
<1>4. \A k \in Keys : locks'[k] = IF k \in K THEN UnLockKey(t, locks[k]) ELSE locks[k]
  BY <1>1, <1>2, UnLockedLocks
<1>5. ASSUME NEW k \in Keys, NEW u \in Elements(locks'[k].ids)
      PROVE  u \in Elements(locks[k].ids) /\ locks'[k].exp = locks[k].exp
  <2>1. locks[k] \in LockInfos BY <1>2 DEF TypeOK
  <2>2. locks'[k].ids # <<>> BY <1>5 DEF Elements
  <2> DEFINE r == UnLockKey(t, locks[k])
  <2>3. Elements(r.ids) \subseteq Elements(locks[k].ids) /\ (r.ids # <<>> => r.exp = locks[k].exp)
    BY <2>1, UnLockKeyEffect
  <2> HIDE DEF r
  <2> QED BY <1>4, <1>5, <2>2, <2>3 DEF r
<1> QED BY <1>1, <1>2, <1>3, <1>5 DEF Expiry, StolenWhenExpired

LEMMA QuietExpiry ==
  ASSUME Inv, NEW t \in Txns, Quiet(t)
  PROVE  Expiry' /\ StolenWhenExpired'
<1>1. UNCHANGED <<opts, now, cfs, locks, cnt, mutex>> BY QuietType
<1>2. TypeOK /\ Expiry /\ StolenWhenExpired /\ Known(t) BY DEF Inv, Control
<1>3. Expiration' = Expiration BY <1>1, ConstantsStay
<1>4. ASSUME /\ prepared \subseteq prepared'
             /\ \A u \in Txns : state'[u] = "STARTED" => state[u] = "STARTED" /\ u \notin prepared'
             /\ \A u \in Txns : state'[u] = "LOCKS_STOLEN" => state[u] = "LOCKS_STOLEN"
      PROVE  Expiry' /\ StolenWhenExpired'
  BY <1>1, <1>2, <1>3, <1>4 DEF Expiry, StolenWhenExpired
<1>5. CASE UNCHANGED <<state, prepared>> BY <1>2, <1>4, <1>5 DEF Expiry
<1>6. ASSUME NEW ok \in BOOLEAN, Commit(t, ok) PROVE Expiry' /\ StolenWhenExpired'
  BY <1>2, <1>4, <1>6 DEF Commit, Expiry, TypeOK
<1>7. ASSUME NEW ok \in BOOLEAN, Prepare(t, ok) PROVE Expiry' /\ StolenWhenExpired'
  BY <1>2, <1>4, <1>7 DEF Prepare, Expiry, TypeOK
<1>8. ASSUME NEW ok \in BOOLEAN, Rollback(t, ok) PROVE Expiry' /\ StolenWhenExpired'
  BY <1>2, <1>4, <1>8 DEF Rollback, Expiry, TypeOK
<1>9. CASE CommitRefused(t)
  BY <1>2, <1>4, <1>9, Zenon DEF CommitRefused, Expiry, TypeOK
<1>10. CASE ReleaseEnds(t)
  <2>1. rel[t].then \in Ends \cup {"gone", "same"}
    BY <1>2, <1>10 DEF ReleaseEnds, Known, TypeOK
  <2> QED BY <1>2, <1>4, <1>10, <2>1, Zenon DEF ReleaseEnds, Expiry, Ends, TypeOK
<1>11. CASE TimesOut(t) \/ MutexTimesOut(t) \/ Track(t) \/ ReleaseStops(t)
  BY <1>5, <1>11 DEF TimesOut, MutexTimesOut, Track, ReleaseStops
<1>12. CASE \E k \in opts.keys, excl \in opts.modes : TryLock(t, k, excl)
  BY <1>5, <1>12, Zenon DEF TryLock
<1>13. CASE CommitTest(t) \/ PrepareTest(t) \/ Destroy(t) \/ ValidateFails(t)
  BY <1>5, <1>13 DEF CommitTest, PrepareTest, Destroy, ValidateFails
<1> QED BY <1>6, <1>7, <1>8, <1>9, <1>10, <1>11, <1>12, <1>13, Zenon DEF Quiet

-----------------------------------------------------------------------------
(* The invariant.                                                          *)

LEMMA InitInv ==
  ASSUME Init
  PROVE  Inv
<1> USE DEF Init
<1>1. TypeOK
  BY DEF TypeOK, LockInfos, Unlocked, NoCall, PCs, States, CFs
<1>2. Expiration \in [Txns -> Nat] BY OptionTypes, Zenon
<1>3. Control
  BY <1>2 DEF Control, AtCall, Known, Asking, Busy
<1>4. \A k \in Keys : locks[k].ids = <<>> /\ ~locks[k].excl /\ locks[k].exp = 0
  BY DEF Unlocked
<1>5. Elements(<<>>) = {} /\ Injective(<<>>) BY DEF Elements, Injective
<1>6. \A t \in Txns, k \in Keys : ~Holds(t, k) /\ ~HoldsAlone(t, k)
  BY DEF Holds, HoldsAlone
<1>7. Table BY <1>4, <1>5, <1>6, Zenon DEF Table, LockOK, HolderOK
<1>8. Expiry /\ StolenWhenExpired BY <1>4, <1>5, Zenon DEF Expiry, StolenWhenExpired
<1> QED BY <1>1, <1>3, <1>7, <1>8 DEF Inv

LEMMA NextInv ==
  ASSUME Inv, [Next]_vars
  PROVE  Inv'
<1>1. ASSUME NEW t \in Txns, Attempt(t) \/ Emplace(t) \/ Spin(t) PROVE Inv'
  <2>1. TypeOK' /\ Frame(t) BY <1>1, AcquireType
  <2>2. AtCall(t)' /\ Known(t)' BY <1>1, AcquireControl
  <2>3. Control' BY <2>1, <2>2, OthersControl DEF Control
  <2>4. Table' /\ Expiry' /\ StolenWhenExpired' BY <1>1, AcquireTable, AcquireExpiry
  <2> QED BY <2>1, <2>3, <2>4 DEF Inv
<1>2. ASSUME NEW t \in Txns, Quiet(t) PROVE Inv'
  <2>1. TypeOK' /\ Frame(t) /\ UNCHANGED <<opts, now, cfs, locks, cnt, mutex>>
    BY <1>2, QuietType
  <2>2. AtCall(t)' /\ Known(t)' BY <1>2, QuietControl
  <2>3. Control' BY <2>1, <2>2, OthersControl DEF Control
  <2>4. Table' /\ Expiry' /\ StolenWhenExpired' BY <1>2, QuietTable, QuietExpiry
  <2> QED BY <2>1, <2>3, <2>4 DEF Inv
<1>3. ASSUME NEW t \in Txns, NEW K \in SUBSET Keys, Frees(t, K) PROVE Inv'
  <2>1. TypeOK' /\ Frame(t) /\ UnLocked(t, K) /\ opts' = opts BY <1>3, FreesEffect
  <2>2. AtCall(t)' /\ Known(t)' BY <1>3, FreesControl
  <2>3. Control' BY <2>1, <2>2, OthersControl DEF Control
  <2>4. Table' /\ Expiry' /\ StolenWhenExpired' BY <1>3, FreesTable, FreesExpiry
  <2> QED BY <2>1, <2>3, <2>4 DEF Inv
<1>4. CASE Tick \/ \E c \in CFs : DropColumnFamily(c)
  <2>1. TypeOK' /\ Table' BY <1>4, TickDropType, TickDropTable
  <2>2. /\ UNCHANGED <<opts, locks, cnt, mutex, expirable, state, prepared, tracked, pc, call,
                       rel>>
        /\ now' \in {now, now + 1}
    BY <1>4 DEF Tick, DropColumnFamily, table, locals
  <2>3. Expiration' = Expiration /\ MaxLocks' = MaxLocks BY <2>2, ConstantsStay
  <2>4. Control' BY <2>2, <2>3 DEF Inv, Control, AtCall, Known, TrackedKeys
  <2>5. Expiry' BY <2>2, <2>3 DEF Inv, Expiry
  <2>6. StolenWhenExpired'
    <3>1. now \in Nat /\ Expiration \in [Txns -> Nat] BY OptionTypes DEF Inv, TypeOK
    <3> QED BY <2>2, <2>3, <3>1 DEF Inv, StolenWhenExpired
  <2> QED BY <2>1, <2>4, <2>5, <2>6 DEF Inv
<1>5. CASE UNCHANGED vars
  <2>1. /\ UNCHANGED <<opts, now, cfs, locks, cnt, mutex, expirable, state, prepared, tracked,
                       pc, call, rel>>
    BY <1>5 DEF vars, table
  <2>2. CFs' = CFs /\ Expiration' = Expiration /\ MaxLocks' = MaxLocks
    BY <2>1, ConstantsStay
  <2>3. TypeOK' BY <2>1, <2>2 DEF Inv, TypeOK
  <2>4. Control' BY <2>1, <2>2 DEF Inv, Control, AtCall, Known, TrackedKeys
  <2>5. Table'
    <3>1. NoNewClaims BY <2>1 DEF NoNewClaims, Holds, HoldsAlone
    <3> QED BY <3>1, NoNewClaimsTable
  <2>6. Expiry' /\ StolenWhenExpired' BY <2>1, <2>2 DEF Inv, Expiry, StolenWhenExpired
  <2> QED BY <2>3, <2>4, <2>5, <2>6 DEF Inv
<1> QED BY <1>1, <1>2, <1>3, <1>4, <1>5, StepCases

\* The lock manager keeps the invariant above, for every number of transactions,
\* keys, stripes and column families, and every choice of the options.
THEOREM LockInvariant == Spec => []Inv
<1>1. Init => Inv BY InitInv
<1>2. Inv /\ [Next]_vars => Inv' BY NextInv
<1> QED BY <1>1, <1>2, PTL DEF Spec

\* The table and the transactions agree on who has which lock, except for stolen
\* locks and the shares of transactions that never expire.
THEOREM TableAgrees == Spec => []LocksAgree
<1>1. Inv => LocksAgree
  <2> SUFFICES ASSUME Inv, NEW k \in Keys, NEW t \in Txns
               PROVE  /\ t \in Elements(locks[k].ids) => Holds(t, k) \/ cfs # CFs
                      /\ Holds(t, k) /\ ~Unprotected(t, k) /\ state[t] # "LOCKS_STOLEN"
                           => t \in Elements(locks[k].ids)
                      /\ t \in Elements(locks[k].ids) /\ locks[k].excl => locks[k].ids = <<t>>
    BY DEF LocksAgree
  <2>1. LockOK(k) /\ HolderOK(t, k) /\ locks[k].ids \in Seq(Txns)
    BY DEF Inv, Table, TypeOK, LockInfos
  <2>2. ASSUME t \in Elements(locks[k].ids), Len(locks[k].ids) = 1
        PROVE  locks[k].ids = <<t>>
    BY <2>1, <2>2 DEF Elements
  <2> QED BY <2>1, <2>2 DEF LockOK, HolderOK
<1> QED BY <1>1, LockInvariant, PTL

\* Of two transactions that count on one key, one of them exclusively, at most one
\* can still commit, unless the other has an unprotected share: TryLock, the
\* stealing of expired locks and the compare-and-exchange of Commit together.
THEOREM ConflictsExcluded == Spec => []NoConflict
<1>1. Inv => NoConflict
  <2> SUFFICES ASSUME Inv, NEW t \in Txns, NEW u \in Txns, NEW k \in Keys, t # u,
                      HoldsAlone(t, k), Holds(u, k), ~Unprotected(u, k),
                      state[t] # "LOCKS_STOLEN", state[u] # "LOCKS_STOLEN"
               PROVE  FALSE
    BY DEF NoConflict
  <2>1. HolderOK(t, k) /\ HolderOK(u, k) BY DEF Inv, Table
  <2>2. locks[k].ids = <<t>> BY <2>1 DEF HolderOK
  <2>3. u \in Elements(locks[k].ids) BY <2>1 DEF HolderOK
  <2> QED BY <2>2, <2>3, Member
<1> QED BY <1>1, LockInvariant, PTL

\* IsLockExpired takes locks only from transactions whose own time is up, whatever
\* the expirations of those they share the locks with.
THEOREM StealsFromExpired == Spec => []StolenWhenExpired
<1>1. Inv => StolenWhenExpired BY DEF Inv
<1> QED BY <1>1, LockInvariant, PTL

=============================================================================
