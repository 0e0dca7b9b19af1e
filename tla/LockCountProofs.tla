-------------------------- MODULE LockCountProofs --------------------------
(***************************************************************************)
(* lock_cnt of TransactionLockMgr stays below the number of locked keys.   *)
(***************************************************************************)
EXTENDS TransactionLockMgrTheorems, FiniteSetTheorems

LockedKeys(c) == {k \in Keys : CFOf[k] = c /\ locks[k].ids # <<>>}

Counted ==
  /\ cnt \in [CFs -> Int]
  /\ \A c \in CFs : IsFiniteSet(LockedKeys(c))
  /\ \A c \in CFs : IF MaxLocks = 0 THEN cnt[c] = 0 ELSE cnt[c] <= Cardinality(LockedKeys(c))

\* UnLock leaves the other holders where they are, and counts off no more than
\* the keys it unlocks.
LEMMA UnLockedCounted ==
  ASSUME TypeOK, Counted, opts' = opts, NEW t \in Txns, NEW K \in SUBSET Keys,
         UnLocked(t, K)
  PROVE  Counted'
<1>1. locks \in [Keys -> LockInfos] /\ cnt \in [CFs -> Int] BY DEF TypeOK, Counted
<1>2. \A k \in Keys : locks'[k] = IF k \in K THEN UnLockKey(t, locks[k]) ELSE locks[k]
  BY UnLockedLocks
<1>3. CFs' = CFs /\ CFOf' = CFOf /\ MaxLocks' = MaxLocks BY ConstantsStay
<1>4. ASSUME NEW c \in CFs
      PROVE  /\ IsFiniteSet(LockedKeys(c)')
             /\ cnt'[c] \in Int
             /\ IF MaxLocks = 0 THEN cnt'[c] = 0 ELSE cnt'[c] <= Cardinality(LockedKeys(c)')
  <2> DEFINE L == LockedKeys(c)
             R == {k \in K : CFOf[k] = c /\ t \in Elements(locks[k].ids)}
             M == LockedKeys(c)'
  <2>1. IsFiniteSet(L) /\ (IF MaxLocks = 0 THEN cnt[c] = 0 ELSE cnt[c] <= Cardinality(L))
    BY DEF Counted
  <2>2. R \subseteq L BY DEF LockedKeys, Elements
  <2>3. M \subseteq L
    <3> SUFFICES ASSUME NEW k \in Keys, CFOf[k] = c, locks[k].ids = <<>>
                 PROVE  locks'[k].ids = <<>>
      BY <1>3 DEF LockedKeys
    <3>1. t \notin Elements(locks[k].ids) BY DEF Elements
    <3> QED BY <3>1, <1>1, <1>2, UnLockKeyEffect
  <2>4. L \ R \subseteq M
    <3> SUFFICES ASSUME NEW k \in Keys, CFOf[k] = c, locks[k].ids # <<>>, k \notin R
                 PROVE  locks'[k].ids # <<>>
      BY <1>3 DEF LockedKeys
    <3>1. k \in K => UnLockKey(t, locks[k]) = locks[k] BY <1>1, UnLockKeyEffect
    <3> QED BY <3>1, <1>2
  <2> HIDE DEF L, M, R
  <2>5. IsFiniteSet(M) /\ IsFiniteSet(R) /\ IsFiniteSet(L \ R)
    BY <2>1, <2>2, <2>3, FS_Subset
  <2>6. Cardinality(L \ R) = Cardinality(L) - Cardinality(R)
    <3>1. L \cap R = R BY <2>2
    <3> QED BY <3>1, <2>1, FS_Difference
  <2>7. Cardinality(L \ R) <= Cardinality(M) BY <2>4, <2>5, FS_Subset
  <2>8. /\ Cardinality(L) \in Nat /\ Cardinality(R) \in Nat /\ Cardinality(M) \in Nat
        /\ Cardinality(L \ R) \in Nat
    BY <2>1, <2>5, FS_CardinalityType
  <2>9. cnt'[c] = IF MaxLocks = 0 THEN cnt[c] ELSE cnt[c] - Cardinality(R)
    BY DEF UnLocked, R
  <2>10. cnt[c] \in Int BY <1>1
  <2> QED BY <2>1, <2>5, <2>6, <2>7, <2>8, <2>9, <2>10 DEF M
<1>5. cnt' \in [CFs -> Int]
  <2>1. cnt' = [c \in CFs |-> cnt'[c]] BY DEF UnLocked
  <2> QED BY <2>1, <1>4
<1> QED BY <1>3, <1>4, <1>5 DEF Counted

LEMMA AcquireCounted ==
  ASSUME Inv, Counted, NEW t \in Txns, Attempt(t) \/ Emplace(t) \/ Spin(t)
  PROVE  Counted'
<1>1. PICK k \in Keys : call[t].key = k BY AcquireEffect
<1>2. AttemptEffect(t) /\ opts' = opts BY AcquireEffect
<1>3. TypeOK /\ Counted BY DEF Inv
<1>4. CFs' = CFs /\ CFOf' = CFOf /\ MaxLocks' = MaxLocks /\ CFOf[k] \in CFs
  BY <1>2, ConstantsStay DEF CFs
<1>5. MaxLocks \in Nat BY <1>3, OptionTypes DEF TypeOK
<1>6. CASE Takes(t)
  <2>1. /\ locks[k].ids = <<>> /\ locks'[k].ids = <<t>>
        /\ \A l \in Keys \ {k} : locks'[l] = locks[l]
    BY <1>1, <1>3, <1>6, MineType DEF Takes, TypeOK
  <2>2. ASSUME NEW c \in CFs
        PROVE  /\ IsFiniteSet(LockedKeys(c)')
               /\ IF MaxLocks = 0 THEN cnt'[c] = 0 ELSE cnt'[c] <= Cardinality(LockedKeys(c)')
    <3>1. IsFiniteSet(LockedKeys(c)) /\ Cardinality(LockedKeys(c)) \in Nat /\ cnt[c] \in Int
      BY <1>3, FS_CardinalityType DEF Counted
    <3>2. IF MaxLocks = 0 THEN cnt[c] = 0 ELSE cnt[c] <= Cardinality(LockedKeys(c))
      BY <1>3 DEF Counted
    <3>3. cnt'[c] = IF MaxLocks # 0 /\ c = CFOf[k] THEN cnt[c] + 1 ELSE cnt[c]
      BY <1>1, <1>3, <1>4, <1>6 DEF Takes, Counted
    <3>4. CASE c = CFOf[k]
      <4>1. LockedKeys(c)' = LockedKeys(c) \cup {k} /\ k \notin LockedKeys(c)
        <5>1. locks'[k].ids # <<>> BY <2>1
        <5> QED BY <1>4, <2>1, <3>4, <5>1 DEF LockedKeys
      <4>2. /\ IsFiniteSet(LockedKeys(c) \cup {k})
            /\ Cardinality(LockedKeys(c) \cup {k}) = Cardinality(LockedKeys(c)) + 1
        BY <3>1, <4>1, FS_AddElement
      <4> QED BY <3>1, <3>2, <3>3, <4>1, <4>2
    <3>5. CASE c # CFOf[k]
      <4>1. LockedKeys(c)' = LockedKeys(c) BY <1>4, <2>1, <3>5 DEF LockedKeys
      <4> QED BY <3>1, <3>2, <3>3, <3>5, <4>1
    <3> QED BY <3>4, <3>5
  <2>3. cnt' \in [CFs -> Int]
    <3>1. CFOf[k] \in CFs /\ cnt \in [CFs -> Int] BY <1>3, <1>4 DEF Counted
    <3> QED BY <1>1, <1>6, <3>1 DEF Takes
  <2> QED BY <1>4, <2>2, <2>3 DEF Counted
<1>7. CASE ~Takes(t)
  <2>1. cnt' = cnt
    BY <1>2, <1>7 DEF AttemptEffect, Grants, Shares, Renews, Steals
  <2>2. \A l \in Keys : locks'[l].ids = <<>> <=> locks[l].ids = <<>>
    <3>1. CASE locks' = locks BY <3>1
    <3>2. CASE /\ locks[k].ids # <<>> /\ locks'[k].ids # <<>>
               /\ \A l \in Keys \ {k} : locks'[l] = locks[l]
      BY <3>2
    <3>3. CASE Renews(t) \/ Steals(t)
      <4>1. locks' = [locks EXCEPT ![k] = Mine(t)] /\ locks[k].ids # <<>>
        BY <1>1, <3>3 DEF Renews, Steals
      <4>2. Mine(t).ids # <<>> BY <1>3, MineType
      <4> QED BY <1>3, <3>2, <4>1, <4>2 DEF TypeOK
    <3>4. CASE Shares(t)
      <4>1. Append(locks[k].ids, t) # <<>>
        <5>1. locks[k].ids \in Seq(Txns) BY <1>3 DEF TypeOK, LockInfos
        <5>2. Len(Append(locks[k].ids, t)) = Len(locks[k].ids) + 1 BY <5>1
        <5> QED BY <5>1, <5>2
      <4> QED BY <1>1, <1>3, <3>2, <3>4, <4>1 DEF Shares, TypeOK
    <3> QED BY <1>2, <1>7, <3>1, <3>3, <3>4 DEF AttemptEffect, Grants
  <2>3. \A c \in CFs : LockedKeys(c)' = LockedKeys(c) BY <1>4, <2>2 DEF LockedKeys
  <2> QED BY <1>3, <1>4, <2>1, <2>3 DEF Counted
<1> QED BY <1>6, <1>7

LEMMA SameCounted ==
  ASSUME Counted, UNCHANGED <<opts, locks, cnt>>
  PROVE  Counted'
BY ConstantsStay DEF Counted, LockedKeys

LEMMA InitCounted ==
  ASSUME Init
  PROVE  Counted
<1>1. \A k \in Keys : locks[k].ids = <<>> BY DEF Init, Unlocked
<1>2. \A c \in CFs : LockedKeys(c) = {} BY <1>1 DEF LockedKeys
<1>3. cnt \in [CFs -> Int] /\ \A c \in CFs : cnt[c] = 0 BY DEF Init
<1>4. IsFiniteSet({}) /\ Cardinality({}) = 0 BY FS_EmptySet
<1>5. \A c \in CFs : IsFiniteSet(LockedKeys(c)) /\ Cardinality(LockedKeys(c)) = 0
  BY <1>2, <1>4
<1> QED BY <1>3, <1>5 DEF Counted

LEMMA NextCounted ==
  ASSUME Inv, Counted, [Next]_vars
  PROVE  Counted'
<1>1. ASSUME NEW t \in Txns, Attempt(t) \/ Emplace(t) \/ Spin(t) PROVE Counted'
  BY <1>1, AcquireCounted
<1>2. ASSUME NEW t \in Txns, Quiet(t) PROVE Counted'
  BY <1>2, QuietType, SameCounted
<1>3. ASSUME NEW t \in Txns, NEW K \in SUBSET Keys, Frees(t, K) PROVE Counted'
  <2>1. UnLocked(t, K) /\ opts' = opts BY <1>3, FreesEffect
  <2> QED BY <2>1, UnLockedCounted DEF Inv
<1>4. CASE Tick \/ \E c \in CFs : DropColumnFamily(c)
  <2>1. UNCHANGED <<opts, locks, cnt>> BY <1>4 DEF Tick, DropColumnFamily, table
  <2> QED BY <2>1, SameCounted
<1>5. CASE UNCHANGED vars
  <2>1. UNCHANGED <<opts, locks, cnt>> BY <1>5 DEF vars, table
  <2> QED BY <2>1, SameCounted
<1> QED BY <1>1, <1>2, <1>3, <1>4, <1>5, StepCases

\* lock_cnt never exceeds the number of locked keys of its column family, so that
\* AcquireLocked refuses a lock at the limit only if that many keys are locked.
THEOREM CountBounded == Spec => []CountNeverAbove
<1>1. Init => Counted BY InitCounted
<1>2. Inv /\ Counted /\ [Next]_vars => Counted' BY NextCounted
<1>3. Counted => CountNeverAbove
  <2> SUFFICES ASSUME Counted, NEW c \in CFs PROVE cnt[c] <= Cardinality(LockedKeys(c))
    BY DEF CountNeverAbove, LockedKeys
  <2>1. IsFiniteSet(LockedKeys(c)) /\ Cardinality(LockedKeys(c)) \in Nat
    BY FS_CardinalityType DEF Counted
  <2> QED BY <2>1 DEF Counted
<1> QED BY <1>1, <1>2, <1>3, LockInvariant, PTL DEF Spec

=============================================================================
