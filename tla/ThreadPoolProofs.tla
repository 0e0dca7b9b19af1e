-------------------------- MODULE ThreadPoolProofs --------------------------
(***************************************************************************)
(* No wake-up is lost, for any number of threads, jobs and tags.           *)
(*                                                                         *)
(* WorkersAwake is not inductive alone.  That a sleeping thread which      *)
(* notify_one picks is a worker needs that only the first n slots have a   *)
(* thread; that a thread which exits takes no worker away needs that the   *)
(* limit is 0 while the pool exits.                                        *)
(***************************************************************************)
EXTENDS ThreadPool, FiniteSetTheorems, TLAPS

\* Only the slots below bgthreads_.size() have a thread.
Placed == \A i \in Slots : pc[i] # "none" => i < n

\* JoinThreads sets the limit to 0 with exit_all_threads_, and nobody raises it
\* until the flag is down.
ExitHasNoLimit == exiting => limit = 0

IInv == TypeOK /\ Placed /\ ExitHasNoLimit /\ WorkersAwake

-----------------------------------------------------------------------------
\* The slots are finite, and so are the workers that are awake.
LEMMA AwakeFinite == IsFiniteSet(Awake) /\ Cardinality(Awake) \in Nat
<1>1. IsFiniteSet(Slots)
  BY FS_Interval, PoolAssumption DEF Slots
<1>2. Awake \subseteq Slots
  BY DEF Awake, Workers
<1> QED
  BY <1>1, <1>2, FS_Subset, FS_CardinalityType

\* The same one step later.
LEMMA AwakeFiniteNext == IsFiniteSet(Awake') /\ Cardinality(Awake') \in Nat
<1>1. IsFiniteSet(Slots)
  BY FS_Interval, PoolAssumption DEF Slots
<1>2. Awake' \subseteq Slots
  BY DEF Awake, Workers
<1> QED
  BY <1>1, <1>2, FS_Subset, FS_CardinalityType

\* A step that leaves the queue no longer and no worker less awake, and puts no
\* worker to sleep who was not, keeps the wake-ups.
LEMMA NoneLost ==
  ASSUME queue \in Seq(Items), queue' \in Seq(Items), WorkersAwake,
         Awake \subseteq Awake', Asleep' # {} => Asleep # {}, Len(queue') <= Len(queue)
  PROVE  WorkersAwake'
<1>1. Cardinality(Awake) <= Cardinality(Awake')
  BY AwakeFiniteNext, FS_Subset
<1>2. Len(queue) \in Nat /\ Len(queue') \in Nat
  OBVIOUS
<1> QED
  BY <1>1, <1>2, AwakeFinite, AwakeFiniteNext DEF WorkersAwake

\* With one more job there has to be one more worker awake.
LEMMA OneMore ==
  ASSUME queue \in Seq(Items), queue' \in Seq(Items), WorkersAwake, NEW i \in Slots, i \notin Awake,
         Awake \cup {i} \subseteq Awake', Asleep' # {} => Asleep # {},
         Len(queue') = Len(queue) + 1
  PROVE  WorkersAwake'
<1>1. Cardinality(Awake \cup {i}) = Cardinality(Awake) + 1
  BY AwakeFinite, FS_AddElement
<1>2. Cardinality(Awake \cup {i}) <= Cardinality(Awake')
  BY AwakeFiniteNext, FS_Subset
<1>3. Len(queue) \in Nat /\ Len(queue') \in Nat
  OBVIOUS
<1> QED
  BY <1>1, <1>2, <1>3, AwakeFinite, AwakeFiniteNext DEF WorkersAwake

\* With one job less there may be one worker less awake.
LEMMA OneLess ==
  ASSUME queue \in Seq(Items), queue' \in Seq(Items), WorkersAwake, NEW i \in Awake,
         Awake' = Awake \ {i}, Asleep' # {} => Asleep # {},
         Len(queue') = Len(queue) - 1
  PROVE  WorkersAwake'
<1>1. Cardinality(Awake') = Cardinality(Awake) - 1
  BY AwakeFinite, FS_RemoveElement
<1>2. Len(queue) \in Nat /\ Len(queue') \in Nat
  OBVIOUS
<1> QED
  BY <1>1, <1>2, AwakeFinite, AwakeFiniteNext DEF WorkersAwake

-----------------------------------------------------------------------------
\* StartBGThreads, WakeUpAllThreads and notify_one keep the type of pc.
LEMMA PcTypes ==
  ASSUME TypeOK, NEW lim \in 0 .. MaxThreads
  PROVE  /\ WakeUpAllThreads(pc) \in [Slots -> {"none", "loop", "waiting", "running", "done"}]
         /\ StartBGThreads(pc, lim) \in [Slots -> {"none", "loop", "waiting", "running", "done"}]
         /\ StartBGThreads(WakeUpAllThreads(pc), lim)
              \in [Slots -> {"none", "loop", "waiting", "running", "done"}]
BY DEF TypeOK, WakeUpAllThreads, StartBGThreads

\* What the threads are after a Submit: those that were started or woken up are in
\* their loop, the others as before; if a thread still waits, one other was woken.
LEMMA Wakes ==
  ASSUME TypeOK, NEW p \in SubmitWakes(StartBGThreads(pc, limit))
  PROVE  /\ p \in [Slots -> {"none", "loop", "waiting", "running", "done"}]
         /\ \A i \in Slots : \/ p[i] = pc[i]
                             \/ p[i] = "loop" /\ (pc[i] = "waiting" \/ (n <= i /\ i < limit))
         /\ \A i \in Slots : p[i] = "waiting" =>
              ~HasExcessiveThread /\ \E k \in Slots :
                 p[k] = "loop" /\ StartBGThreads(pc, limit)[k] = "waiting"
<1> DEFINE q == StartBGThreads(pc, limit)
<1>1. q \in [Slots -> {"none", "loop", "waiting", "running", "done"}]
  BY PcTypes DEF TypeOK
<1>2. \A i \in Slots : \/ q[i] = pc[i]
                       \/ q[i] = "loop" /\ n <= i /\ i < limit
  BY DEF StartBGThreads
<1> HIDE DEF q
<1>3. CASE HasExcessiveThread
  BY <1>1, <1>2, <1>3 DEF q, SubmitWakes, WakeUpAllThreads
<1>4. CASE ~HasExcessiveThread /\ \A i \in Slots : q[i] # "waiting"
  BY <1>1, <1>2, <1>4 DEF q, SubmitWakes, NotifyOne
<1>5. CASE ~HasExcessiveThread /\ ~(\A i \in Slots : q[i] # "waiting")
  <2>1. PICK k \in Slots : q[k] = "waiting" /\ p = [q EXCEPT ![k] = "loop"]
    BY <1>5 DEF q, SubmitWakes, NotifyOne
  <2> QED
    BY <1>1, <1>2, <1>5, <2>1 DEF q
<1> QED
  BY <1>3, <1>4, <1>5

-----------------------------------------------------------------------------
\* Initially there are no threads, and nothing to do.
LEMMA InitIInv == Init => IInv
BY PoolAssumption DEF Init, IInv, TypeOK, Placed, ExitHasNoLimit, WorkersAwake, Asleep, Workers,
                      Slots

\* A thread that gets as far as taking a job finds one, and unless the pool exits
\* it is not excessive.
LEMMA TakeHasJob ==
  ASSUME TypeOK, NEW i \in Slots, BGTake(i)
  PROVE  queue # <<>> /\ (~exiting => i < limit)
BY DEF TypeOK, BGTake, KeepsWaiting, LeavesOnExit, IsExcessiveThread, Slots

\* What UnSchedule leaves is a queue that is no longer.
LEMMA Shorter ==
  ASSUME TypeOK, NEW tag \in Tags, NEW q \in Without(tag)
  PROVE  q \in Seq(Items) /\ Len(q) <= Len(queue)
<1> DEFINE kept == {k \in DOMAIN queue : queue[k].tag # tag}
           size == Cardinality(kept)
<1>1. queue \in Seq(Items) /\ Len(queue) \in Nat /\ DOMAIN queue = 1 .. Len(queue)
  BY DEF TypeOK
<1>2. IsFiniteSet(1 .. Len(queue)) /\ Cardinality(1 .. Len(queue)) = Len(queue)
  BY <1>1, FS_Interval
<1>3. kept \subseteq 1 .. Len(queue)
  BY <1>1
<1>4. size \in Nat /\ size <= Len(queue)
  BY <1>2, <1>3, FS_Subset, FS_CardinalityType
<1>5. PICK f \in [1 .. size -> kept] : q = [k \in 1 .. size |-> queue[f[k]]]
  BY DEF Without
<1> HIDE DEF size
<1>6. \A k \in 1 .. size : queue[f[k]] \in Items
  <2> SUFFICES ASSUME NEW k \in 1 .. size PROVE queue[f[k]] \in Items
    OBVIOUS
  <2>1. f[k] \in 1 .. Len(queue)
    BY <1>3, <1>5
  <2> QED
    BY <1>1, <2>1
<1>7. q \in [1 .. size -> Items]
  BY <1>5, <1>6
<1>8. q \in Seq(Items) /\ Len(q) = size
  BY <1>4, <1>7
<1> QED
  BY <1>4, <1>8

\* Every step keeps the types.
LEMMA TypeStep == TypeOK /\ [Next]_vars => TypeOK'
<1> SUFFICES ASSUME TypeOK, [Next]_vars PROVE TypeOK'
  OBVIOUS
<1> USE PoolAssumption
<1>1. ASSUME NEW num \in 0 .. MaxThreads, NEW r \in BOOLEAN, SetBackgroundThreads(num, r)
      PROVE  TypeOK'
  BY <1>1, PcTypes DEF TypeOK, SetBackgroundThreads, Larger, joinVars
<1>2. ASSUME NEW tag \in Tags, Submit(tag)
      PROVE  TypeOK'
  <2>1. pc' \in [Slots -> {"none", "loop", "waiting", "running", "done"}]
    BY <1>2, Wakes DEF Submit
  <2>2. [job |-> submitted + 1, tag |-> tag] \in Items
    BY <1>2 DEF Submit, TypeOK, Items, Jobs
  <2>3. queue' \in Seq(Items)
    BY <1>2, <2>2 DEF Submit, TypeOK
  <2> QED
    BY <1>2, <2>1, <2>3 DEF TypeOK, Submit, Larger, joinVars
<1>3. ASSUME NEW tag \in Tags, UnSchedule(tag)
      PROVE  TypeOK'
  BY <1>3, Shorter DEF TypeOK, UnSchedule, joinVars
<1>4. ASSUME NEW i \in Slots, BGWait(i) \/ BGExit(i)
      PROVE  TypeOK'
  BY <1>4 DEF TypeOK, BGWait, BGExit, joinVars
<1>5. ASSUME NEW i \in Slots, BGTerminate(i)
      PROVE  TypeOK'
  <2>1. pc' \in [Slots -> {"none", "loop", "waiting", "running", "done"}]
    BY <1>5 DEF TypeOK, BGTerminate, WakeUpAllThreads
  <2>2. n' \in 0 .. MaxThreads
    BY <1>5 DEF TypeOK, BGTerminate, IsLastExcessiveThread, HasExcessiveThread
  <2>3. UNCHANGED <<limit, exiting, waitJobs, queue, job, jpc, jidx, jend, submitted>>
    BY <1>5 DEF BGTerminate, joinVars
  <2> QED
    BY <2>1, <2>2, <2>3 DEF TypeOK
<1>6. ASSUME NEW i \in Slots, BGTake(i)
      PROVE  TypeOK'
  <2>1. queue # <<>>
    BY <1>6, TakeHasJob
  <2>2. Tail(queue) \in Seq(Items) /\ Head(queue) \in Items
    BY <2>1 DEF TypeOK
  <2>3. Head(queue).job \in 0 .. MaxJobs
    BY <2>2 DEF Items, Jobs
  <2> QED
    BY <1>6, <2>2, <2>3 DEF TypeOK, BGTake, joinVars
<1>7. ASSUME NEW i \in Slots, BGFinish(i)
      PROVE  TypeOK'
  BY <1>7 DEF TypeOK, BGFinish, joinVars
<1>8. ASSUME NEW wait \in BOOLEAN, JoinThreads(wait)
      PROVE  TypeOK'
  BY <1>8 DEF TypeOK, JoinThreads
<1>9. CASE JoinNotify
  BY <1>9, PcTypes DEF TypeOK, JoinNotify
<1>10. CASE JoinNext
  BY <1>10 DEF TypeOK, JoinNext
<1>11. CASE JoinDetached
  BY <1>11 DEF TypeOK, JoinDetached
<1>12. CASE JoinClear
  <2>1. pc' \in [Slots -> {"none", "loop", "waiting", "running", "done"}]
    BY <1>12 DEF JoinClear
  <2>2. n' \in 0 .. MaxThreads /\ jpc' = "reset"
    BY <1>12 DEF JoinClear
  <2>3. UNCHANGED <<limit, exiting, waitJobs, queue, job, jidx, jend, submitted>>
    BY <1>12 DEF JoinClear
  <2> QED
    BY <2>1, <2>2, <2>3 DEF TypeOK
<1>13. CASE JoinReset
  <2>1. exiting' \in BOOLEAN /\ waitJobs' \in BOOLEAN
    BY <1>13 DEF JoinReset
  <2>2. jpc' = "idle" /\ jidx' \in 0 .. MaxThreads /\ jend' \in 0 .. MaxThreads
    BY <1>13 DEF JoinReset
  <2>3. UNCHANGED <<limit, queue, n, pc, job, submitted>>
    BY <1>13 DEF JoinReset
  <2> QED
    BY <2>1, <2>2, <2>3 DEF TypeOK
<1>14. CASE UNCHANGED vars
  BY <1>14 DEF TypeOK, vars
<1> QED
  BY <1>1, <1>2, <1>3, <1>4, <1>5, <1>6, <1>7, <1>8, <1>9, <1>10, <1>11, <1>12, <1>13, <1>14
     DEF Next, BGThread, JoinStep

-----------------------------------------------------------------------------
\* Threads are created at the end of the vector and leave it there.
LEMMA PlacedStep == IInv /\ [Next]_vars => Placed' /\ ExitHasNoLimit'
<1> SUFFICES ASSUME TypeOK, Placed, ExitHasNoLimit, [Next]_vars
             PROVE  Placed' /\ ExitHasNoLimit'
  BY DEF IInv
<1>1. ASSUME NEW num \in 0 .. MaxThreads, NEW r \in BOOLEAN, SetBackgroundThreads(num, r)
      PROVE  Placed' /\ ExitHasNoLimit'
  BY <1>1 DEF TypeOK, Placed, ExitHasNoLimit, SetBackgroundThreads, StartBGThreads,
              WakeUpAllThreads, Larger, Slots
<1>2. ASSUME NEW tag \in Tags, Submit(tag)
      PROVE  Placed' /\ ExitHasNoLimit'
  <2>1. \A i \in Slots : \/ pc'[i] = pc[i]
                         \/ pc'[i] = "loop" /\ (pc[i] = "waiting" \/ (n <= i /\ i < limit))
    BY <1>2, Wakes DEF Submit
  <2>2. n' = Larger(n, limit) /\ exiting' = exiting /\ limit' = limit
    BY <1>2 DEF Submit
  <2> QED
    BY <2>1, <2>2 DEF TypeOK, Placed, ExitHasNoLimit, Larger, Slots
<1>3. ASSUME NEW tag \in Tags, UnSchedule(tag)
      PROVE  Placed' /\ ExitHasNoLimit'
  BY <1>3 DEF Placed, ExitHasNoLimit, UnSchedule
<1>4. ASSUME NEW i \in Slots, BGWait(i) \/ BGExit(i) \/ BGTake(i) \/ BGFinish(i)
      PROVE  Placed' /\ ExitHasNoLimit'
  BY <1>4 DEF TypeOK, Placed, ExitHasNoLimit, BGWait, BGExit, BGTake, BGFinish
<1>5. ASSUME NEW i \in Slots, BGTerminate(i)
      PROVE  Placed' /\ ExitHasNoLimit'
  <2>1. n' = n - 1 /\ i = n - 1 /\ exiting' = exiting /\ limit' = limit
    BY <1>5 DEF BGTerminate, IsLastExcessiveThread
  <2>2. \A k \in Slots : pc'[k] # "none" => k # i /\ pc[k] # "none"
    BY <1>5 DEF TypeOK, BGTerminate, WakeUpAllThreads
  <2> QED
    BY <2>1, <2>2 DEF TypeOK, Placed, ExitHasNoLimit, Slots
<1>6. ASSUME NEW wait \in BOOLEAN, JoinThreads(wait)
      PROVE  Placed' /\ ExitHasNoLimit'
  BY <1>6 DEF Placed, ExitHasNoLimit, JoinThreads
<1>7. CASE JoinStep
  BY <1>7 DEF TypeOK, Placed, ExitHasNoLimit, JoinStep, JoinNotify, JoinNext, JoinDetached,
              JoinClear, JoinReset, WakeUpAllThreads
<1>8. CASE UNCHANGED vars
  BY <1>8 DEF Placed, ExitHasNoLimit, vars
<1> QED
  BY <1>1, <1>2, <1>3, <1>4, <1>5, <1>6, <1>7, <1>8 DEF Next, BGThread

-----------------------------------------------------------------------------
\* A step after which no worker sleeps loses no wake-up.
LEMMA NobodyAsleep == ASSUME Asleep' = {} PROVE WorkersAwake'
BY DEF WorkersAwake

\* Submit adds a job, and wakes up a worker unless there is none asleep.
LEMMA SubmitAwake ==
  ASSUME IInv, TypeOK', NEW tag \in Tags, Submit(tag)
  PROVE  WorkersAwake'
<1>1. TypeOK /\ Placed /\ WorkersAwake
  BY DEF IInv
<1>2. pc' \in SubmitWakes(StartBGThreads(pc, limit)) /\ n' = Larger(n, limit) /\ limit' = limit
  BY DEF Submit
<1>3. \A i \in Slots : \/ pc'[i] = pc[i]
                       \/ pc'[i] = "loop" /\ (pc[i] = "waiting" \/ (n <= i /\ i < limit))
  BY <1>1, <1>2, Wakes
<1>w. \A i \in Slots : pc'[i] = "waiting" =>
        ~HasExcessiveThread /\ \E k \in Slots :
           pc'[k] = "loop" /\ StartBGThreads(pc, limit)[k] = "waiting"
  BY <1>1, <1>2, Wakes
<1>4. CASE \A i \in Slots : pc'[i] # "waiting"
  BY <1>4, NobodyAsleep DEF Asleep, Workers
<1>5. CASE ~(\A i \in Slots : pc'[i] # "waiting")
  <2>1. PICK k \in Slots : /\ ~HasExcessiveThread
                           /\ pc'[k] = "loop" /\ StartBGThreads(pc, limit)[k] = "waiting"
    BY <1>w, <1>5
  <2>2. pc[k] = "waiting"
    BY <2>1 DEF StartBGThreads
  <2>3. k < n /\ n <= limit
    BY <1>1, <2>1, <2>2 DEF Placed, HasExcessiveThread, TypeOK
  <2>4. k \notin Awake
    BY <2>2 DEF Awake
  <2>5. Awake \cup {k} \subseteq Awake'
    BY <1>1, <1>2, <1>3, <2>1, <2>3 DEF Awake, Workers, Larger, TypeOK, Slots
  <2>6. k \in Asleep
    <3>1. k < limit
      BY <1>1, <2>3 DEF TypeOK, Slots
    <3> QED
      BY <2>2, <2>3, <3>1 DEF Asleep, Workers
  <2>7. Len(queue') = Len(queue) + 1
    BY <1>1 DEF Submit, TypeOK
  <2> QED
    BY <1>1, <2>4, <2>5, <2>6, <2>7, OneMore DEF TypeOK
<1> QED
  BY <1>4, <1>5

\* Taking a job uses up one of the workers that are awake for one of the jobs.
LEMMA TakeAwake ==
  ASSUME IInv, TypeOK', NEW i \in Slots, BGTake(i)
  PROVE  WorkersAwake'
<1>1. TypeOK /\ Placed /\ ExitHasNoLimit /\ WorkersAwake
  BY DEF IInv
<1>2. queue # <<>> /\ (~exiting => i < limit)
  BY <1>1, TakeHasJob
<1>3. pc[i] = "loop" /\ pc' = [pc EXCEPT ![i] = "running"] /\ limit' = limit /\ n' = n
  BY DEF BGTake
<1>4. CASE exiting
  BY <1>1, <1>3, <1>4, NobodyAsleep DEF ExitHasNoLimit, Asleep, Workers, Slots
<1>5. CASE ~exiting
  <2>1. i \in Awake
    BY <1>1, <1>2, <1>3, <1>5 DEF Placed, Awake, Workers
  <2>2. Awake' = Awake \ {i}
    BY <1>1, <1>3 DEF Awake, Workers, TypeOK
  <2>3. Asleep' # {} => Asleep # {}
    BY <1>1, <1>3 DEF Asleep, Workers, TypeOK
  <2>4. Len(queue') = Len(queue) - 1
    BY <1>1, <1>2 DEF BGTake, TypeOK
  <2> QED
    BY <1>1, <2>1, <2>2, <2>3, <2>4, OneLess DEF TypeOK
<1> QED
  BY <1>4, <1>5

-----------------------------------------------------------------------------
\* Every step keeps the wake-ups.
LEMMA AwakeStep == IInv /\ [Next]_vars => WorkersAwake'
<1> SUFFICES ASSUME IInv, [Next]_vars PROVE WorkersAwake'
  OBVIOUS
<1>a. TypeOK /\ Placed /\ ExitHasNoLimit /\ WorkersAwake /\ queue \in Seq(Items)
  BY DEF IInv, TypeOK
<1>b. TypeOK' /\ queue' \in Seq(Items)
  BY <1>a, TypeStep DEF TypeOK
<1>c. Len(queue) \in Nat
  BY <1>a
<1>1. ASSUME NEW num \in 0 .. MaxThreads, NEW r \in BOOLEAN, SetBackgroundThreads(num, r)
      PROVE  WorkersAwake'
  BY <1>1, NobodyAsleep DEF SetBackgroundThreads, StartBGThreads, WakeUpAllThreads, Asleep, Workers
<1>2. ASSUME NEW tag \in Tags, Submit(tag)
      PROVE  WorkersAwake'
  BY <1>2, <1>b, SubmitAwake
<1>3. ASSUME NEW tag \in Tags, UnSchedule(tag)
      PROVE  WorkersAwake'
  <2>1. Len(queue') <= Len(queue)
    BY <1>3, <1>a, Shorter DEF UnSchedule
  <2>2. Awake' = Awake /\ Asleep' = Asleep
    BY <1>3 DEF UnSchedule, Awake, Asleep, Workers
  <2> QED
    BY <1>a, <1>b, <2>1, <2>2, NoneLost
<1>4. ASSUME NEW i \in Slots, BGWait(i)
      PROVE  WorkersAwake'
  <2>1. pc' = [pc EXCEPT ![i] = "waiting"] /\ UNCHANGED <<limit, n, queue>>
    BY <1>4 DEF BGWait
  <2>2. CASE queue = <<>>
    <3>1. Len(queue') = 0
      BY <2>1, <2>2
    <3> QED
      BY <3>1, AwakeFiniteNext DEF WorkersAwake
  <2>3. CASE IsExcessiveThread(i)
    <3>1. i \notin Workers
      BY <1>a, <2>3 DEF Workers, IsExcessiveThread, TypeOK, Slots
    <3>2. Awake' = Awake /\ Asleep' = Asleep
      BY <1>a, <2>1, <3>1 DEF Awake, Asleep, Workers, TypeOK
    <3> QED
      BY <1>a, <1>b, <1>c, <2>1, <3>2, NoneLost
  <2> QED
    BY <1>4, <2>2, <2>3 DEF BGWait, KeepsWaiting
<1>5. ASSUME NEW i \in Slots, BGExit(i)
      PROVE  WorkersAwake'
  BY <1>5, <1>a, NobodyAsleep DEF BGExit, LeavesOnExit, ExitHasNoLimit, Asleep, Workers, Slots
<1>6. ASSUME NEW i \in Slots, BGTerminate(i)
      PROVE  WorkersAwake'
  <2>1. n > limit /\ i = n - 1 /\ n' = n - 1 /\ limit' = limit /\ queue' = queue
    BY <1>6 DEF BGTerminate, IsLastExcessiveThread, HasExcessiveThread
  <2>2. \A k \in Slots : k # i => pc'[k] = pc[k] \/ (pc[k] = "waiting" /\ pc'[k] = "loop")
    BY <1>6, <1>a DEF BGTerminate, WakeUpAllThreads, TypeOK
  <2>3. Workers' = Workers /\ i \notin Workers
    BY <1>a, <2>1 DEF Workers, TypeOK, Slots
  <2>4. Awake \subseteq Awake' /\ Asleep' \subseteq Asleep
    BY <2>2, <2>3 DEF Awake, Asleep, Workers
  <2> QED
    BY <1>a, <1>b, <1>c, <2>1, <2>4, NoneLost
<1>7. ASSUME NEW i \in Slots, BGTake(i)
      PROVE  WorkersAwake'
  BY <1>7, <1>b, TakeAwake
<1>8. ASSUME NEW i \in Slots, BGFinish(i)
      PROVE  WorkersAwake'
  <2>1. Awake \subseteq Awake' /\ Asleep' \subseteq Asleep /\ queue' = queue
    BY <1>8, <1>a DEF BGFinish, Awake, Asleep, Workers, TypeOK
  <2> QED
    BY <1>a, <1>b, <1>c, <2>1, NoneLost
<1>9. ASSUME NEW wait \in BOOLEAN, JoinThreads(wait)
      PROVE  WorkersAwake'
  BY <1>9, NobodyAsleep DEF JoinThreads, Asleep, Workers, Slots
<1>10. CASE JoinNotify
  BY <1>10, NobodyAsleep DEF JoinNotify, WakeUpAllThreads, Asleep, Workers
<1>11. CASE JoinClear
  BY <1>11, NobodyAsleep DEF JoinClear, Asleep, Workers
<1>12. CASE JoinNext \/ JoinDetached \/ JoinReset \/ UNCHANGED vars
  <2>1. UNCHANGED <<limit, n, pc, queue>>
    BY <1>12 DEF JoinNext, JoinDetached, JoinReset, vars
  <2> QED
    BY <1>a, <2>1 DEF WorkersAwake, Awake, Asleep, Workers
<1> QED
  BY <1>1, <1>2, <1>3, <1>4, <1>5, <1>6, <1>7, <1>8, <1>9, <1>10, <1>11, <1>12
     DEF Next, BGThread, JoinStep

\* Every reachable state satisfies the inductive invariant.
LEMMA Inductive == Spec => []IInv
<1>1. IInv /\ [Next]_vars => IInv'
  BY TypeStep, PlacedStep, AwakeStep DEF IInv
<1> QED
  BY InitIInv, <1>1, PTL DEF Spec

\* The fields of the pool and the locals of JoinThreads keep their types, for any
\* number of threads and jobs: the vector of threads stays within what was asked
\* for, and no thread takes a job from an empty queue.
THEOREM TypeCorrect == Spec => []TypeOK
BY Inductive, PTL DEF IInv

\* While a worker sleeps, there are as many awake on their way to the queue as it
\* has jobs: Submit's notify_one (threadpool_imp.cc:382) is enough, and neither
\* growing, shrinking nor joining the pool loses a wake-up.
THEOREM NoWakeupLost == Spec => []WorkersAwake
BY Inductive, PTL DEF IInv

=============================================================================
