----------------------------- MODULE ThreadPool -----------------------------
(***************************************************************************)
(* ThreadPoolImpl (util/threadpool_imp.cc), the pool of background threads *)
(* RocksDB schedules its flushes and compactions on.                       *)
(*                                                                         *)
(* Every section of the code that holds mu_ is one step.  bgthreads_ is a  *)
(* vector that only grows and shrinks at its end, and a thread's thread_id *)
(* is its index in it, so the vector is its length n and the thread of     *)
(* index i is the i-th entry of pc: "none" (not created, or detached),     *)
(* "loop" (about to take mu_ and evaluate the waiting condition),          *)
(* "waiting" (inside bgsignal_.wait), "running" (inside func()), "done"    *)
(* (left BGThread, not joined yet).  A job is a number, in the order of    *)
(* submission; its tag is what UnSchedule searches for.                    *)
(***************************************************************************)
EXTENDS Integers, Sequences, FiniteSets

CONSTANTS MaxThreads,  \* the largest number of threads ever asked for
          MaxJobs,     \* how many jobs are submitted
          Tags         \* the tags Schedule is called with

ASSUME PoolAssumption == MaxThreads \in Nat \ {0} /\ MaxJobs \in Nat

VARIABLES limit,      \* total_threads_limit_
          exiting,    \* exit_all_threads_
          waitJobs,   \* wait_for_jobs_to_complete_
          queue,      \* queue_: a sequence of [job, tag]
          n,          \* bgthreads_.size()
          pc,         \* what the thread of each index is doing
          job,        \* the job the thread of each index runs (0: none)
          jpc, jidx, jend,  \* the caller of JoinThreads: step, th, end()
          submitted   \* the number of jobs accepted so far

vars == <<limit, exiting, waitJobs, queue, n, pc, job, jpc, jidx, jend,
          submitted>>
joinVars == <<jpc, jidx, jend>>

Slots == 0 .. MaxThreads - 1
Jobs == 1 .. MaxJobs
Items == [job : Jobs, tag : Tags]

TypeOK ==
  /\ limit \in 0 .. MaxThreads /\ n \in 0 .. MaxThreads
  /\ exiting \in BOOLEAN /\ waitJobs \in BOOLEAN
  /\ queue \in Seq(Items)
  /\ pc \in [Slots -> {"none", "loop", "waiting", "running", "done"}]
  /\ job \in [Slots -> 0 .. MaxJobs]
  /\ jpc \in {"idle", "notify", "join", "clear", "reset", "terminated"}
  /\ jidx \in 0 .. MaxThreads /\ jend \in 0 .. MaxThreads
  /\ submitted \in 0 .. MaxJobs

Init ==
  /\ limit = 0 /\ n = 0 /\ exiting = FALSE /\ waitJobs = FALSE
  /\ queue = <<>> /\ submitted = 0
  /\ pc = [i \in Slots |-> "none"] /\ job = [i \in Slots |-> 0]
  /\ jpc = "idle" /\ jidx = 0 /\ jend = 0

HasExcessiveThread == n > limit
IsLastExcessiveThread(i) == HasExcessiveThread /\ i = n - 1
IsExcessiveThread(i) == i >= limit
Queued == {queue[k].job : k \in DOMAIN queue}

\* WakeUpAllThreads: bgsignal_.notify_all().
WakeUpAllThreads(p) ==
  [i \in Slots |-> IF p[i] = "waiting" THEN "loop" ELSE p[i]]

\* bgsignal_.notify_one(): one of the waiting threads, nobody if there is none.
NotifyOne(p) ==
  IF \A i \in Slots : p[i] # "waiting" THEN {p}
  ELSE {[p EXCEPT ![i] = "loop"] : i \in {s \in Slots : p[s] = "waiting"}}

\* StartBGThreads: creates threads up to the limit lim.
StartBGThreads(p, lim) ==
  [i \in Slots |-> IF n <= i /\ i < lim THEN "loop" ELSE p[i]]
Larger(a, b) == IF a > b THEN a ELSE b

\* SetBackgroundThreadsInternal, called by SetBackgroundThreads (allow_reduce)
\* and by IncBackgroundThreadsIfNeeded.
SetBackgroundThreads(num, allowReduce) ==
  /\ jpc # "terminated"
  /\ ~exiting
  /\ num > limit \/ (num < limit /\ allowReduce)
  /\ limit' = num
  /\ pc' = StartBGThreads(WakeUpAllThreads(pc), num)
  /\ n' = Larger(n, num)
  /\ UNCHANGED <<exiting, waitJobs, queue, job, joinVars, submitted>>

\* Mutants of SubmitWakes: one thread whatever the pool's size, or none.
SubmitWakesOne(p) == NotifyOne(p)
SubmitWakesNone(p) == {p}

\* Which threads a Submit wakes up.
SubmitWakes(p) ==
  IF HasExcessiveThread THEN {WakeUpAllThreads(p)} ELSE NotifyOne(p)

\* Submit, for SubmitJob and Schedule.
Submit(tag) ==
  /\ jpc # "terminated"
  /\ submitted < MaxJobs
  /\ ~exiting
  /\ submitted' = submitted + 1
  /\ queue' = Append(queue, [job |-> submitted + 1, tag |-> tag])
  /\ n' = Larger(n, limit)
  /\ pc' \in SubmitWakes(StartBGThreads(pc, limit))
  /\ UNCHANGED <<limit, exiting, waitJobs, job, joinVars>>

\* The queue without the jobs of a tag, the others in their order.
Without(tag) ==
  LET kept == {k \in DOMAIN queue : queue[k].tag # tag}
      size == Cardinality(kept)
      rising == {f \in [1 .. size -> kept] : \A a, b \in 1 .. size : a < b => f[a] < f[b]}
  IN  {[k \in 1 .. size |-> queue[f[k]]] : f \in rising}

\* UnSchedule: drops the queued jobs with this tag.
UnSchedule(tag) ==
  /\ jpc # "terminated"
  /\ \E k \in DOMAIN queue : queue[k].tag = tag
  /\ queue' \in Without(tag)
  /\ UNCHANGED <<limit, exiting, waitJobs, n, pc, job, joinVars, submitted>>

\* The loop of BGThread, one branch per action.  Its waiting condition:
KeepsWaiting(i) ==
  ~exiting /\ ~IsLastExcessiveThread(i) /\ (queue = <<>> \/ IsExcessiveThread(i))
LeavesOnExit == exiting /\ (~waitJobs \/ queue = <<>>)

BGWait(i) ==
  /\ jpc # "terminated"
  /\ pc[i] = "loop"
  /\ KeepsWaiting(i)
  /\ pc' = [pc EXCEPT ![i] = "waiting"]
  /\ UNCHANGED <<limit, exiting, waitJobs, queue, n, job, joinVars, submitted>>

BGExit(i) ==
  /\ jpc # "terminated"
  /\ pc[i] = "loop"
  /\ LeavesOnExit
  /\ pc' = [pc EXCEPT ![i] = "done"]
  /\ UNCHANGED <<limit, exiting, waitJobs, queue, n, job, joinVars, submitted>>

\* The last excessive thread detaches itself and wakes the next one up.
BGTerminate(i) ==
  /\ jpc # "terminated"
  /\ pc[i] = "loop"
  /\ ~LeavesOnExit
  /\ IsLastExcessiveThread(i)
  /\ n' = n - 1
  /\ LET p == [pc EXCEPT ![i] = "none"]
     IN  pc' = IF n' > limit THEN WakeUpAllThreads(p) ELSE p
  /\ UNCHANGED <<limit, exiting, waitJobs, queue, job, joinVars, submitted>>

\* It takes the first job; func() runs outside the mutex until BGFinish.
BGTake(i) ==
  /\ jpc # "terminated"
  /\ pc[i] = "loop"
  /\ ~KeepsWaiting(i) /\ ~LeavesOnExit /\ ~IsLastExcessiveThread(i)
  /\ pc' = [pc EXCEPT ![i] = "running"]
  /\ job' = [job EXCEPT ![i] = Head(queue).job]
  /\ queue' = Tail(queue)
  /\ UNCHANGED <<limit, exiting, waitJobs, n, joinVars, submitted>>

BGFinish(i) ==
  /\ jpc # "terminated"
  /\ pc[i] = "running"
  /\ pc' = [pc EXCEPT ![i] = "loop"]
  /\ job' = [job EXCEPT ![i] = 0]
  /\ UNCHANGED <<limit, exiting, waitJobs, queue, n, joinVars, submitted>>

\* JoinThreads, for JoinAllThreads (wait = FALSE) and
\* WaitForJobsAndJoinAllThreads.  Its first section holds mu_ ...
JoinThreads(wait) ==
  /\ jpc = "idle"
  /\ ~exiting
  /\ waitJobs' = wait /\ exiting' = TRUE /\ limit' = 0
  /\ jpc' = "notify"
  /\ UNCHANGED <<queue, n, pc, job, jidx, jend, submitted>>

\* Mutant of JoinNotify: nobody is notified.
JoinNotifyNobody ==
  /\ jpc = "notify"
  /\ jpc' = "join" /\ jidx' = 0 /\ jend' = n
  /\ UNCHANGED <<limit, exiting, waitJobs, queue, n, pc, job, submitted>>

\* ... the rest of it does not: notify_all, then the loop over bgthreads_,
\* whose end is read once.
JoinNotify ==
  /\ jpc = "notify"
  /\ pc' = WakeUpAllThreads(pc)
  /\ jpc' = "join" /\ jidx' = 0 /\ jend' = n
  /\ UNCHANGED <<limit, exiting, waitJobs, queue, n, job, submitted>>

JoinNext ==
  /\ jpc = "join" /\ jidx < jend
  /\ jidx < n /\ pc[jidx] = "done"
  /\ jidx' = jidx + 1
  /\ UNCHANGED <<limit, exiting, waitJobs, queue, n, pc, job, jpc, jend, submitted>>

\* join() of a thread that detached itself and left the vector: undefined.
\* The call returns, or throws and ends the process.
JoinDetached ==
  /\ jpc = "join" /\ jidx < jend
  /\ jidx >= n
  /\ \/ jidx' = jidx + 1 /\ jpc' = jpc
     \/ jidx' = jidx /\ jpc' = "terminated"
  /\ UNCHANGED <<limit, exiting, waitJobs, queue, n, pc, job, jend, submitted>>

JoinClear ==
  /\ jpc = "join" /\ jidx = jend
  /\ n' = 0
  /\ pc' = [i \in Slots |-> "none"]
  /\ jpc' = "reset"
  /\ UNCHANGED <<limit, exiting, waitJobs, queue, job, jidx, jend, submitted>>

JoinReset ==
  /\ jpc = "reset"
  /\ exiting' = FALSE /\ waitJobs' = FALSE
  /\ jpc' = "idle" /\ jidx' = 0 /\ jend' = 0
  /\ UNCHANGED <<limit, queue, n, pc, job, submitted>>

BGThread(i) == BGWait(i) \/ BGExit(i) \/ BGTerminate(i) \/ BGTake(i) \/ BGFinish(i)
JoinStep == JoinNotify \/ JoinNext \/ JoinDetached \/ JoinClear \/ JoinReset

Next ==
  \/ \E num \in 0 .. MaxThreads, r \in BOOLEAN : SetBackgroundThreads(num, r)
  \/ \E tag \in Tags : Submit(tag) \/ UnSchedule(tag)
  \/ \E i \in Slots : BGThread(i)
  \/ \E wait \in BOOLEAN : JoinThreads(wait)
  \/ JoinStep

Spec == Init /\ [][Next]_vars

\* Threads are scheduled, jobs end, and a caller of JoinThreads keeps running.
FairSpec ==
  /\ Spec
  /\ \A i \in Slots : WF_vars(BGThread(i))
  /\ WF_vars(JoinStep)

-----------------------------------------------------------------------------
\* The threads that are allowed to take a job.
Workers == {i \in Slots : i < n /\ i < limit}
Asleep == {i \in Workers : pc[i] = "waiting"}
Awake == {i \in Workers : pc[i] = "loop"}

\* No wake-up is lost: while a worker sleeps there are at least as many workers
\* on their way to the queue as there are jobs in it, although Submit notifies
\* one thread only and the pool may be growing or shrinking around it.
WorkersAwake == Asleep # {} => Len(queue) <= Cardinality(Awake)

\* A queued job is eventually taken by a thread, or unscheduled, unless the
\* pool is left with no threads or told to exit.
JobsRun ==
  \A j \in Jobs :
    (j \in Queued /\ limit > 0 /\ ~exiting)
      ~> (j \notin Queued \/ limit = 0 \/ exiting)

\* JoinThreads returns once the running jobs have ended (or its undefined
\* join ended the process).
JoinReturns == exiting ~> (~exiting \/ jpc = "terminated")

=============================================================================
