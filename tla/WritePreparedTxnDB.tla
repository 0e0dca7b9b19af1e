------------------------- MODULE WritePreparedTxnDB -------------------------
(***************************************************************************)
(* How WritePrepared transactions decide what a snapshot sees              *)
(* (utilities/transactions/write_prepared_txn_db.{h,cc}, with one write    *)
(* queue).  Values are written with the sequence number of their Prepare,  *)
(* so a reader has to find out, without a lock over the whole, whether     *)
(* that number was committed before its snapshot: commit_cache_ has one    *)
(* entry per index and forgets the older one, max_evicted_seq_ says up to  *)
(* where it may have forgotten, and delayed_prepared_, old_commit_map_ and *)
(* the list of snapshots make up for what was forgotten.                   *)
(*                                                                         *)
(* The writers are one process w, the queue: it runs one callback after    *)
(* the other and publishes the numbers at the end of a group.  A reader    *)
(* takes a snapshot (or reads without one), asks IsInSnapshot, and         *)
(* releases it.  Each access to an atomic and each section of a mutex is a *)
(* step.                                                                   *)
(***************************************************************************)
EXTENDS Integers, FiniteSets, Sequences, FiniteSetsExt, SequencesExt

CONSTANTS Txns,               \* transactions
          Readers,            \* reading threads
          Asking,             \* those of them that read, the others hold snapshots
          NoTxn,              \* no transaction
          COMMIT_CACHE_SIZE, SNAPSHOT_CACHE_SIZE, INC_STEP_FOR_MAX_EVICTED,
          Loads,              \* bounds: what a behaviour is made of
          MaxSeq              \* bound on sequence numbers

ASSUME LoadsAssumption ==
  \A o \in Loads : /\ o.txns \in Nat             \* transactions that prepare
                   /\ o.readers \subseteq Readers
                   /\ o.backed \subseteq BOOLEAN  \* whether they read with a snapshot
                   /\ o.datas \subseteq BOOLEAN   \* whether a commit writes data of its own
                   /\ o.seq \in 0..MaxSeq         \* numbers given
                   /\ o.crashes \in Nat
ASSUME SizesPositive == /\ COMMIT_CACHE_SIZE \in Nat \ {0}
                        /\ SNAPSHOT_CACHE_SIZE \in Nat \ {0}
                        /\ INC_STEP_FOR_MAX_EVICTED \in Nat
                        /\ MaxSeq \in Nat /\ Asking \subseteq Readers

VARIABLES load,
          last, published,      \* numbers given, numbers readers may use
          commit_cache,         \* index -> entry
          future_max, max_evicted,
          heap, erased,         \* prepared_txns_: heap_ and erased_heap_
          delayed, delayed_commits, delayed_empty,
          snapshots,            \* snapshot_cache_ followed by snapshots_
          old_commit_map, old_empty,
          w,                    \* the callback the queue is in
          state, prep,          \* of each transaction
          rd,                   \* each reader
          committed,            \* history: prepare number -> commit number
          crashes

db == <<commit_cache, future_max, max_evicted, heap, erased, delayed,
        delayed_commits, delayed_empty, snapshots, old_commit_map, old_empty>>
txns == <<state, prep>>
history == <<load, committed, crashes>>
vars == <<last, published, db, w, txns, rd, history>>

Seqs == 1..MaxSeq
kMax == MaxSeq + 1              \* kMaxSequenceNumber
NoEntry == [prep |-> 0, commit |-> 0]
NoMap == [s \in {} |-> {}]
Idle == [pc |-> "idle", todo |-> <<>>, c |-> 0, ev |-> NoEntry, max |-> 0,
         list |-> <<>>, lock |-> FALSE]
Away == [pc |-> "idle", backed |-> TRUE, next |-> 0, min |-> 0, snap |-> 0,
         adv |-> NoTxn, p |-> 0, lb |-> 0, ub |-> 0, was_empty |-> TRUE,
         res |-> TRUE, released |-> FALSE]

\* The smallest prepared number, kMax if there is none.
top == IF heap = <<>> THEN kMax ELSE Head(heap)

\* The numbers at which data was written.
Written == {p \in Seqs : committed[p] > 0} \cup {prep[t] : t \in {u \in Txns : state[u] = "prepared"}}

\* A thread that reads under prepared_mutex_.
ReadLocked == \E r \in Readers : rd[r].pc \in {"get2", "ub2"}
WriteLockFree == ~w.lock /\ ~ReadLocked

Init ==
  /\ load \in Loads
  /\ last = 0 /\ published = 0
  /\ commit_cache = [i \in 0..COMMIT_CACHE_SIZE - 1 |-> NoEntry]
  /\ future_max = 0 /\ max_evicted = 0
  /\ heap = <<>> /\ erased = {}
  /\ delayed = {} /\ delayed_commits = NoMap /\ delayed_empty = TRUE
  /\ snapshots = <<>> /\ old_commit_map = NoMap /\ old_empty = TRUE
  /\ w = Idle
  /\ state = [t \in Txns |-> "idle"] /\ prep = [t \in Txns |-> 0]
  /\ rd = [r \in Readers |-> Away]
  /\ committed = [p \in Seqs |-> 0]
  /\ crashes = 0

----------------------------------------------------------------------------
(* PreparedHeap. *)

\* What is left of h and e once h lost its first entry: entries erased
\* before they got to the front go with it.
Popped(h, e) ==
  LET rest == Tail(h)
      k == CHOOSE n \in 0..Len(rest) :
             /\ \A i \in 1..n : rest[i] \in e
             /\ n < Len(rest) => rest[n + 1] \notin e
      left == SubSeq(rest, k + 1, Len(rest))
  IN [heap |-> left,
      erased |-> IF left = <<>> THEN {} ELSE {s \in e : s > Head(left)}]

\* PreparedHeap::erase.
Erased(seq) ==
  IF top = kMax \/ seq < top THEN [heap |-> heap, erased |-> erased]
  ELSE IF seq = top THEN Popped(heap, erased)
  ELSE [heap |-> heap, erased |-> erased \cup {seq}]

----------------------------------------------------------------------------
(* The write queue. *)

\* Prepare: AddPreparedCallback, AddPrepared.  With one queue seq is larger
\* than future_max_evicted_seq_ (PreparedTracked), so the entry never has to
\* be moved on at once.
Prepare(t) ==
  /\ w.pc = "idle" /\ state[t] = "idle" /\ last < load.seq
  /\ Cardinality({u \in Txns : state[u] # "idle"}) < load.txns
  /\ last' = last + 1
  /\ heap' = Append(heap, last')
  /\ prep' = [prep EXCEPT ![t] = last'] /\ state' = [state EXCEPT ![t] = "prepared"]
  /\ UNCHANGED <<published, commit_cache, future_max, max_evicted, erased, delayed,
                 delayed_commits, delayed_empty, snapshots, old_commit_map,
                 old_empty, w, rd, history>>

\* The callback of a write gets the number c and adds the entries of todo.
Start(ps) ==
  /\ w.pc = "idle" /\ last < load.seq
  /\ last' = last + 1
  /\ w' = [Idle EXCEPT !.pc = "get", !.todo = ps, !.c = last']
  /\ committed' = [p \in Seqs |-> IF p \in ToSet(ps) THEN last' ELSE committed[p]]
  /\ UNCHANGED <<published, db, rd, load, crashes>>

\* CommitInternal and RollbackInternal: a rollback, or a commit with a batch
\* of its own, also adds an entry for the data it writes.
Commit(t) ==
  /\ state[t] = "prepared"
  /\ \E data \in load.datas : Start(IF data THEN <<prep[t], last + 1>> ELSE <<prep[t]>>)
  /\ state' = [state EXCEPT ![t] = "committed"] /\ UNCHANGED prep

\* WriteInternal: a write without prepare.
Write == Start(<<last + 1>>) /\ UNCHANGED txns

Goto(pc) == w' = [w EXCEPT !.pc = pc]

\* AddCommitted looks at the entry it is going to replace.
GetEntry ==
  /\ w.pc = "get"
  /\ LET ev == commit_cache[Head(w.todo) % COMMIT_CACHE_SIZE]
         max == IF ev.commit < published
                THEN Min({ev.commit + INC_STEP_FOR_MAX_EVICTED, published - 1})
                ELSE ev.commit
     IN w' = IF ev = NoEntry THEN [w EXCEPT !.pc = "put"]
             ELSE IF max_evicted < ev.commit
                  THEN [w EXCEPT !.pc = "future", !.ev = ev, !.max = max]
                  ELSE [w EXCEPT !.pc = "check", !.ev = ev]
  /\ UNCHANGED <<last, published, db, txns, rd, history>>

\* AdvanceMaxEvictedSeq declares its intention ...
DeclareMax ==
  /\ w.pc = "future"
  /\ future_max' = Max({future_max, w.max})
  /\ Goto("delay")
  /\ UNCHANGED <<last, published, commit_cache, max_evicted, heap, erased, delayed,
                 delayed_commits, delayed_empty, snapshots, old_commit_map,
                 old_empty, txns, rd, history>>

\* Mutant of Behind: the entry at the new maximum stays.
BehindStrictly == top < w.max
\* An entry that the new maximum reaches.
Behind == top <= w.max

\* ... CheckPreparedAgainstMax copies an entry to delayed_prepared_ ...
Delay ==
  /\ w.pc = "delay" /\ Behind
  /\ w.lock \/ WriteLockFree
  /\ delayed' = delayed \cup {top} /\ delayed_empty' = FALSE
  /\ w' = [w EXCEPT !.pc = "pop", !.lock = TRUE]
  /\ UNCHANGED <<last, published, commit_cache, future_max, max_evicted, heap, erased,
                 delayed_commits, snapshots, old_commit_map, old_empty, txns, rd,
                 history>>

\* ... and removes it from prepared_txns_ ...
Pop ==
  /\ w.pc = "pop"
  /\ LET left == Popped(heap, erased)
     IN heap' = left.heap /\ erased' = left.erased
  /\ Goto("delay")
  /\ UNCHANGED <<last, published, commit_cache, future_max, max_evicted, delayed,
                 delayed_commits, delayed_empty, snapshots, old_commit_map,
                 old_empty, txns, rd, history>>

\* The threads that have a snapshot in the list of the DB.
Holders == {r \in Readers : rd[r].backed /\ rd[r].pc \notin
              {"idle", "top", "empty", "delayed", "snap", "advance"}}

\* ... GetSnapshotListFromDB returns the snapshots up to the new maximum,
\* in order ...
GetList ==
  /\ w.pc = "delay" /\ ~Behind
  /\ LET below == {r \in Holders : rd[r].snap <= w.max}
         order == SetToSortSeq(below, LAMBDA a, b : rd[a].snap < rd[b].snap)
     IN w' = [w EXCEPT !.pc = "update", !.lock = FALSE,
                       !.list = [i \in 1..Len(order) |-> rd[order[i]].snap]]
  /\ UNCHANGED <<last, published, db, txns, rd, history>>

\* ... UpdateSnapshots stores the list, and CleanupReleasedSnapshots drops
\* what was kept for snapshots no longer in it ...
UpdateSnapshots ==
  /\ w.pc = "update"
  /\ snapshots' = w.list
  /\ LET gone == {s \in ToSet(snapshots) \ ToSet(w.list) : s <= max_evicted}
         gc == gone \cap DOMAIN old_commit_map
     IN /\ old_commit_map' = [s \in DOMAIN old_commit_map \ gc |-> old_commit_map[s]]
        /\ old_empty' = IF gc = {} THEN old_empty ELSE DOMAIN old_commit_map = gc
  /\ Goto("note")
  /\ UNCHANGED <<last, published, commit_cache, future_max, max_evicted, heap, erased,
                 delayed, delayed_commits, delayed_empty, txns, rd, history>>

Kept(map, s) == IF s \in DOMAIN map THEN map[s] ELSE {}

\* ... every snapshot of the list gets a set in old_commit_map_ ...
NoteSnapshots ==
  /\ w.pc = "note"
  /\ old_commit_map' = [s \in DOMAIN old_commit_map \cup ToSet(w.list) |->
                          Kept(old_commit_map, s)]
  /\ old_empty' = (old_empty /\ w.list = <<>>)
  /\ Goto("max")
  /\ UNCHANGED <<last, published, commit_cache, future_max, max_evicted, heap, erased,
                 delayed, delayed_commits, delayed_empty, snapshots, txns, rd,
                 history>>

\* ... and max_evicted_seq_ moves.
SetMax ==
  /\ w.pc = "max"
  /\ max_evicted' = Max({max_evicted, w.max})
  /\ w' = [w EXCEPT !.pc = "check", !.max = 0, !.list = <<>>]
  /\ UNCHANGED <<last, published, commit_cache, future_max, heap, erased, delayed,
                 delayed_commits, delayed_empty, snapshots, old_commit_map,
                 old_empty, txns, rd, history>>

\* MaybeUpdateOldCommitMap keeps an entry for a snapshot between its numbers.
Overlaps(ev, s) == ev.prep <= s /\ s < ev.commit

\* The snapshots for which CheckAgainstSnapshots keeps ev: the cached ones
\* from the largest down to the first below prep, and, if the largest of them
\* is below commit, all from the smallest up to the first not below commit.
Affected(ev) ==
  LET cnt == Len(snapshots)
      n == Min({cnt, SNAPSHOT_CACHE_SIZE})
      Down == {i \in 1..n : \A j \in i..n : ev.prep <= snapshots[j]}
      Up(a, b) == {i \in a..b : \A j \in a..i : snapshots[j] < ev.commit}
      larger == n < cnt /\ snapshots[n] < ev.commit
      visited == Down \cup (IF larger THEN Up(1, n) \cup Up(n + 1, cnt) ELSE {})
  IN {s \in {snapshots[i] : i \in visited} : Overlaps(ev, s)}

Check ==
  /\ w.pc = "check"
  /\ LET S == Affected(w.ev)
     IN /\ old_commit_map' = [s \in DOMAIN old_commit_map \cup S |->
              Kept(old_commit_map, s) \cup (IF s \in S THEN {w.ev.prep} ELSE {})]
        /\ old_empty' = (old_empty /\ S = {})
  /\ Goto("late")
  /\ UNCHANGED <<last, published, commit_cache, future_max, max_evicted, heap, erased,
                 delayed, delayed_commits, delayed_empty, snapshots, txns, rd,
                 history>>

\* A delayed transaction that is committed, and not yet removed, keeps its
\* commit number in delayed_prepared_commits_.
Late ==
  /\ w.pc = "late"
  /\ delayed_empty \/ WriteLockFree
  /\ delayed_commits' = IF ~delayed_empty /\ w.ev.prep \in delayed
                        THEN [s \in DOMAIN delayed_commits \cup {w.ev.prep} |->
                               IF s = w.ev.prep THEN w.ev.commit ELSE delayed_commits[s]]
                        ELSE delayed_commits
  /\ w' = [w EXCEPT !.pc = "put", !.ev = NoEntry]
  /\ UNCHANGED <<last, published, commit_cache, future_max, max_evicted, heap, erased,
                 delayed, delayed_empty, snapshots, old_commit_map, old_empty,
                 txns, rd, history>>

\* ExchangeCommitEntry; with one queue the entry has not changed meanwhile.
PutEntry ==
  /\ w.pc = "put"
  /\ commit_cache' = [commit_cache EXCEPT ![Head(w.todo) % COMMIT_CACHE_SIZE] =
                        [prep |-> Head(w.todo), commit |-> w.c]]
  /\ w' = IF Len(w.todo) = 1 THEN Idle
          ELSE [Idle EXCEPT !.pc = "get", !.todo = Tail(w.todo), !.c = w.c]
  /\ UNCHANGED <<last, published, future_max, max_evicted, heap, erased, delayed,
                 delayed_commits, delayed_empty, snapshots, old_commit_map,
                 old_empty, txns, rd, history>>

\* The end of a group of writes: its numbers become visible.
Publish ==
  /\ w.pc = "idle" /\ published < last
  /\ published' = last
  /\ UNCHANGED <<last, db, w, txns, rd, history>>

\* Back from WriteImpl, CommitInternal and RollbackInternal call
\* RemovePrepared.
RemovePrepared(t) ==
  /\ state[t] = "committed" /\ published >= committed[prep[t]] /\ WriteLockFree
  /\ LET left == Erased(prep[t])
     IN heap' = left.heap /\ erased' = left.erased
  /\ delayed' = delayed \ {prep[t]}
  /\ delayed_commits' = [s \in DOMAIN delayed_commits \ {prep[t]} |-> delayed_commits[s]]
  /\ delayed_empty' = IF delayed = {} THEN delayed_empty ELSE delayed' = {}
  /\ state' = [state EXCEPT ![t] = "done"] /\ prep' = [prep EXCEPT ![t] = 0]
  /\ UNCHANGED <<last, published, commit_cache, future_max, max_evicted, snapshots,
                 old_commit_map, old_empty, w, rd, history>>

\* The process dies and Initialize runs: the transactions that are prepared
\* and not committed are found in the log, all numbers so far are taken for
\* evicted, and there is a gap before the next snapshot.
Recover ==
  /\ crashes < load.crashes /\ last > 0 /\ last < load.seq
  /\ crashes' = crashes + 1
  /\ state' = [t \in Txns |-> IF state[t] = "committed" THEN "done" ELSE state[t]]
  /\ prep' = [t \in Txns |-> IF state[t] = "committed" THEN 0 ELSE prep[t]]
  /\ LET left == {prep[t] : t \in {u \in Txns : state[u] = "prepared"}}
     IN delayed' = left /\ delayed_empty' = (left = {})
  /\ commit_cache' = [i \in 0..COMMIT_CACHE_SIZE - 1 |-> NoEntry]
  /\ future_max' = last /\ max_evicted' = last
  /\ heap' = <<>> /\ erased' = {} /\ delayed_commits' = NoMap
  /\ snapshots' = <<>> /\ old_commit_map' = NoMap /\ old_empty' = TRUE
  /\ last' = last + 1 /\ published' = last'
  /\ w' = Idle /\ rd' = [r \in Readers |-> Away]
  /\ UNCHANGED <<load, committed>>

----------------------------------------------------------------------------
(* Snapshots. *)

Reads(r, rec) ==
  /\ rd' = [rd EXCEPT ![r] = rec]
  /\ UNCHANGED <<last, published, db, w, txns, history>>

\* SmallestUnCommittedSeq, for GetSnapshotInternal (backed) or for a read
\* without snapshot: the last number first (who never reads has no use for the
\* result) ...
ReadLast(r) ==
  /\ rd[r].pc = "idle"
  /\ \E backed \in load.backed :
       Reads(r, IF r \in Asking
                THEN [rd[r] EXCEPT !.pc = "top", !.next = published + 1, !.backed = backed]
                ELSE [rd[r] EXCEPT !.pc = "snap"])

\* ... then prepared_txns_ ...
ReadTop(r) ==
  /\ rd[r].pc = "top"
  /\ Reads(r, [rd[r] EXCEPT !.pc = "empty", !.min = Min({top, rd[r].next})])

\* ... then delayed_prepared_empty_ ...
ReadEmpty(r) ==
  /\ rd[r].pc = "empty"
  /\ Reads(r, [rd[r] EXCEPT !.pc = IF delayed_empty THEN "snap" ELSE "delayed", !.next = 0])

\* ... and delayed_prepared_ if needed.
ReadDelayed(r) ==
  /\ rd[r].pc = "delayed" /\ ~w.lock
  /\ Reads(r, [rd[r] EXCEPT !.pc = "snap",
                            !.min = IF delayed = {} THEN rd[r].min ELSE Min(delayed)])

\* GetSnapshotImpl enters the snapshot in the list of the DB; a read without
\* snapshot takes the number only.
TakeSnapshot(r) ==
  /\ rd[r].pc = "snap"
  /\ Reads(r, [rd[r] EXCEPT !.pc = IF rd[r].backed THEN "verify" ELSE "hold",
                            !.snap = published])

\* A snapshot not above future_max_evicted_seq_ is given back, and the thread
\* runs an empty transaction to move the numbers on (AdvanceSeqByOne).
Verify(r) ==
  /\ rd[r].pc = "verify"
  /\ IF rd[r].snap # 0 /\ rd[r].snap <= future_max
     THEN \E t \in {u \in Txns : state[u] = "idle"} :
            Reads(r, [rd[r] EXCEPT !.pc = "advance", !.snap = 0, !.adv = t])
     ELSE Reads(r, [rd[r] EXCEPT !.pc = "hold"])

Advanced(r) ==
  /\ rd[r].pc = "advance" /\ state[rd[r].adv] = "done"
  /\ Reads(r, [rd[r] EXCEPT !.pc = "snap", !.adv = NoTxn])

\* ReleaseSnapshot takes it off the list of the DB.
Release(r) == rd[r].pc = "hold" /\ Reads(r, Away)

----------------------------------------------------------------------------
(* IsInSnapshot. *)

Answer(r, b) == Reads(r, [rd[r] EXCEPT !.pc = "done", !.res = b, !.lb = 0, !.ub = 0,
                                       !.was_empty = TRUE])

\* What can be told from the numbers alone.
Ask(r) ==
  /\ rd[r].pc = "hold" /\ r \in Asking
  /\ \E p \in Written :
       Reads(r, IF rd[r].snap < p THEN [rd[r] EXCEPT !.pc = "done", !.p = p, !.res = FALSE]
                ELSE IF p < rd[r].min THEN [rd[r] EXCEPT !.pc = "done", !.p = p, !.res = TRUE]
                ELSE [rd[r] EXCEPT !.pc = "lb", !.p = p])

LoadMax(r) ==
  /\ rd[r].pc = "lb"
  /\ Reads(r, [rd[r] EXCEPT !.pc = "was_empty", !.lb = max_evicted])

LoadEmpty(r) ==
  /\ rd[r].pc = "was_empty"
  /\ Reads(r, [rd[r] EXCEPT !.pc = "get", !.was_empty = delayed_empty])

Cached(r) == commit_cache[rd[r].p % COMMIT_CACHE_SIZE]

GetCommitEntry(r) ==
  /\ rd[r].pc = "get"
  /\ IF Cached(r).prep = rd[r].p
     THEN Answer(r, Cached(r).commit <= rd[r].snap)
     ELSE Reads(r, [rd[r] EXCEPT !.pc = "ub"])

\* A maximum that has moved meanwhile starts the loop again.
ReloadMax(r) ==
  /\ rd[r].pc = "ub"
  /\ IF max_evicted # rd[r].lb THEN Reads(r, [rd[r] EXCEPT !.pc = "lb"])
     ELSE IF max_evicted < rd[r].p THEN Answer(r, FALSE)
     ELSE Reads(r, [rd[r] EXCEPT !.pc = IF rd[r].was_empty THEN "old" ELSE "find",
                                 !.ub = max_evicted])

\* Mutant of FindDelayed: the commit cache is not looked at again.
FindDelayedOnce(r) ==
  /\ rd[r].pc = "find" /\ ~w.lock
  /\ IF rd[r].p \in delayed
     THEN Answer(r, rd[r].p \in DOMAIN delayed_commits /\ delayed_commits[rd[r].p] <= rd[r].snap)
     ELSE Reads(r, [rd[r] EXCEPT !.pc = "old"])
\* delayed_prepared_ under its lock; a transaction found there is committed
\* if it has a commit number.
FindDelayed(r) ==
  /\ rd[r].pc = "find" /\ ~w.lock
  /\ IF rd[r].p \in delayed
     THEN Answer(r, rd[r].p \in DOMAIN delayed_commits /\ delayed_commits[rd[r].p] <= rd[r].snap)
     ELSE Reads(r, [rd[r] EXCEPT !.pc = "get2"])

\* The second look at the commit cache.
GetAgain(r) ==
  /\ rd[r].pc = "get2"
  /\ IF Cached(r).prep = rd[r].p
     THEN Answer(r, Cached(r).commit <= rd[r].snap)
     ELSE Reads(r, [rd[r] EXCEPT !.pc = "ub2"])

ReloadAgain(r) ==
  /\ rd[r].pc = "ub2"
  /\ Reads(r, [rd[r] EXCEPT !.pc = IF max_evicted = rd[r].lb THEN "old" ELSE "lb"])

\* A snapshot above the maximum is later than all that was evicted.
\* Otherwise old_commit_map_ is asked; a snapshot it does not know was
\* released.
LoadOld(r) ==
  /\ rd[r].pc = "old"
  /\ IF rd[r].ub < rd[r].snap THEN Answer(r, TRUE)
     ELSE IF old_empty
          THEN Reads(r, [rd[r] EXCEPT !.pc = "done", !.res = TRUE, !.released = TRUE])
          ELSE Reads(r, [rd[r] EXCEPT !.pc = "map"])

FindOld(r) ==
  /\ rd[r].pc = "map"
  /\ IF rd[r].snap \in DOMAIN old_commit_map
     THEN Answer(r, rd[r].p \notin old_commit_map[rd[r].snap])
     ELSE Reads(r, [rd[r] EXCEPT !.pc = "done", !.res = TRUE, !.released = TRUE])

\* Get: a read without snapshot is only good if no answer was marked and the
\* maximum is still below its number (ValidateSnapshot); otherwise TryAgain.
Valid(r) ==
  rd[r].backed \/ (~rd[r].released /\ (rd[r].snap = 0 \/ rd[r].snap > max_evicted))

Return(r) ==
  /\ rd[r].pc = "done"
  /\ Reads(r, IF rd[r].backed
              THEN [Away EXCEPT !.pc = "hold", !.snap = rd[r].snap, !.min = rd[r].min]
              ELSE Away)

ReaderStep(r) ==
  \/ ReadLast(r) \/ ReadTop(r) \/ ReadEmpty(r) \/ ReadDelayed(r) \/ TakeSnapshot(r)
  \/ Verify(r) \/ Advanced(r) \/ Release(r) \/ Ask(r) \/ LoadMax(r) \/ LoadEmpty(r)
  \/ GetCommitEntry(r) \/ ReloadMax(r) \/ FindDelayed(r) \/ GetAgain(r) \/ ReloadAgain(r)
  \/ LoadOld(r) \/ FindOld(r) \/ Return(r)

Queue == \/ GetEntry \/ DeclareMax \/ Delay \/ Pop \/ GetList \/ UpdateSnapshots
         \/ NoteSnapshots \/ SetMax \/ Check \/ Late \/ PutEntry \/ Publish

Next == \/ \E t \in Txns : Prepare(t) \/ Commit(t) \/ RemovePrepared(t)
        \/ Write \/ Queue \/ Recover
        \/ \E r \in load.readers : ReaderStep(r)

Spec == Init /\ [][Next]_vars

----------------------------------------------------------------------------
(* Properties. *)

\* IsInSnapshot (.h 108-112 "Returns true if commit_seq <= snapshot_seq"): in
\* whatever way commits, evictions, releases and cleanups come between its
\* steps, an answer a reader may use is that of the commit numbers, and a
\* snapshot that is held is never taken for released (.h 828).
Visible(p, snap) == committed[p] > 0 /\ committed[p] <= snap
VisibilityExact ==
  \A r \in Readers : rd[r].pc = "done" /\ Valid(r) =>
     /\ rd[r].res = Visible(rd[r].p, rd[r].snap)
     /\ rd[r].backed => ~rd[r].released

\* A prepared number is found by those who look for it: it is in the heap, or
\* in delayed_prepared_ with the flag down; once max_evicted_seq_ has passed
\* it, it is in delayed_prepared_.  New numbers are above
\* future_max_evicted_seq_ (.cc 456-466).
PreparedTracked ==
  /\ \A t \in Txns : state[t] = "prepared" =>
       /\ \/ prep[t] \in ToSet(heap) \ erased
          \/ prep[t] \in delayed /\ ~delayed_empty
       /\ prep[t] <= max_evicted => prep[t] \in delayed
  /\ future_max <= last

=============================================================================
