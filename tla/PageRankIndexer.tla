--------------------------- MODULE PageRankIndexer ---------------------------
(***************************************************************************)
(* PageRankIndexer: Initialize and index_ranks.                            *)
(*                                                                         *)
(*   PageRankIndex  pageID -> rank   (db/PageRankIndex)                    *)
(*                                                                         *)
(* Every page starts with rank 1.  In each round the pages that have       *)
(* parents get 0.15 + 0.85 * (sum over the parents of rank / number of     *)
(* children), one after the other and in place.  convergenum counts, over  *)
(* all rounds, the updates that changed nothing; the round in which it     *)
(* reaches the number of pages with parents is the last.                   *)
(*                                                                         *)
(* A rank is a fixed-point number with Scale for 1.  As with a double,     *)
(* results are rounded, and a sum that is too large is Infinity, which is  *)
(* equal to itself.                                                        *)
(***************************************************************************)
EXTENDS RocksDB, Sequences, Functions

CONSTANTS Scale, Infinity

VARIABLES invertedDocument, db, dbinverted,  \* read only, see ParentChildIndexer
          PageRankIndex,                     \* persistent
          order,              \* the iterator: the keys of dbinverted in their order
          n,                  \* how many of them the round has done
          convergenum, Converge,
          pc

linkdbs == <<invertedDocument, db, dbinverted>>
loop == <<order, n, convergenum, Converge>>
vars == <<linkdbs, PageRankIndex, loop, pc>>

Init ==
  /\ PageRankIndex = EmptyDB
  /\ order = <<>> /\ n = 0 /\ convergenum = 0 /\ Converge = FALSE
  /\ pc = "idle"

\* Initialize(): rank 1 for each key of invertedDocument.  A kill half way leaves
\* nothing that the next Initialize does not overwrite.
Initialize ==
  /\ pc = "idle"
  /\ PageRankIndex' = [p \in DOMAIN PageRankIndex \cup DOMAIN invertedDocument |->
                         IF p \in DOMAIN invertedDocument THEN Scale ELSE PageRankIndex[p]]
  /\ pc' = "initialized"
  /\ UNCHANGED <<linkdbs, loop>>

\* The number of keys of dbinverted, counted by index_ranks.
total == Count(dbinverted)

IndexRanks ==
  /\ pc = "initialized"
  /\ order' \in Bijection(1..total, DOMAIN dbinverted)
  /\ pc' = "rank"
  /\ UNCHANGED <<linkdbs, PageRankIndex, n, convergenum, Converge>>

\* Mutant of computePageRank: the division is missing.
computePageRankWhole(p) == PageRankIndex[p]

\* rank / Child.length, when there is a rank and a list of children.
computePageRank(p) ==
  IF PageRankIndex[p] = Infinity THEN Infinity ELSE PageRankIndex[p] \div Len(db[p])

\* 0.15 + 0.85 * rank
Damped(sum) ==
  LET r == (15 * Scale + 85 * sum) \div 100
  IN IF sum >= Infinity \/ r >= Infinity THEN Infinity ELSE r

NewRank(c) == Damped(FoldFunction(LAMBDA p, sum : sum + computePageRank(p), 0, dbinverted[c]))

\* No get on the way to the new rank of page c returns null.
Computable(c) ==
  /\ Has(PageRankIndex, c)
  /\ \A p \in Range(dbinverted[c]) : Has(PageRankIndex, p) /\ Has(db, p)

\* Mutant of Update: the ranks are compared as objects.
UpdateNeverEqual ==
  /\ pc = "rank" /\ n < Len(order) /\ Computable(order[n + 1])
  /\ PageRankIndex' = Put(PageRankIndex, order[n + 1], NewRank(order[n + 1]))
  /\ n' = n + 1
  /\ UNCHANGED <<linkdbs, order, convergenum, Converge, pc>>

\* One round of the inner loop.
Update ==
  /\ pc = "rank" /\ n < Len(order) /\ Computable(order[n + 1])
  /\ LET c == order[n + 1]
         same == NewRank(c) = PageRankIndex[c]
     IN /\ convergenum' = IF same THEN convergenum + 1 ELSE convergenum
        /\ Converge' = (Converge \/ (same /\ convergenum' = total))
        /\ PageRankIndex' = Put(PageRankIndex, c, NewRank(c))
  /\ n' = n + 1
  /\ UNCHANGED <<linkdbs, order, pc>>

\* new String(null): a NullPointerException that nobody catches.
Throw ==
  /\ pc = "rank" /\ n < Len(order) /\ ~Computable(order[n + 1])
  /\ pc' = "thrown"
  /\ UNCHANGED <<linkdbs, PageRankIndex, loop>>

\* while(Converge == false)
EndRound ==
  /\ pc = "rank" /\ n = Len(order)
  /\ IF Converge THEN pc' = "done" /\ UNCHANGED n
                 ELSE n' = 0 /\ UNCHANGED pc
  /\ UNCHANGED <<linkdbs, PageRankIndex, order, convergenum, Converge>>

\* The JVM is killed; the ranks survive.
Kill ==
  /\ pc \in {"initialized", "rank"}
  /\ order' = <<>> /\ n' = 0 /\ convergenum' = 0 /\ Converge' = FALSE
  /\ pc' = "idle"
  /\ UNCHANGED <<linkdbs, PageRankIndex>>

Step == Initialize \/ IndexRanks \/ Update \/ Throw \/ EndRound

-----------------------------------------------------------------------------
\* How often page p stands in the lists of parents.
Mentions(p) ==
  SumFunction([c \in DOMAIN dbinverted |-> Len(SelectSeq(dbinverted[c], LAMBDA q : q = p))])

\* If every parent is listed at most as often as it has children, it gives away
\* at most its own rank, and the factor 0.85 keeps all ranks finite; only
\* databases that reruns and kills have left with more lists grow to Infinity.
FiniteWhenMirrored ==
  (\A p \in DOMAIN db : Mentions(p) <= Len(db[p])) =>
    \A p \in DOMAIN PageRankIndex : PageRankIndex[p] < Infinity

\* index_ranks ends, by convergence, at Infinity or with an exception, unless no
\* page has a parent: then total is 0 and the loop has no way out.
EndsUnlessEmpty ==
  (pc = "rank" /\ dbinverted # EmptyDB) ~> (pc # "rank")

=============================================================================
