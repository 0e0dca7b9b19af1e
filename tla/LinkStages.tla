----------------------------- MODULE LinkStages -----------------------------
(***************************************************************************)
(* The last two stages of the program: ParentChildIndexer.index_pages, and *)
(* then PageRankIndexer.Initialize and index_ranks on what it, and the     *)
(* runs of the program before, have left.  A kill of either stage starts   *)
(* the program again.                                                      *)
(***************************************************************************)
EXTENDS ParentChildIndexer

CONSTANTS Scale, Infinity  \* rank 1, and what is too large for a rank

ASSUME RankAssumption == Scale \in Nat \ {0} /\ Infinity \in Nat /\ Infinity > Scale

VARIABLES PageRankIndex, order, n, convergenum, Converge, stage

Ranks == INSTANCE PageRankIndexer WITH pc <- stage

rankVars == <<PageRankIndex, order, n, convergenum, Converge, stage>>
allVars == <<vars, rankVars>>

StagesInit == Init /\ Ranks!Init

\* Indexing goes on until ranking begins.
Index == stage = "idle" /\ Next /\ UNCHANGED rankVars

\* The crawl has at least one page, so index_pages has made a call.
Rank ==
  /\ pc = "idle" /\ entries > 0
  /\ Ranks!Step
  /\ UNCHANGED vars

Kill ==
  /\ crashes < MaxCrashes /\ Ranks!Kill
  /\ crashes' = crashes + 1
  /\ UNCHANGED <<ids, db, dbinverted, call, pc, entries, begun>>

StagesNext == Index \/ Rank \/ Kill

\* One thread: a stage that has a step to take takes it.
StagesSpec == StagesInit /\ [][StagesNext]_allVars /\ WF_allVars(Rank)

-----------------------------------------------------------------------------
\* Every exception of index_ranks goes back to a kill: an uninterrupted program
\* never finds null at PageRankIndexer.java:38, 40 or 64, however often the pages
\* are indexed again and however their links have changed.
OnlyKillsBreakRanks == stage = "thrown" => crashes > 0

\* See PageRankIndexer: ranks stay finite while the two link databases agree.
FiniteWhenMirrored == Ranks!FiniteWhenMirrored

\* See PageRankIndexer: index_ranks ends unless no page has a parent.
EndsUnlessEmpty == Ranks!EndsUnlessEmpty

=============================================================================
