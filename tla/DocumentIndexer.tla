--------------------------- MODULE DocumentIndexer ---------------------------
(***************************************************************************)
(* DocumentIndexer: the page-ID index and its mirror.                      *)
(*                                                                         *)
(*   document          URL -> pageID    (db/document)                      *)
(*   invertedDocument  pageID -> URL    (db/invertedDocument)              *)
(*                                                                         *)
(* A call counts the keys of document once, keeps the count in the local   *)
(* lastID, and gives every unknown URL of its batch the next number: first *)
(* a put to document, then a put to invertedDocument.  The two puts go to  *)
(* two databases and the process may die between them; the databases       *)
(* survive it, lastID and the loop do not.                                 *)
(***************************************************************************)
EXTENDS RocksDB, Sequences

CONSTANTS Names,       \* the URLs (the words, when WordIndexer instantiates this)
          Batches,     \* the crawler vectors index_pages may be given
          MaxCrashes   \* bound: how often the process dies in a behaviour

ASSUME BatchesAssumption == Batches \subseteq Seq(Names)
ASSUME CrashesAssumption == MaxCrashes \in Nat

VARIABLES document, invertedDocument,  \* persistent
          lastID, batch, i, pc,        \* the running call
          crashes                      \* how often the process has died

call == <<lastID, batch, i, pc>>
vars == <<document, invertedDocument, call, crashes>>

Init ==
  /\ document = EmptyDB
  /\ invertedDocument = EmptyDB
  /\ lastID = 0 /\ batch = <<>> /\ i = 1 /\ pc = "idle"
  /\ crashes = 0

\* Mutants of Begin: the keys of the mirror are counted, or nothing is.
BeginCountsMirror(names) ==
  /\ pc = "idle"
  /\ lastID' = Count(invertedDocument)
  /\ batch' = names /\ i' = 1 /\ pc' = "lookup"
  /\ UNCHANGED <<document, invertedDocument, crashes>>
BeginFromZero(names) ==
  /\ pc = "idle"
  /\ lastID' = 0
  /\ batch' = names /\ i' = 1 /\ pc' = "lookup"
  /\ UNCHANGED <<document, invertedDocument, crashes>>

\* Entry of every operation: count the keys of document into lastID.
Begin(names) ==
  /\ pc = "idle"
  /\ lastID' = Count(document)
  /\ batch' = names
  /\ i' = 1
  /\ pc' = "lookup"
  /\ UNCHANGED <<document, invertedDocument, crashes>>

\* addEntry(Crawler) and addEntry(String): a batch of one.
AddEntry(n) == Begin(<<n>>)

\* index_pages(): the whole crawler vector under one count.
IndexPages == \E names \in Batches : Begin(names)

\* document.get(url) != null: nothing to do for this URL.
SkipKnown ==
  /\ pc = "lookup" /\ i <= Len(batch)
  /\ Has(document, batch[i])
  /\ i' = i + 1
  /\ UNCHANGED <<document, invertedDocument, lastID, batch, pc, crashes>>

\* Mutant of PutID: the test for null is missing.
PutIDAlways ==
  /\ pc = "lookup" /\ i <= Len(batch)
  /\ lastID' = lastID + 1
  /\ document' = Put(document, batch[i], lastID + 1)
  /\ pc' = "mirror"
  /\ UNCHANGED <<invertedDocument, batch, i, crashes>>

\* document.get(url) == null: take the next number and put it.
PutID ==
  /\ pc = "lookup" /\ i <= Len(batch)
  /\ ~Has(document, batch[i])
  /\ lastID' = lastID + 1
  /\ document' = Put(document, batch[i], lastID + 1)
  /\ pc' = "mirror"
  /\ UNCHANGED <<invertedDocument, batch, i, crashes>>

\* Mutant of PutName: the last URL is forgotten.
PutNameNotLast ==
  /\ pc = "mirror"
  /\ invertedDocument' = IF i < Len(batch) THEN Put(invertedDocument, lastID, batch[i])
                                           ELSE invertedDocument
  /\ i' = i + 1 /\ pc' = "lookup"
  /\ UNCHANGED <<document, lastID, batch, crashes>>

\* The second put of the pair.
PutName ==
  /\ pc = "mirror"
  /\ invertedDocument' = Put(invertedDocument, lastID, batch[i])
  /\ i' = i + 1
  /\ pc' = "lookup"
  /\ UNCHANGED <<document, lastID, batch, crashes>>

Return ==
  /\ pc = "lookup" /\ i > Len(batch)
  /\ lastID' = 0 /\ batch' = <<>> /\ i' = 1 /\ pc' = "idle"
  /\ UNCHANGED <<document, invertedDocument, crashes>>

\* The JVM dies, inside a call or between two calls: a kill, or an exception
\* that nobody catches.
Crash ==
  /\ crashes < MaxCrashes
  /\ lastID' = 0 /\ batch' = <<>> /\ i' = 1 /\ pc' = "idle"
  /\ crashes' = crashes + 1
  /\ UNCHANGED <<document, invertedDocument>>

Step == SkipKnown \/ PutID \/ PutName \/ Return

Next ==
  \/ \E n \in Names : AddEntry(n)
  \/ IndexPages
  \/ Step
  \/ Crash

Spec == Init /\ [][Next]_vars

\* The process is the only thread: a call that has a step to take takes it.
FairSpec == Spec /\ WF_vars(Step)

-----------------------------------------------------------------------------
TypeOK ==
  /\ IsFiniteSet(DOMAIN document) /\ DOMAIN document \subseteq Names
  /\ document \in [DOMAIN document -> Nat]
  /\ DOMAIN invertedDocument \subseteq Nat
  /\ invertedDocument \in [DOMAIN invertedDocument -> Names]
  /\ lastID \in Nat
  /\ batch \in Seq(Names)
  /\ i \in 1..Len(batch) + 1
  /\ pc \in {"idle", "lookup", "mirror"}
  /\ crashes \in 0..MaxCrashes

\* "pageID starts from 1": whatever mix of single calls, batches and deaths
\* came before, the numbers in document are exactly 1..n without a repeat, so
\* the count of its keys (DocumentIndexer.java:42-46) is the last number.
IdsDense ==
  /\ \A m, n \in DOMAIN document : document[m] = document[n] => m = n
  /\ {document[n] : n \in DOMAIN document} = 1..Count(document)

\* The count taken once at the start of a call is never stale while the call
\* runs: the local lastID keeps step with the keys the loop itself adds, and at
\* the second put it is the number just given, still free in invertedDocument.
LastIDCurrent ==
  /\ pc # "idle" => lastID = Count(document)
  /\ pc = "mirror" => /\ i <= Len(batch)
                      /\ Has(document, batch[i]) /\ document[batch[i]] = lastID
                      /\ ~Has(invertedDocument, lastID)

\* Every entry of invertedDocument is the mirror of one in document: the URL
\* printed for a page (SearchEngine.java:98) is the page that owns the number.
MirrorSound ==
  \A id \in DOMAIN invertedDocument :
    /\ Has(document, invertedDocument[id])
    /\ document[invertedDocument[id]] = id

\* Numbers that document has given out and invertedDocument does not know.
Unmirrored == {n \in DOMAIN document : ~Has(invertedDocument, document[n])}

\* The gap between the two puts of addEntry loses at most one mirror entry per
\* death of the process, however long the batches are.
OneLostPerCrash ==
  Cardinality(Unmirrored) <= crashes + (IF pc = "mirror" THEN 1 ELSE 0)

\* A lost mirror entry is never repaired: a later call finds the URL in
\* document (DocumentIndexer.java:50) and skips both puts.  And no number
\* that has been handed out ever changes.
NeverRepaired ==
  [][ /\ \A n \in DOMAIN document : Has(document', n) /\ document'[n] = document[n]
      /\ pc # "mirror" => Unmirrored \subseteq Unmirrored' ]_vars

\* A call that returns has given every URL of its batch a number, the ones
\* that occur twice in the vector (crawl does not remove repeats) included.
ReturnsComplete ==
  [][Return => \A k \in 1..Len(batch) : Has(document, batch[k])]_vars

\* The specification this one implements.
Allocator == INSTANCE IdAllocator WITH ids <- document
ImplementsAllocator == Allocator!Spec

=============================================================================
