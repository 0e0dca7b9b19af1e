------------------------- MODULE ParentChildIndexer -------------------------
(***************************************************************************)
(* ParentChildIndexer: which page links to which.                          *)
(*                                                                         *)
(*   db          pageID -> pageIDs of its links   (db/ParentChildIndex)    *)
(*   dbinverted  pageID -> pageIDs of its parents                          *)
(*                                           (db/ParentChildIndexInverted) *)
(*                                                                         *)
(* A value is the sequence of page IDs that its text, joined with ";;", is *)
(* split into (in db a blank stands before the first; only the length of   *)
(* that list is read).  addEntry numbers every link without one, appends   *)
(* the page to the parents of each link, one put per link, and stores the  *)
(* links of the page at the end, so the process may die when some of the   *)
(* children know their parent and the parent does not know its children.   *)
(***************************************************************************)
EXTENDS RocksDB, Sequences, Functions

CONSTANTS URLs,
          Crawled,     \* the URLs of the crawlers given to index_pages
          LinkSets,    \* the links a fetched page may have
          MaxEntries,  \* bound: calls of addEntry
          MaxCrashes   \* bound: kills of the process

ASSUME LinksAssumption ==
  /\ Crawled \subseteq URLs /\ LinkSets \subseteq SUBSET URLs
  /\ \A ls \in LinkSets : IsFiniteSet(ls)
  /\ MaxEntries \in Nat /\ MaxCrashes \in Nat

VARIABLES document, invertedDocument, db, dbinverted,  \* persistent
          url, links, i, asu, pc,                      \* the running call
          entries, crashes,
          begun       \* history: how many calls have got the links of a page

ids == <<document, invertedDocument>>
call == <<url, links, i, asu>>
vars == <<ids, db, dbinverted, call, pc, entries, crashes, begun>>

NoURL == "none"

Init ==
  /\ document = EmptyDB /\ invertedDocument = EmptyDB
  /\ db = EmptyDB /\ dbinverted = EmptyDB
  /\ url = NoURL /\ links = <<>> /\ i = 0 /\ asu = <<>> /\ pc = "idle"
  /\ entries = 0 /\ crashes = 0 /\ begun = [u \in URLs |-> 0]

EndCall == url' = NoURL /\ links' = <<>> /\ i' = 0 /\ asu' = <<>> /\ pc' = "idle"

\* addEntry(c): fetch the links, in any order.  If the fetch fails, get(4) throws
\* before anything is stored, as if there had been no call.
AddEntry(u) ==
  /\ pc = "idle" /\ entries < MaxEntries
  /\ \E ls \in LinkSets : links' \in Bijection(1..Cardinality(ls), ls)
  /\ url' = u /\ i' = 0 /\ asu' = <<>>
  /\ pc' = IF Has(document, u) THEN "link" ELSE "page"
  /\ entries' = entries + 1 /\ begun' = [begun EXCEPT ![u] = @ + 1]
  /\ UNCHANGED <<ids, db, dbinverted, crashes>>

\* The URL that DocumentIndexer.addEntry is called for: the page or a link.
Target == IF pc \in {"page", "pageURL"} THEN url ELSE links[i + 1]

\* documentIndexer.addEntry, see DocumentIndexer: two puts.
PutID ==
  /\ pc = "page" \/ (pc = "link" /\ i < Len(links) /\ ~Has(document, links[i + 1]))
  /\ document' = Put(document, Target, Count(document) + 1)
  /\ pc' = IF pc = "page" THEN "pageURL" ELSE "linkURL"
  /\ UNCHANGED <<invertedDocument, db, dbinverted, call, entries, crashes, begun>>

PutURL ==
  /\ pc \in {"pageURL", "linkURL"}
  /\ invertedDocument' = Put(invertedDocument, document[Target], Target)
  /\ pc' = "link"
  /\ UNCHANGED <<document, db, dbinverted, call, entries, crashes, begun>>

\* The list stored for a page, empty when get returns null.
ListOf(lists, id) == IF Has(lists, id) THEN lists[id] ELSE <<>>

\* Mutant of PutParent: a page that has a parent gets no other.
PutParentFirst ==
  /\ pc = "link" /\ i < Len(links) /\ Has(document, links[i + 1])
  /\ LET child == document[links[i + 1]]
     IN /\ dbinverted' = IF Has(dbinverted, child) THEN dbinverted
                         ELSE Put(dbinverted, child, <<document[url]>>)
        /\ asu' = Append(asu, child)
  /\ i' = i + 1
  /\ UNCHANGED <<ids, db, url, links, pc, entries, crashes, begun>>

\* The rest of the loop's body: the page becomes a parent of the link.
PutParent ==
  /\ pc = "link" /\ i < Len(links) /\ Has(document, links[i + 1])
  /\ LET child == document[links[i + 1]]
     IN /\ dbinverted' = Put(dbinverted, child,
                             Append(ListOf(dbinverted, child), document[url]))
        /\ asu' = Append(asu, child)
  /\ i' = i + 1
  /\ UNCHANGED <<ids, db, url, links, pc, entries, crashes, begun>>

\* Mutant of Return: the test for links is off by one.
ReturnMany ==
  /\ pc = "link" /\ i = Len(links)
  /\ db' = IF Len(links) > 1 THEN Put(db, document[url], asu) ELSE db
  /\ EndCall
  /\ UNCHANGED <<ids, dbinverted, entries, crashes, begun>>

\* The links of the page are stored, if it has any, and the call returns.
Return ==
  /\ pc = "link" /\ i = Len(links)
  /\ db' = IF Len(links) > 0 THEN Put(db, document[url], asu) ELSE db
  /\ EndCall
  /\ UNCHANGED <<ids, dbinverted, entries, crashes, begun>>

\* The JVM is killed; the databases survive.
Crash ==
  /\ pc # "idle" /\ crashes < MaxCrashes
  /\ crashes' = crashes + 1
  /\ EndCall
  /\ UNCHANGED <<ids, db, dbinverted, entries, begun>>

Step == PutID \/ PutURL \/ PutParent \/ Return

Next == (\E u \in Crawled : AddEntry(u)) \/ Step \/ Crash

Spec == Init /\ [][Next]_vars

-----------------------------------------------------------------------------
TypeOK ==
  /\ IsFiniteSet(DOMAIN document)
  /\ DOMAIN document \subseteq URLs /\ document \in [DOMAIN document -> Nat]
  /\ DOMAIN invertedDocument \subseteq Nat
  /\ invertedDocument \in [DOMAIN invertedDocument -> URLs]
  /\ DOMAIN db \subseteq Nat /\ db \in [DOMAIN db -> Seq(Nat)]
  /\ DOMAIN dbinverted \subseteq Nat /\ dbinverted \in [DOMAIN dbinverted -> Seq(Nat)]
  /\ url \in URLs \cup {NoURL} /\ links \in Seq(URLs) /\ i \in 0..Len(links)
  /\ asu \in Seq(Nat) /\ Len(asu) = i
  /\ pc \in {"idle", "page", "pageURL", "link", "linkURL"}
  /\ entries \in 0..MaxEntries /\ crashes \in 0..MaxCrashes
  /\ begun \in [URLs -> 0..MaxEntries]

\* Numbering a page and, later in the same call, its links keeps the promise of
\* IdAllocator: the count that DocumentIndexer.addEntry takes is made anew for
\* each of them (ParentChildIndexer.java:58 and 83).
Allocator == INSTANCE IdAllocator WITH Names <- URLs, ids <- document
ImplementsAllocator == Allocator!Spec

\* The pages that stand in a list of parents.
Parents == UNION {Range(dbinverted[c]) : c \in DOMAIN dbinverted}

\* A stored link is known from both ends, through every kill and rerun: the
\* parents are put first (ParentChildIndexer.java:88-115) and never taken away.
ChildrenHaveParents ==
  \A p \in DOMAIN db : \A c \in Range(db[p]) :
    Has(dbinverted, c) /\ p \in Range(dbinverted[c])

\* A parent without an entry in db, for which PageRankIndexer.java:40 reads null,
\* comes from a kill before the last put of addEntry: at most one for each kill.
MissingPerCrash ==
  Cardinality(Parents \ DOMAIN db) <= crashes + (IF pc # "idle" THEN 1 ELSE 0)

=============================================================================
