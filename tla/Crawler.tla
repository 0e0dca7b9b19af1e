------------------------------- MODULE Crawler -------------------------------
(***************************************************************************)
(* Crawler: the two ways of growing a vector of pages from a start page.   *)
(*                                                                         *)
(*   crawl(limit, document)     what SearchEngine.main calls               *)
(*   crawlers(num, document)    what it called before                      *)
(*                                                                         *)
(* Both fetch a page of the vector, go through its links and append some   *)
(* of them.  The loop counters do double duty: i counts the pages that     *)
(* have been added and is compared with the number of pages wanted, and in *)
(* crawl it is also the index of the next page to fetch.  A page is        *)
(* fetched anew each time it is visited, its links come in the order of a  *)
(* HashSet, and the fetch may fail.                                        *)
(***************************************************************************)
EXTENDS Integers, Sequences, FiniteSets, Functions

CONSTANTS URLs,
          Start,     \* the page the crawler was made for
          CSE,       \* the URLs that contain "cse.ust.hk"
          Webs,      \* the link graphs the web may have: [URLs -> SUBSET URLs]
          Stores,    \* what the database argument may hold, see Entries
          Limits,    \* values of limit and num
          MaxEdits   \* bound: changes of the web during a crawl

\* What a database value is to crawlers(): its length, and the place of the
\* first ";;;" in it, -1 if there is none (a pageID has none).
Entries == [len : Nat, sep : Int]

ASSUME CrawlerAssumption ==
  /\ Start \in URLs /\ CSE \subseteq URLs
  /\ Webs \subseteq [URLs -> SUBSET URLs]
  /\ \A w \in Webs, u \in URLs : IsFiniteSet(w[u])
  /\ \A s \in Stores : DOMAIN s \subseteq URLs /\ \A u \in DOMAIN s : s[u] \in Entries
  /\ Limits \subseteq Nat /\ MaxEdits \in Nat

VARIABLES web,        \* the link graph now
          edits,      \* how often it has changed
          store,      \* the database argument; nothing here writes it
          op, limit,  \* the call and its argument
          crawlers,   \* the result vector
          i, k,       \* the counters of the loops, as in the code
          links, j,   \* the links of the page in hand
          pc,
          fetched     \* history: <<page, link>> pairs that a fetch returned

args == <<op, limit, store>>
vars == <<web, edits, args, crawlers, i, k, links, j, pc, fetched>>

Init ==
  /\ web \in Webs /\ edits = 0
  /\ store \in Stores /\ op \in {"crawl", "crawlers"} /\ limit \in Limits
  /\ crawlers = <<Start>>
  /\ i = 0 /\ k = 0 /\ links = <<>> /\ j = 0
  /\ pc = "loop" /\ fetched = {}

\* The number that i has to reach: limit-1 in crawl, num after num -= 1.
Wanted == limit - 1

\* Mutant of Visit: crawl goes back to the start page.
VisitStart == IF op = "crawl" THEN 1 ELSE k + 1

\* The page that the outer loop fetches next: crawlers.get(i) or .get(k).
Visit == IF op = "crawl" THEN i + 1 ELSE k + 1

\* The condition of the outer loop; crawl also asks for i < crawlers.size().
More == i < Wanted /\ (op = "crawl" => i < Len(crawlers))

\* crawlers.get(..).parser().get(4): the links, in any order.
Fetch ==
  /\ pc = "loop" /\ More /\ Visit <= Len(crawlers)
  /\ LET ls == web[crawlers[Visit]] IN links' \in Bijection(1..Cardinality(ls), ls)
  /\ j' = 0 /\ pc' = "links"
  /\ fetched' = fetched \cup {<<crawlers[Visit], u>> : u \in web[crawlers[Visit]]}
  /\ UNCHANGED <<web, edits, args, crawlers, i, k>>

\* parser() stopped before the fifth field, or (crawlers only) there is no
\* page k: an ArrayIndexOutOfBoundsException that nobody catches.
FetchThrows ==
  /\ pc = "loop" /\ More
  /\ pc' = "thrown"
  /\ UNCHANGED <<web, edits, args, crawlers, i, k, links, j, fetched>>

MoreLinks == pc = "links" /\ j < Len(links) /\ i < Wanted
Link == links[j + 1]

\* Mutant of CrawlLink: a link that is left out is counted.
CrawlLinkCountsAll ==
  /\ op = "crawl" /\ MoreLinks
  /\ crawlers' = IF Link \in CSE /\ Link \notin DOMAIN store
                 THEN Append(crawlers, Link) ELSE crawlers
  /\ i' = i + 1 /\ j' = j + 1
  /\ UNCHANGED <<web, edits, args, k, links, pc, fetched>>

\* crawl: append the link if it is a CSE page the database does not know.
CrawlLink ==
  /\ op = "crawl" /\ MoreLinks
  /\ IF Link \in CSE /\ Link \notin DOMAIN store
     THEN crawlers' = Append(crawlers, Link) /\ i' = i + 1
     ELSE UNCHANGED <<crawlers, i>>
  /\ j' = j + 1
  /\ UNCHANGED <<web, edits, args, k, links, pc, fetched>>

\* data.substring(data.indexOf(";;;"), 10) is defined.
Substring10(data) == data.sep \in 0..10 /\ data.len >= 10

\* crawlers: append the link.  For a CSE page that the database knows the date
\* is fetched first; the comparison with != is between two String objects, so
\* it is true whatever the date is.
CrawlersLink ==
  /\ op = "crawlers" /\ MoreLinks
  /\ Link \in CSE /\ Link \in DOMAIN store => Substring10(store[Link])
  /\ crawlers' = Append(crawlers, Link)
  /\ j' = j + 1 /\ i' = i + 1
  /\ UNCHANGED <<web, edits, args, k, links, pc, fetched>>

\* crawlers: the date is not there to be fetched, or substring throws.
LinkThrows ==
  /\ op = "crawlers" /\ MoreLinks
  /\ Link \in CSE /\ Link \in DOMAIN store
  /\ pc' = "thrown"
  /\ UNCHANGED <<web, edits, args, crawlers, i, k, links, j, fetched>>

\* The inner loop ends; the outer loop of crawlers advances both counters.
EndLinks ==
  /\ pc = "links" /\ ~MoreLinks
  /\ IF op = "crawlers" THEN i' = i + 1 /\ k' = k + 1 ELSE UNCHANGED <<i, k>>
  /\ links' = <<>> /\ j' = 0 /\ pc' = "loop"
  /\ UNCHANGED <<web, edits, args, crawlers, fetched>>

Return ==
  /\ pc = "loop" /\ ~More
  /\ pc' = "done"
  /\ UNCHANGED <<web, edits, args, crawlers, i, k, links, j, fetched>>

\* Somebody edits the web while the crawl runs.
Edit ==
  /\ edits < MaxEdits /\ pc \in {"loop", "links"}
  /\ web' \in Webs \ {web} /\ edits' = edits + 1
  /\ UNCHANGED <<args, crawlers, i, k, links, j, pc, fetched>>

Step == Fetch \/ FetchThrows \/ CrawlLink \/ CrawlersLink \/ LinkThrows
        \/ EndLinks \/ Return

Next == Step \/ Edit

Spec == Init /\ [][Next]_vars

\* The calling thread keeps running.
FairSpec == Spec /\ WF_vars(Step)

-----------------------------------------------------------------------------
TypeOK ==
  /\ web \in Webs /\ edits \in 0..MaxEdits
  /\ store \in Stores /\ op \in {"crawl", "crawlers"} /\ limit \in Limits
  /\ crawlers \in Seq(URLs) /\ crawlers # <<>> /\ crawlers[1] = Start
  /\ i \in Nat /\ k \in Nat
  /\ links \in Seq(URLs) /\ j \in 0..Len(links)
  /\ pc \in {"loop", "links", "done", "thrown"}
  /\ fetched \subseteq URLs \X URLs

\* The double duty of i is consistent.  In crawl it is one less than the number
\* of pages, so crawlers.get(i) is always the page added last: earlier pages
\* are never visited.  In crawlers it also counts the visits.
CountersAgree == i = Len(crawlers) - 1 + (IF op = "crawl" THEN 0 ELSE k)

\* crawl returns exactly the number of pages it was asked for.  crawlers gives
\* away one slot for each page it visits (i++ in the header of its outer loop),
\* except that the last visit may end on the inner loop's i < num.
ReturnedSize ==
  pc = "done" =>
    IF limit <= 1 THEN Len(crawlers) = 1
    ELSE IF op = "crawl" THEN Len(crawlers) = limit
    ELSE Len(crawlers) \in {limit - k, limit + 1 - k} /\ k \in 1..Len(crawlers)

\* Every page but the first was a link of a page before it in the vector at the
\* time that page was fetched, however the web has changed since; and crawl
\* takes only CSE pages that the database does not know.
Provenance ==
  \A n \in 2..Len(crawlers) :
    /\ \E m \in 1..n - 1 : <<crawlers[m], crawlers[n]>> \in fetched
    /\ op = "crawl" => crawlers[n] \in CSE /\ crawlers[n] \notin DOMAIN store

\* A page none of whose links crawl would append.
Barren(u) == web[u] \cap CSE \subseteq DOMAIN store

\* The only way for a crawl never to end is to fetch for ever a page without a
\* usable link (crawl never leaves the page added last); crawlers always ends.
EndsOrSpins ==
  \/ <>(pc \in {"done", "thrown"})
  \/ op = "crawl" /\ <>[](Barren(crawlers[Len(crawlers)]) /\ i < Wanted)

=============================================================================
