---------------------------- MODULE CrawlerProofs ----------------------------
(***************************************************************************)
(* Theorems about Crawler for any web, any edits of it, any database       *)
(* argument and any limit.  The inductive invariant adds to the properties *)
(* where the links in hand come from and how far crawlers has got.         *)
(***************************************************************************)
EXTENDS Crawler, FiniteSetTheorems, TLAPS

\* The links in hand were all fetched from one page of the vector.
LinksFetched ==
  pc = "links" =>
    \E m \in 1..Len(crawlers) :
      \A n \in 1..Len(links) : <<crawlers[m], links[n]>> \in fetched

\* crawlers has visited k pages of the vector, and i has overshot num - 1 by at
\* most the one step of the outer loop's header.
Visited ==
  op = "crawlers" =>
    /\ k <= Len(crawlers)
    /\ pc = "links" => k < Len(crawlers)
    /\ pc = "loop" /\ k = 0 => Len(crawlers) = 1
    /\ limit > 1 => i <= Wanted + 1
    /\ limit <= 1 => k = 0
    /\ pc = "links" => i <= Wanted

\* A page is being read only while more pages are wanted.
LinksWanted == pc = "links" => limit > 1

\* Neither call ever returns, or holds, more pages than it was asked for; with
\* limit 0 or 1 the start page is still returned (the loop's i<limit-1).
SizeBounded == Len(crawlers) <= limit \/ Len(crawlers) = 1

IndInv == /\ TypeOK /\ CountersAgree /\ SizeBounded /\ ReturnedSize /\ Provenance
          /\ LinksFetched /\ Visited /\ LinksWanted

-----------------------------------------------------------------------------
\* Whatever order a fetch returns the links in, they are links of the page.
LEMMA FetchedLinks ==
  ASSUME TypeOK, NEW u \in URLs, NEW s \in Bijection(1..Cardinality(web[u]), web[u])
  PROVE  /\ s \in Seq(URLs)
         /\ \A n \in 1..Len(s) : s[n] \in web[u]
<1>1. web[u] \subseteq URLs /\ IsFiniteSet(web[u])
  BY CrawlerAssumption DEF TypeOK
<1>2. Cardinality(web[u]) \in Nat
  BY <1>1, FS_CardinalityType
<1>3. s \in [1..Cardinality(web[u]) -> web[u]]
  BY DEF Bijection, Injection
<1>4. QED
  BY <1>1, <1>2, <1>3

\* Appending a link in hand keeps the invariant's part about the vector.
LEMMA AppendLink ==
  ASSUME IndInv, MoreLinks,
         op = "crawl" => Link \in CSE /\ Link \notin DOMAIN store,
         crawlers' = Append(crawlers, Link), i' = i + 1, j' = j + 1,
         UNCHANGED <<web, edits, args, k, links, pc, fetched>>
  PROVE  IndInv'
<1> USE DEF IndInv, MoreLinks
<1>1. /\ Link \in URLs
      /\ crawlers' \in Seq(URLs) /\ Len(crawlers') = Len(crawlers) + 1
      /\ crawlers'[Len(crawlers) + 1] = Link
      /\ \A n \in 1..Len(crawlers) : crawlers'[n] = crawlers[n]
      /\ Len(crawlers) \in Nat /\ Len(crawlers) >= 1
      /\ limit \in Nat
  BY CrawlerAssumption DEF TypeOK, Link
<1>2. TypeOK'
  BY <1>1 DEF TypeOK, args
<1>3. CountersAgree' /\ SizeBounded' /\ LinksWanted' /\ ReturnedSize'
  BY <1>1 DEF TypeOK, args, CountersAgree, SizeBounded, LinksWanted, Wanted,
              ReturnedSize
<1>4. LinksFetched'
  BY <1>1, SMTT(30) DEF LinksFetched, args
<1>5. Provenance'
  <2>1. PICK m \in 1..Len(crawlers) : <<crawlers[m], Link>> \in fetched
    BY DEF LinksFetched, Link, TypeOK
  <2> SUFFICES ASSUME NEW n \in 2..Len(crawlers')
               PROVE  /\ \E l \in 1..n - 1 : <<crawlers'[l], crawlers'[n]>> \in fetched
                      /\ op = "crawl" => crawlers'[n] \in CSE
                                        /\ crawlers'[n] \notin DOMAIN store
    BY DEF Provenance, args
  <2> HIDE DEF IndInv, MoreLinks
  <2>2. CASE n = Len(crawlers) + 1
    <3>1. crawlers'[n] = Link
      BY <1>1, <2>2
    <3>2. crawlers'[m] = crawlers[m]
      BY <1>1
    <3>3. m \in 1..n - 1
      BY <1>1, <2>2
    <3>4. <<crawlers'[m], crawlers'[n]>> \in fetched
      BY <2>1, <3>1, <3>2
    <3>5. QED
      BY <3>1, <3>3, <3>4
  <2>3. CASE n \in 2..Len(crawlers)
    <3>1. PICK l \in 1..n - 1 : <<crawlers[l], crawlers[n]>> \in fetched
      BY <2>3 DEF Provenance, IndInv
    <3>2. crawlers'[l] = crawlers[l] /\ crawlers'[n] = crawlers[n]
      BY <1>1, <2>3
    <3>3. op = "crawl" => crawlers[n] \in CSE /\ crawlers[n] \notin DOMAIN store
      BY <2>3 DEF Provenance, IndInv
    <3>4. QED
      BY <3>1, <3>2, <3>3
  <2>4. n = Len(crawlers) + 1 \/ n \in 2..Len(crawlers)
    BY <1>1
  <2>5. QED
    BY <2>2, <2>3, <2>4
<1>6. Visited'
  BY <1>1 DEF Visited, args, Wanted, TypeOK
<1>7. QED
  BY <1>2, <1>3, <1>4, <1>5, <1>6

\* The start page alone satisfies the invariant.
LEMMA InitInd == Init => IndInv
BY CrawlerAssumption
   DEF Init, IndInv, TypeOK, CountersAgree, SizeBounded, ReturnedSize, Provenance,
       LinksFetched, Visited, LinksWanted, Wanted

\* A fetch keeps the invariant: it only takes the links of a page in hand.
LEMMA FetchInd ==
  ASSUME IndInv, Fetch
  PROVE  IndInv'
<1> USE DEF IndInv, Fetch
<1> DEFINE u == crawlers[Visit]
<1>1. /\ Visit \in 1..Len(crawlers) /\ u \in URLs
      /\ web[u] \subseteq URLs
  BY CrawlerAssumption DEF TypeOK, Visit
<1>2. links' \in Seq(URLs) /\ \A n \in 1..Len(links') : links'[n] \in web[u]
  BY <1>1, FetchedLinks
<1>3. TypeOK'
  BY <1>1, <1>2 DEF TypeOK, args
<1>4. CountersAgree' /\ SizeBounded' /\ ReturnedSize' /\ Provenance'
  BY DEF CountersAgree, SizeBounded, ReturnedSize, Provenance, args
<1>5. LinksFetched'
  BY <1>1, <1>2 DEF LinksFetched
<1>6. Visited' /\ LinksWanted'
  BY CrawlerAssumption DEF TypeOK, Visited, LinksWanted, More, Visit, Wanted, args,
                           CountersAgree
<1>7. QED
  BY <1>3, <1>4, <1>5, <1>6

\* The arithmetic of a return: n pages, l asked for, v visits, c the counter.
LEMMA ReturnArithmetic ==
  ASSUME NEW n \in Nat, NEW l \in Nat, NEW v \in Nat, NEW c \in Nat,
         n >= 1, n <= l \/ n = 1, c = n - 1 + v, c >= l - 1
  PROVE  /\ l <= 1 => n = 1
         /\ v = 0 /\ l > 1 => n = l
         /\ c <= l => n = l - v \/ n = l + 1 - v
BY SMT

\* Leaving the outer loop keeps the invariant.
LEMMA ReturnInd ==
  ASSUME IndInv, Return
  PROVE  IndInv'
<1> DEFINE n == Len(crawlers)
           v == IF op = "crawl" THEN 0 ELSE k
<1>1. /\ limit \in Nat /\ n \in Nat /\ n >= 1 /\ i \in Nat /\ k \in Nat
      /\ v \in Nat
      /\ op \in {"crawl", "crawlers"}
  BY CrawlerAssumption DEF IndInv, TypeOK
<1>2. /\ n <= limit \/ n = 1
      /\ i = n - 1 + v
  BY DEF IndInv, SizeBounded, CountersAgree
<1>3. i >= limit - 1
  BY <1>1, <1>2 DEF Return, More, Wanted
<1>4. /\ limit <= 1 => n = 1
      /\ v = 0 /\ limit > 1 => n = limit
      /\ i <= limit => n = limit - v \/ n = limit + 1 - v
  <2> HIDE DEF n, v
  <2>1. QED
    BY <1>1, <1>2, <1>3, ReturnArithmetic
<1>5. ASSUME limit > 1, op = "crawlers" PROVE i <= limit /\ k \in 1..n
  <2>1. /\ k <= n /\ v = k
        /\ k = 0 => n = 1
        /\ i <= limit - 1 + 1
    BY <1>5 DEF IndInv, Visited, Wanted, Return
  <2> HIDE DEF n, v
  <2>2. QED
    BY <1>1, <1>2, <1>3, <1>5, <2>1
<1>6. ReturnedSize'
  <2>1. CASE limit <= 1
    BY <1>1, <1>4, <2>1 DEF Return, ReturnedSize, args
  <2>2. CASE limit > 1 /\ op = "crawl"
    BY <1>1, <1>4, <2>2 DEF Return, ReturnedSize, args
  <2>3. CASE limit > 1 /\ op = "crawlers"
    BY <1>1, <1>4, <1>5, <2>3, SMTT(30) DEF Return, ReturnedSize, args
  <2>4. QED
    BY <1>1, <2>1, <2>2, <2>3
<1>7. QED
  BY <1>6 DEF Return, IndInv, TypeOK, CountersAgree, SizeBounded, Visited, Provenance,
              LinksFetched, LinksWanted, Wanted, args

\* Every step keeps the invariant.
LEMMA NextInd == IndInv /\ [Next]_vars => IndInv'
<1> SUFFICES ASSUME IndInv, [Next]_vars PROVE IndInv'
  OBVIOUS
<1>0. limit \in Nat /\ Len(crawlers) \in Nat /\ Len(crawlers) >= 1
  BY CrawlerAssumption DEF IndInv, TypeOK
<1> USE DEF IndInv, LinksFetched, Provenance, args
<1>1. CASE Fetch
  BY <1>1, FetchInd
<1>2. CASE FetchThrows
  BY <1>2 DEF FetchThrows, TypeOK, CountersAgree, SizeBounded, ReturnedSize,
              Visited, LinksWanted, Wanted
<1>3. CASE CrawlLink
  <2>1. CASE Link \in CSE /\ Link \notin DOMAIN store
    BY <1>3, <2>1, AppendLink DEF CrawlLink
  <2>2. CASE ~(Link \in CSE /\ Link \notin DOMAIN store)
    <3>1. /\ j' = j + 1 /\ j < Len(links)
          /\ UNCHANGED <<web, edits, args, crawlers, i, k, links, pc, fetched>>
      BY <1>3, <2>2 DEF CrawlLink, MoreLinks
    <3>2. TypeOK'
      BY <3>1 DEF TypeOK
    <3>3. QED
      BY <3>1, <3>2 DEF CountersAgree, SizeBounded, ReturnedSize, Visited,
                        LinksWanted, Wanted
  <2>3. QED
    BY <2>1, <2>2
<1>4. CASE CrawlersLink
  BY <1>4, AppendLink DEF CrawlersLink
<1>5. CASE LinkThrows
  BY <1>5 DEF LinkThrows, MoreLinks, TypeOK, CountersAgree, SizeBounded,
              ReturnedSize, Visited, LinksWanted, Wanted
<1>6. CASE EndLinks
  <2>1. TypeOK'
    BY <1>6 DEF EndLinks, TypeOK
  <2>2. CountersAgree' /\ SizeBounded' /\ ReturnedSize' /\ LinksWanted'
    BY <1>0, <1>6 DEF EndLinks, TypeOK, CountersAgree, SizeBounded, ReturnedSize,
                      LinksWanted
  <2>3. Visited'
    BY <1>0, <1>6 DEF EndLinks, TypeOK, Visited, LinksWanted, Wanted
  <2>4. QED
    BY <1>6, <2>1, <2>2, <2>3 DEF EndLinks
<1>7. CASE Return
  BY <1>7, ReturnInd
<1>8. CASE Edit
  <2>1. TypeOK'
    BY <1>8, CrawlerAssumption DEF Edit, TypeOK
  <2>2. QED
    BY <1>8, <2>1 DEF Edit, CountersAgree, SizeBounded, ReturnedSize, Visited,
                      LinksWanted, Wanted
<1>9. CASE UNCHANGED vars
  BY <1>9 DEF vars, TypeOK, CountersAgree, SizeBounded, ReturnedSize, Visited,
              LinksWanted, Wanted
<1> HIDE DEF IndInv, LinksFetched, Provenance, args
<1>10. QED
  BY <1>1, <1>2, <1>3, <1>4, <1>5, <1>6, <1>7, <1>8, <1>9 DEF Next, Step

\* The inductive invariant holds throughout every crawl.
THEOREM IndInvariant == Spec => []IndInv
BY InitInd, NextInd, PTL DEF Spec

\* The counters keep their meaning: crawl only ever visits the page that it
\* added last, and crawlers pays one slot per visit.
THEOREM CountersAlwaysAgree == Spec => [](TypeOK /\ CountersAgree)
<1>1. IndInv => TypeOK /\ CountersAgree
  BY DEF IndInv
<1>2. QED
  BY <1>1, IndInvariant, PTL

\* No call holds more pages than it was asked for, crawl returns exactly that
\* many, and crawlers one fewer for each page it visited, give or take one.
THEOREM SizesRight == Spec => [](SizeBounded /\ ReturnedSize)
<1>1. IndInv => SizeBounded /\ ReturnedSize
  BY DEF IndInv
<1>2. QED
  BY <1>1, IndInvariant, PTL

\* Every page of the result was reached by a link that a fetch returned.
THEOREM EveryPageReached == Spec => []Provenance
<1>1. IndInv => Provenance
  BY DEF IndInv
<1>2. QED
  BY <1>1, IndInvariant, PTL

=============================================================================
