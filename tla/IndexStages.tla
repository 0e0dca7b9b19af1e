---------------------------- MODULE IndexStages ----------------------------
(***************************************************************************)
(* The program between the crawl and the link index: the forward index of  *)
(* all pages of the crawl, then the inverted index of all of them.  Each   *)
(* stage fetches a page anew and may get another version of it.  An        *)
(* exception or a kill ends the program; it is then started again on the   *)
(* databases that it has left, and crawls anew.  The two stages share the  *)
(* databases of page and word numbers, and CosSim, which runs between two  *)
(* runs of the program, joins what they have written.                      *)
(***************************************************************************)
EXTENDS InvertedIndexer

CONSTANTS SepToken,  \* ";;;" in a title
          Crawls,    \* the vectors that crawler.crawl may return
          MaxRuns    \* bound: runs of the program

ASSUME StagesAssumption == Crawls \subseteq Seq(Crawled) /\ MaxRuns \in Nat

VARIABLES forwardIndex, map, fpc,  \* see ForwardIndexer
          crawlers, c,             \* the pages of the crawl, and the loop's counter
          stage,                   \* "crawl", "forward", "inverted"
          runs,
          stored                   \* history: the version whose entry was put

Fwd == INSTANCE ForwardIndexer WITH pc <- fpc

fwdVars == <<forwardIndex, map, fpc>>
main == <<crawlers, c, stage, runs>>
allVars == <<vars, fwdVars, main, stored>>

StagesInit ==
  /\ Init /\ Fwd!Init
  /\ crawlers = <<>> /\ c = 1 /\ stage = "crawl" /\ runs = 0
  /\ stored = [u \in Crawled |-> NoPage]

Crawl ==
  /\ stage = "crawl" /\ runs < MaxRuns
  /\ crawlers' \in Crawls /\ c' = 1 /\ stage' = "forward" /\ runs' = runs + 1
  /\ UNCHANGED <<vars, fwdVars, stored>>

\* forwardIndexer.index_pages(): addEntry for one page after the other.
Forward ==
  /\ stage = "forward" /\ c <= Len(crawlers)
  /\ Fwd!AddEntry(crawlers[c]) \/ Fwd!Step
  /\ stored' = IF fpc' = "stored" THEN [stored EXCEPT ![url] = page] ELSE stored
  /\ UNCHANGED <<inverted, part, rewrite, refreshed, pc, history, main>>

ForwardReturns ==
  /\ fpc = "stored" /\ Fwd!EndCall
  /\ c' = c + 1
  /\ UNCHANGED <<ids, inverted, part, rewrite, refreshed, pc, history, forwardIndex,
                 crawlers, stage, runs, stored>>

\* parsed.get(3) or get(4): nobody catches the exception.
ForwardThrows ==
  /\ fpc = "thrown" /\ Fwd!EndCall
  /\ stage' = "crawl"
  /\ UNCHANGED <<ids, inverted, part, rewrite, refreshed, pc, history, forwardIndex,
                 crawlers, c, runs, stored>>

\* Mutant of EndForward: the last page of the crawl is left out.
EndForwardEarly ==
  /\ stage = "forward" /\ c >= Len(crawlers) /\ fpc = "idle"
  /\ c' = 1 /\ stage' = "inverted"
  /\ UNCHANGED <<vars, fwdVars, crawlers, runs, stored>>

EndForward ==
  /\ stage = "forward" /\ c > Len(crawlers)
  /\ c' = 1 /\ stage' = "inverted"
  /\ UNCHANGED <<vars, fwdVars, crawlers, runs, stored>>

\* invertedIndexer.index_pages(), as in InvertedIndexer.
Inverted ==
  /\ stage = "inverted" /\ c <= Len(crawlers)
  /\ \/ AddEntry(crawlers[c]) /\ UNCHANGED <<c, stage>>
     \/ Step /\ pc' # "idle" /\ UNCHANGED <<c, stage>>
     \/ Return /\ c' = c + 1 /\ UNCHANGED stage
     \/ Throw /\ stage' = "crawl" /\ UNCHANGED c
  /\ UNCHANGED <<fwdVars, crawlers, runs, stored>>

\* main ends.
EndInverted ==
  /\ stage = "inverted" /\ c > Len(crawlers)
  /\ stage' = "crawl"
  /\ UNCHANGED <<vars, fwdVars, crawlers, c, runs, stored>>

\* The JVM is killed; the databases survive.
Kill ==
  /\ stage # "crawl" /\ crashes < MaxCrashes
  /\ crashes' = crashes + 1 /\ stage' = "crawl"
  /\ EndCall /\ Fwd!EndCall
  /\ cut' = IF pc = "idle" THEN cut ELSE cut \cup {url}
  /\ UNCHANGED <<ids, inverted, entries, seen, latest, forwardIndex, crawlers, c, runs, stored>>

StagesNext == \/ Crawl \/ Forward \/ ForwardReturns \/ ForwardThrows \/ EndForward
              \/ Inverted \/ EndInverted \/ Kill

StagesSpec == StagesInit /\ [][StagesNext]_allVars

-----------------------------------------------------------------------------
\* CosSim joins the two indexes: for every page on a posting list it reads
\* forwardIndex.get(key), unchecked (CosSim.java:94).  Whatever exceptions and
\* kills have ended the runs so far, that is never null, because the
\* inverted index only comes to pages that the forward index has finished.
ListedHaveForward ==
  LET forward == {Numeral[id] : id \in DOMAIN forwardIndex}
  IN \A pt \in Parts : \A w \in DOMAIN inverted[pt] :
       LET text == inverted[pt][w]
       IN \A d \in Docs(text) : NumeralAt(text, d) \in forward

\* Integer.parseInt(fwd.get(5)) of CosSim.java:96 yields the number that
\* ForwardIndexer.java:108 has added up, unless the title holds a separator:
\* how many pairs of places of the stored version have the same word.
FrequencyReadable ==
  \A u \in Crawled :
    LET p == stored[u]
        ws == clean(p.content)
        pairs == {xy \in (DOMAIN ws) \X (DOMAIN ws) : ws[xy[1]] = ws[xy[2]]}
    IN p # NoPage /\ SepToken \notin {p.title[k] : k \in DOMAIN p.title} =>
         Fwd!FieldOf(forwardIndex[document[u]], 5) = {Fwd!Piece("number", Cardinality(pairs))}

=============================================================================
