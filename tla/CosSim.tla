------------------------------- MODULE CosSim -------------------------------
(***************************************************************************)
(* CosSim.getPages: from a query to the pages and their scores.            *)
(*                                                                         *)
(* The words of the query are cleaned and replaced in place by their word  *)
(* IDs, the posting lists of the IDs are added up (2 for a place in a      *)
(* title, 1 for one in the content), and the sums are scaled with the      *)
(* number that the forward index keeps for the page.  Words and IDs are    *)
(* both strings, and a word may look like an ID.                           *)
(*                                                                         *)
(* A posting list is here the sequence of its doc tokens, each with the    *)
(* number of place tokens behind it; that a stored text can be read like   *)
(* this is InvertedIndexer's invariant QueryReadable.                      *)
(***************************************************************************)
EXTENDS RocksDB, StopWords, SequencesExt

CONSTANTS Databases,           \* [word, title, content, forward]
          Queries,             \* query.split("\\s+"): token sequences
          ThreshNum, ThreshDen \* thresh = ThreshNum / ThreshDen

ASSUME ThreshAssumption == ThreshNum \in Nat /\ ThreshDen \in Nat \ {0}

VARIABLES db,         \* the four databases, read only
          query,
          q, i,       \* the vector of words and IDs, and the loop counter
          no_match,
          cossim_u,   \* page -> sum
          cossim,     \* the result, the pages above the threshold
          pc          \* "done", "null" (return null) and "thrown" are final

vars == <<db, query, q, i, no_match, cossim_u, cossim, pc>>

Init ==
  /\ db \in Databases /\ query \in Queries
  /\ q = <<>> /\ i = 0 /\ no_match = TRUE
  /\ cossim_u = EmptyDB /\ cossim = {} /\ pc = "clean"

\* Mutant of Clean: a query of stop words throws.
CleanNothing ==
  /\ pc = "clean"
  /\ IF CleanThrows(query) \/ clean(query) = <<>>
     THEN pc' = "thrown" /\ UNCHANGED q
     ELSE pc' = "lookup" /\ q' = clean(query)
  /\ UNCHANGED <<db, query, i, no_match, cossim_u, cossim>>

\* q = StopWords.clean(..); the empty query is one empty token and throws.
Clean ==
  /\ pc = "clean"
  /\ IF CleanThrows(query)
     THEN pc' = "thrown" /\ UNCHANGED q
     ELSE pc' = "lookup" /\ q' = clean(query)
  /\ UNCHANGED <<db, query, i, no_match, cossim_u, cossim>>

\* q.get(i) has an ID: put the ID in its place.
Found ==
  /\ pc = "lookup" /\ i < Len(q) /\ Has(db.word, q[i + 1])
  /\ q' = [q EXCEPT ![i + 1] = db.word[q[i + 1]]]
  /\ no_match' = FALSE /\ i' = i + 1
  /\ UNCHANGED <<db, query, cossim_u, cossim, pc>>

\* Mutant of NotFound: i stays.
NotFoundStays ==
  /\ pc = "lookup" /\ i < Len(q) /\ ~Has(db.word, q[i + 1])
  /\ q' = RemoveAt(q, i + 1)
  /\ UNCHANGED <<db, query, i, no_match, cossim_u, cossim, pc>>

\* q.get(i) has none: q.remove(i), and on with i + 1.
NotFound ==
  /\ pc = "lookup" /\ i < Len(q) /\ ~Has(db.word, q[i + 1])
  /\ q' = RemoveAt(q, i + 1)
  /\ i' = i + 1
  /\ UNCHANGED <<db, query, no_match, cossim_u, cossim, pc>>

EndLookup ==
  /\ pc = "lookup" /\ i >= Len(q)
  /\ pc' = IF no_match THEN "null" ELSE "sum"
  /\ i' = 0
  /\ UNCHANGED <<db, query, q, no_match, cossim_u, cossim>>

\* The posting list of an entry of q, empty when get returns null.
List(lists, id) == IF Has(lists, id) THEN lists[id] ELSE <<>>

PagesOf(list) == {list[n].page : n \in DOMAIN list}
PlacesOn(list, p) ==
  FoldSeq(LAMBDA e, sum : IF e.page = p THEN sum + e.places ELSE sum, 0, list)

\* Add a posting list to the sums: putIfAbsent 0, then weight for each place.
Credit(sums, list, weight) ==
  [p \in DOMAIN sums \cup PagesOf(list) |->
     (IF Has(sums, p) THEN sums[p] ELSE 0) + weight * PlacesOn(list, p)]

\* One round of the second loop: the title list, then the content list.
Sum ==
  /\ pc = "sum" /\ i < Len(q)
  /\ cossim_u' = Credit(Credit(cossim_u, List(db.title, q[i + 1]), 2),
                        List(db.content, q[i + 1]), 1)
  /\ i' = i + 1
  /\ UNCHANGED <<db, query, q, no_match, cossim, pc>>

\* res > thresh, squared: u / (sqrt(f) * sqrt(n)) > num / den.  For f = 0 the
\* quotient is Infinity, or NaN when u = 0.
Above(u, f, n) == (u * ThreshDen) * (u * ThreshDen) > ThreshNum * ThreshNum * f * n

\* The third loop: a page without a forward entry is a NullPointerException.
Rank ==
  /\ pc = "sum" /\ i = Len(q)
  /\ IF \A p \in DOMAIN cossim_u : Has(db.forward, p)
     THEN /\ cossim' = {p \in DOMAIN cossim_u : Above(cossim_u[p], db.forward[p], Len(q))}
          /\ pc' = "done"
     ELSE pc' = "thrown" /\ UNCHANGED cossim
  /\ UNCHANGED <<db, query, q, i, no_match, cossim_u>>

Step == Clean \/ Found \/ NotFound \/ EndLookup \/ Sum \/ Rank

Next == Step

Spec == Init /\ [][Next]_vars

\* The calling thread keeps running.
FairSpec == Spec /\ WF_vars(Step)

-----------------------------------------------------------------------------

\* Which words of the cleaned query the first loop passes over: the one behind
\* each word that it looks up and removes.
Passed(ws) ==
  LET passed[n \in 0..Len(ws)] ==
        n > 1 /\ ~passed[n - 1] /\ ~Has(db.word, ws[n - 1])
  IN passed

\* What the first loop leaves of the query, said without the loop: the IDs of the
\* words looked up and known, and as they are the words passed over.  So a
\* word is only ever missed directly behind an unknown one.
LookupExact ==
  pc = "sum" =>
    LET ws == clean(query)
        left(n) == IF Passed(ws)[n] THEN <<ws[n]>>
                   ELSE IF Has(db.word, ws[n]) THEN <<db.word[ws[n]]>> ELSE <<>>
    IN q = FlattenSeq([n \in DOMAIN ws |-> left(n)])

\* A call that throws was given an empty token, or met a page that InvertedIndexer
\* has listed and ForwardIndexer has not stored.
ThrowsExplained ==
  pc = "thrown" =>
    \/ \E n \in DOMAIN query : query[n] = EmptyToken
    \/ \E n \in DOMAIN q : \E p \in PagesOf(List(db.title, q[n]))
                                      \cup PagesOf(List(db.content, q[n])) :
         ~Has(db.forward, p)

\* For every token of a query: measure, whose two inner loops move one counter
\* (Porter.java:89-115), counts the places at which a consonant follows a vowel, on
\* each beginning of the word that the steps may ask about.
MeasureExact ==
  pc = "clean" => \A n \in DOMAIN query :
    LET s == Stemmer!Clean(query[n])
    IN \A k \in 0..Len(s) :
         LET stem == SubSeq(s, 1, k) IN Stemmer!measure(stem) = Stemmer!Changes(stem)

\* For every token of a query: the stem, which is the key that is looked up and
\* stored, is never longer than the word, and empty only for a word that is
\* one of the prefixes, or that and an s, or has no letter.
StemSound ==
  pc = "clean" => \A n \in DOMAIN query : query[n] # EmptyToken =>
    LET s == Stemmer!Clean(query[n])
    IN Len(Stem[query[n]]) <= Len(s) /\ (Stem[query[n]] = "" => s \in Stemmer!Vanishing)

\* "Get all wordIDs in Query" (CosSim.java:33).
AllWordsFound ==
  pc = "sum" =>
    \A n \in DOMAIN clean(query) :
      LET w == clean(query)[n]
      IN Has(db.word, w) => \E m \in DOMAIN q : q[m] = db.word[w]

=============================================================================
