----------------------------- MODULE WordIndexer -----------------------------
(***************************************************************************)
(* WordIndexer: the word-ID index and its mirror.                          *)
(*                                                                         *)
(*   word          word -> wordID    (db/word)                             *)
(*   invertedWord  wordID -> word    (db/invertedWord)                     *)
(*                                                                         *)
(* A call counts the keys of word once.  For each page it then fetches and *)
(* parses the page, gives numbers to the cleaned words of the title, and   *)
(* after that to those of the content.  Parsing may stop after any number  *)
(* of the five fields (parser catches every exception and returns what it  *)
(* has); the missing field, or an empty title token, then throws out of    *)
(* the call when half of the page may already be stored.                   *)
(***************************************************************************)
EXTENDS RocksDB, StopWords

CONSTANTS Titles, Contents,  \* token sequences a fetched page may have
          MaxPages,          \* bound: length of the crawler vector
          MaxCrashes         \* bound: kills of the process

ASSUME PagesAssumption ==
  /\ Titles \subseteq Seq(Tokens)
  /\ Contents \subseteq Seq(Tokens \ {EmptyToken})  \* StringTokenizer
  /\ MaxPages \in Nat /\ MaxCrashes \in Nat

VARIABLES word, invertedWord,                   \* persistent
          lastID, left, page, part, words, j, pc,  \* the running call
          crashes

db == <<word, invertedWord>>
vars == <<db, lastID, left, page, part, words, j, pc, crashes>>

\* What one call of parser() returns: how many of its five fields are there.
Pages == [fields : 0..5, title : Titles, content : Contents]
NoPage == [fields |-> 0, title |-> <<>>, content |-> <<>>]

NoCall == /\ lastID' = 0 /\ left' = 0 /\ page' = NoPage /\ part' = "none"
          /\ words' = <<>> /\ j' = 1 /\ pc' = "idle"

Init ==
  /\ word = EmptyDB /\ invertedWord = EmptyDB
  /\ lastID = 0 /\ left = 0 /\ page = NoPage /\ part = "none"
  /\ words = <<>> /\ j = 1 /\ pc = "idle"
  /\ crashes = 0

\* addEntry(String): one word, already clean.
AddWord(w) ==
  /\ pc = "idle"
  /\ lastID' = Count(word)
  /\ words' = <<w>> /\ part' = "word" /\ pc' = "lookup"
  /\ UNCHANGED <<db, left, page, j, crashes>>

\* addEntry(Crawler) (n = 1) and index_words(): one count, then n pages.
IndexWords(n) ==
  /\ pc = "idle"
  /\ lastID' = Count(word)
  /\ left' = n /\ pc' = "fetch"
  /\ UNCHANGED <<db, page, part, words, j, crashes>>

HasTitle(p) == p.fields >= 1 /\ ~CleanThrows(p.title)
HasContent(p) == p.fields >= 4

\* Vector p = c.parser(); the loop over the cleaned title begins.
LoadTitle ==
  /\ pc = "fetch" /\ left > 0
  /\ \E p \in Pages :
       /\ HasTitle(p)
       /\ page' = p /\ words' = clean(p.title)
  /\ part' = "title" /\ pc' = "lookup"
  /\ UNCHANGED <<db, lastID, left, j, crashes>>

\* Mutant of LoadContent: the counter starts again.
LoadContentFromZero ==
  /\ pc = "content" /\ HasContent(page)
  /\ words' = clean(page.content) /\ page' = NoPage /\ lastID' = 0
  /\ part' = "content" /\ pc' = "lookup"
  /\ UNCHANGED <<db, left, j, crashes>>

\* The loop over the cleaned content begins.
LoadContent ==
  /\ pc = "content" /\ HasContent(page)
  /\ words' = clean(page.content) /\ page' = NoPage
  /\ part' = "content" /\ pc' = "lookup"
  /\ UNCHANGED <<db, lastID, left, j, crashes>>

\* p.get(0), clean or p.get(3) throws; nobody catches it, the process ends.
Throw ==
  /\ \/ pc = "fetch" /\ left > 0 /\ \E p \in Pages : ~HasTitle(p)
     \/ pc = "content" /\ ~HasContent(page)
  /\ NoCall
  /\ UNCHANGED <<db, crashes>>

SkipKnown ==
  /\ pc = "lookup" /\ j <= Len(words) /\ Has(word, words[j])
  /\ j' = j + 1
  /\ UNCHANGED <<db, lastID, left, page, part, words, pc, crashes>>

PutID ==
  /\ pc = "lookup" /\ j <= Len(words) /\ ~Has(word, words[j])
  /\ lastID' = lastID + 1
  /\ word' = Put(word, words[j], lastID + 1)
  /\ pc' = "mirror"
  /\ UNCHANGED <<invertedWord, left, page, part, words, j, crashes>>

\* Mutant of PutWord: the second put is missing in the loop over the content.
PutWordTitleOnly ==
  /\ pc = "mirror"
  /\ invertedWord' = IF part = "content" THEN invertedWord
                                         ELSE Put(invertedWord, lastID, words[j])
  /\ j' = j + 1 /\ pc' = "lookup"
  /\ UNCHANGED <<word, lastID, left, page, part, words, crashes>>

PutWord ==
  /\ pc = "mirror"
  /\ invertedWord' = Put(invertedWord, lastID, words[j])
  /\ j' = j + 1 /\ pc' = "lookup"
  /\ UNCHANGED <<word, lastID, left, page, part, words, crashes>>

\* A loop over words is over: go on with the content, or with the next page.
EndPart ==
  /\ pc = "lookup" /\ j > Len(words) /\ part # "word"
  /\ pc' = IF part = "title" THEN "content" ELSE "fetch"
  /\ left' = IF part = "title" THEN left ELSE left - 1
  /\ words' = <<>> /\ j' = 1 /\ part' = "none"
  /\ UNCHANGED <<db, lastID, page, crashes>>

Return ==
  /\ \/ pc = "fetch" /\ left = 0
     \/ pc = "lookup" /\ j > Len(words) /\ part = "word"
  /\ NoCall
  /\ UNCHANGED <<db, crashes>>

\* The JVM is killed; the databases survive.
Crash ==
  /\ crashes < MaxCrashes
  /\ NoCall
  /\ crashes' = crashes + 1
  /\ UNCHANGED db

Step == LoadTitle \/ LoadContent \/ Throw \/ SkipKnown \/ PutID \/ PutWord
        \/ EndPart \/ Return

Next ==
  \/ \E w \in Words : AddWord(w)
  \/ \E n \in 1..MaxPages : IndexWords(n)
  \/ Step
  \/ Crash

Spec == Init /\ [][Next]_vars

\* The process is the only thread: a call that has a step to take takes it.
FairSpec == Spec /\ WF_vars(Step)

-----------------------------------------------------------------------------

\* WordIndexer implements DocumentIndexer's specification on its own pair of
\* databases: each loop over a title or a content behaves like one call of
\* index_pages with a count of its own (so the single one at WordIndexer.java:106
\* is never stale, whatever the pages before have added), an exception between the two loops of a
\* page looks like a call that was never made, and so every property of
\* DocumentIndexer carries over.
InLoop == pc \in {"lookup", "mirror"}
Indexer == INSTANCE DocumentIndexer WITH
             Names <- Words,
             Batches <- {clean(t) : t \in {u \in Titles : ~CleanThrows(u)} \cup Contents},
             document <- word, invertedDocument <- invertedWord,
             lastID <- IF InLoop THEN lastID ELSE 0,
             batch <- words, i <- j,
             pc <- IF InLoop THEN pc ELSE "idle"
ImplementsIndexer == Indexer!Spec

\* A word lost from invertedWord costs a kill of the process: exceptions, which
\* interrupt a page between its title and its content, never fall between the
\* two puts of a word.
OnlyKillsLose == Indexer!OneLostPerCrash

=============================================================================
