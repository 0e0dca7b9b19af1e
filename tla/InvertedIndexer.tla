--------------------------- MODULE InvertedIndexer ---------------------------
(***************************************************************************)
(* InvertedIndexer: for every word the pages and the places it stands at.  *)
(*                                                                         *)
(*   titleInverted    wordID -> posting text   (db/titleInverted)          *)
(*   contentInverted  wordID -> posting text   (db/contentInverted)        *)
(*                                                                         *)
(* addEntry fetches the page, makes sure it has a number, and goes word by *)
(* word through its title and then its content: make sure the word has a   *)
(* number, read the word's text, change it, put it back.  index_pages is   *)
(* addEntry for each crawler in turn and keeps nothing between two of      *)
(* them.  Every put is a step; the process may die before any of them.     *)
(***************************************************************************)
EXTENDS RocksDB, StopWords, Postings, SequencesExt

CONSTANTS URLs,
          Crawled,     \* the URLs of the crawlers given to index_pages
          Pages,       \* what parser() may return: [fields, title, content]
          Documents0,  \* what db/document may be when the first page is indexed
          MaxEntries,  \* bound: calls of addEntry
          MaxCrashes   \* bound: kills of the process

ASSUME PagesAssumption ==
  /\ Pages \subseteq [fields : 0..5, title : Seq(Tokens),
                      content : Seq(Tokens \ {EmptyToken})]
  /\ Crawled \subseteq URLs
  /\ \A d \in Documents0 : /\ DOMAIN d \subseteq URLs
                           /\ {d[u] : u \in DOMAIN d} = 1..Count(d)
  /\ MaxEntries \in Nat /\ MaxCrashes \in Nat

VARIABLES document, invertedDocument, word, invertedWord,
          inverted,   \* [title |-> titleInverted, content |-> contentInverted]
          url, page, part, words, i, rewrite, refreshed, pc,  \* the call
          entries, crashes,
          seen,       \* history: versions of a page that were begun
          cut,        \* history: pages some addEntry of which did not finish
          latest      \* history: the version the last addEntry has indexed, if
                      \* it has returned

ids == <<document, invertedDocument, word, invertedWord>>
call == <<url, page, part, words, i, rewrite, refreshed>>
history == <<entries, crashes, seen, cut, latest>>
vars == <<ids, inverted, call, pc, history>>

NoPage == [fields |-> 0, title |-> <<>>, content |-> <<>>]
NoURL == "none"

Init ==
  /\ document \in Documents0
  /\ invertedDocument = [n \in 1..Count(document) |->
                           CHOOSE u \in DOMAIN document : document[u] = n]
  /\ word = EmptyDB /\ invertedWord = EmptyDB
  /\ inverted = [title |-> EmptyDB, content |-> EmptyDB]
  /\ url = NoURL /\ page = NoPage /\ part = "title" /\ words = <<>> /\ i = 0
  /\ rewrite = FALSE /\ refreshed = {} /\ pc = "idle"
  /\ entries = 0 /\ crashes = 0
  /\ seen = [u \in Crawled |-> {}] /\ cut = {}
  /\ latest = [u \in Crawled |-> NoPage]

EndCall ==
  /\ url' = NoURL /\ page' = NoPage /\ part' = "title" /\ words' = <<>> /\ i' = 0
  /\ rewrite' = FALSE /\ refreshed' = {} /\ pc' = "idle"

\* addEntry(c): parser() first, then the page's number is looked up.
AddEntry(u) ==
  /\ pc = "idle" /\ entries < MaxEntries
  /\ \E p \in Pages : page' = p /\ seen' = [seen EXCEPT ![u] = @ \cup {p}]
  /\ url' = u /\ entries' = entries + 1 /\ latest' = [latest EXCEPT ![u] = NoPage]
  /\ pc' = IF Has(document, u) THEN "title" ELSE "pageID"
  /\ UNCHANGED <<ids, inverted, part, words, i, rewrite, refreshed, crashes, cut>>

\* documentIndexer.addEntry(c), see DocumentIndexer: two puts.
PutPageID ==
  /\ pc = "pageID"
  /\ document' = Put(document, url, Count(document) + 1)
  /\ pc' = "pageURL"
  /\ UNCHANGED <<invertedDocument, word, invertedWord, inverted, call, history>>

PutPageURL ==
  /\ pc = "pageURL"
  /\ invertedDocument' = Put(invertedDocument, document[url], url)
  /\ pc' = "title"
  /\ UNCHANGED <<document, word, invertedWord, inverted, call, history>>

HasTitle(p) == p.fields >= 1 /\ ~CleanThrows(p.title)
HasContent(p) == p.fields >= 4

\* The loop over the title, or over the content, begins.
Load ==
  /\ pc \in {"title", "content"}
  /\ IF pc = "title" THEN HasTitle(page) ELSE HasContent(page)
  /\ words' = clean(page[pc]) /\ part' = pc
  /\ i' = 0 /\ rewrite' = FALSE /\ refreshed' = {}
  /\ pc' = "word"
  /\ UNCHANGED <<ids, inverted, url, page, history>>

\* p.get(0), clean or p.get(3) throws: the process ends.
Throw ==
  /\ \/ pc = "title" /\ ~HasTitle(page)
     \/ pc = "content" /\ ~HasContent(page)
  /\ cut' = cut \cup {url}
  /\ EndCall
  /\ UNCHANGED <<ids, inverted, entries, crashes, seen, latest>>

\* wordIndexer.addEntry(w), see WordIndexer: two puts.
PutWordID ==
  /\ pc = "word" /\ i < Len(words) /\ ~Has(word, words[i + 1])
  /\ word' = Put(word, words[i + 1], Count(word) + 1)
  /\ pc' = "wordName"
  /\ UNCHANGED <<document, invertedDocument, invertedWord, inverted, call, history>>

PutWord ==
  /\ pc = "wordName"
  /\ invertedWord' = Put(invertedWord, word[words[i + 1]], words[i + 1])
  /\ pc' = "word"
  /\ UNCHANGED <<document, invertedDocument, word, inverted, call, history>>

\* The text a word has, and the empty one when get returns null.
TextOf(db, id) == IF Has(db, id) THEN db[id] ELSE <<>>

\* Mutant of Refreshes: refreshed is not consulted.
RefreshesAgain(text, wordID) ==
  /\ i = 0 \/ rewrite
  /\ IndexOf(text, DocKey(document[url])) # 0

\* "if the page already exist, remove": done for the word at place 1 and, once an
\* entry was removed, for the words after it; for no word twice.
Refreshes(text, wordID) ==
  /\ i = 0 \/ rewrite
  /\ IndexOf(text, DocKey(document[url])) # 0
  /\ wordID \notin refreshed

\* The rest of the loop's body: change the text of the word and put it back.
Post ==
  /\ pc = "word" /\ i < Len(words) /\ Has(word, words[i + 1])
  /\ LET wordID == word[words[i + 1]]
         text == TextOf(inverted[part], wordID)
         refresh == Refreshes(text, wordID)
         kept == IF refresh THEN CutAt(text, IndexOf(text, DocKey(document[url])))
                            ELSE text
     IN /\ inverted' = [inverted EXCEPT ![part] =
                          Put(@, wordID, Insert(kept, document[url], i + 1))]
        /\ refreshed' = IF refresh THEN refreshed \cup {wordID} ELSE refreshed
        /\ rewrite' = (rewrite \/ refresh)
  /\ i' = i + 1
  /\ UNCHANGED <<ids, url, page, part, words, pc, history>>

EndTitle ==
  /\ pc = "word" /\ i = Len(words) /\ part = "title"
  /\ pc' = "content"
  /\ UNCHANGED <<ids, inverted, call, history>>

Return ==
  /\ pc = "word" /\ i = Len(words) /\ part = "content"
  /\ latest' = [latest EXCEPT ![url] = page]
  /\ EndCall
  /\ UNCHANGED <<ids, inverted, entries, crashes, seen, cut>>

\* The JVM is killed; the databases survive.
Crash ==
  /\ pc # "idle" /\ crashes < MaxCrashes
  /\ crashes' = crashes + 1 /\ cut' = cut \cup {url}
  /\ EndCall
  /\ UNCHANGED <<ids, inverted, entries, seen, latest>>

Step == PutPageID \/ PutPageURL \/ Load \/ Throw \/ PutWordID \/ PutWord \/ Post
        \/ EndTitle \/ Return

Next == (\E u \in Crawled : AddEntry(u)) \/ Step \/ Crash

Spec == Init /\ [][Next]_vars

\* The process is the only thread: a call that has a step to take takes it.
FairSpec == Spec /\ WF_vars(Step)

-----------------------------------------------------------------------------
Parts == {"title", "content"}

Text(pt, w) == TextOf(inverted[pt], word[w])

\* Whatever was rerun, cut out, or interrupted, each stored text is one that
\* CosSim.getPages can read: it begins with a doc token (else cossim_u.get("")
\* is null at CosSim.java:71), and names only pages that have been numbered.
QueryReadable ==
  LET numbered == {Numeral[document[u]] : u \in DOMAIN document}
  IN \A pt \in Parts : \A w \in DOMAIN inverted[pt] :
       LET text == inverted[pt][w]
       IN Readable(text) /\ \A d \in Docs(text) : NumeralAt(text, d) \in numbered

\* The number of page u is the beginning of that of page v.
Shadows(u, v) == IsPrefix(Numeral[document[u]], Numeral[document[v]])

\* The numbers of page u and of any other page are not prefixes of each other.
Apart(u) == \A v \in DOMAIN document \ {u} : ~Shadows(u, v) /\ ~Shadows(v, u)

\* Unless page numbers are prefixes of each other, a page whose addEntry has
\* returned is found under every word of its title and of its content, with
\* the last place of the word among the places, whatever was stored before.
Listed ==
  \A u \in Crawled : latest[u] # NoPage /\ Apart(u) =>
    \A pt \in Parts :
      LET ws == clean(latest[u][pt])
      IN \A n \in DOMAIN ws :
           (\A m \in DOMAIN ws : m > n => ws[m] # ws[n]) =>
             Numeral[n] \in Places(Text(pt, ws[n]), document[u])

\* A page that is the same at each rerun, was never interrupted, and has a number
\* that is apart from the others' is listed exactly: all the places of each
\* word, none of them twice, no other word.
ExactWhenUnchanged ==
  \A u \in Crawled :
    latest[u] # NoPage /\ u \notin cut /\ seen[u] = {latest[u]} /\ Apart(u) =>
      \A pt \in Parts, w \in DOMAIN word :
        LET ws == clean(latest[u][pt])
        IN /\ Places(Text(pt, w), document[u])
                = {Numeral[n] : n \in {m \in DOMAIN ws : ws[m] = w}}
           /\ ~Repeats(Text(pt, w), document[u])

\* The places of every page but those in Except are what they were.
PlacesKept(Except) ==
  \A pt \in Parts : \A w \in DOMAIN inverted[pt] :
    inverted'[pt][w] # inverted[pt][w] =>
      \A v \in DOMAIN document \ Except :
        Places(inverted'[pt][w], document[v]) = Places(inverted[pt][w], document[v])

\* Indexing a page never changes the places of another one, unless the number of
\* the page is the beginning of the other's: only then does indexOf (line 98)
\* find the wrong entry.
OnlyShadowedTouched ==
  [][PlacesKept({v \in DOMAIN document : v = url \/ (Has(document, url) /\ Shadows(url, v))})]_inverted

\* "if the page already exist, remove" (InvertedIndexer.java:101): the page that
\* is removed is the one being indexed; the entries of the others stay.
OthersKept == [][PlacesKept({url})]_inverted

\* "Remove Duplicate if rerun" (InvertedIndexer.java:62): no place of a page is
\* listed twice under one word.
NoDuplicates ==
  \A pt \in Parts : \A w \in DOMAIN inverted[pt] : \A u \in DOMAIN document :
    ~Repeats(inverted[pt][w], document[u])

=============================================================================
