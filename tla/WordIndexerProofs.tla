-------------------------- MODULE WordIndexerProofs --------------------------
(***************************************************************************)
(* Theorems about WordIndexer, for any stop list, any pages and any number *)
(* of kills: it implements DocumentIndexer, loop by loop, and exceptions   *)
(* lose no entry of invertedWord.  What clean makes of a text plays no     *)
(* part in them: a loop behaves in the same way over any words.            *)
(***************************************************************************)
EXTENDS WordIndexer, FiniteSetTheorems, TLAPS

\* Outside of the two loops no words are in hand.
BetweenLoops == ~InLoop => words = <<>> /\ j = 1

\* The one count of WordIndexer.java:106 holds through all pages of the call.
CountCurrent == pc # "idle" => lastID = Count(word)

TypeOK ==
  /\ IsFiniteSet(DOMAIN word) /\ word \in [DOMAIN word -> Nat]
  /\ lastID \in Nat /\ crashes \in 0..MaxCrashes /\ page \in Pages \cup {NoPage}
  /\ pc \in {"idle", "fetch", "content", "lookup", "mirror"}

Dense ==
  /\ \A v, w \in DOMAIN word : word[v] = word[w] => v = w
  /\ {word[w] : w \in DOMAIN word} = 1..Count(word)

\* The number between the two puts is the word's, and has no mirror entry yet.
Pending ==
  pc = "mirror" => /\ Has(word, words[j]) /\ word[words[j]] = lastID
                   /\ ~Has(invertedWord, lastID)

Mirror == \A id \in DOMAIN invertedWord :
            Has(word, invertedWord[id]) /\ word[invertedWord[id]] = id

IndInv == TypeOK /\ BetweenLoops /\ CountCurrent /\ Dense /\ Pending /\ Mirror

-----------------------------------------------------------------------------
LEMMA PutCounts ==
  ASSUME NEW d, NEW k, NEW v, IsFiniteSet(DOMAIN d), k \notin DOMAIN d
  PROVE  /\ IsFiniteSet(DOMAIN Put(d, k, v))
         /\ Count(d) \in Nat
         /\ Count(Put(d, k, v)) = Count(d) + 1
BY FS_AddElement, FS_CardinalityType DEF Put, Count

LEMMA EmptyFacts ==
  /\ DOMAIN EmptyDB = {}
  /\ IsFiniteSet(DOMAIN EmptyDB)
  /\ Count(EmptyDB) = 0
BY FS_EmptySet DEF EmptyDB, Count

\* The empty databases and the idle process satisfy the invariant.
LEMMA InitInd == Init => IndInv
<1> SUFFICES ASSUME Init PROVE IndInv
  OBVIOUS
<1>1. DOMAIN word = {} /\ IsFiniteSet(DOMAIN word) /\ Count(word) = 0
  BY EmptyFacts DEF Init
<1>2. TypeOK
  BY <1>1, PagesAssumption DEF Init, TypeOK, EmptyDB
<1>3. Dense
  BY <1>1 DEF Dense
<1>4. BetweenLoops /\ CountCurrent /\ Pending /\ Mirror
  BY EmptyFacts DEF Init, BetweenLoops, CountCurrent, Pending, Mirror
<1> QED BY <1>2, <1>3, <1>4 DEF IndInv

\* The steps that leave the databases alone keep the invariant.
LEMMA SameDatabases ==
  ASSUME TypeOK, Dense, Mirror, UNCHANGED db, BetweenLoops', CountCurrent', pc' # "mirror",
         lastID' \in Nat, crashes' \in 0..MaxCrashes, page' \in Pages \cup {NoPage},
         pc' \in {"idle", "fetch", "content", "lookup"}
  PROVE  IndInv'
<1>1. word' = word /\ invertedWord' = invertedWord
  BY DEF db
<1>2. TypeOK' /\ Pending'
  BY <1>1 DEF TypeOK, Pending
<1>3. Dense' /\ Mirror'
  BY <1>1 DEF Dense, Mirror, Count, Has
<1> QED BY <1>2, <1>3 DEF IndInv

\* By density lastID + 1 is the next free number, in both databases.
LEMMA PutIDInd ==
  ASSUME IndInv, PutID
  PROVE  IndInv'
<1> DEFINE w == words[j]
           n == lastID + 1
<1>1. /\ w \notin DOMAIN word /\ n \in Nat /\ lastID \in Nat /\ lastID = Count(word)
      /\ lastID' = n /\ words' = words /\ j' = j /\ pc' = "mirror" /\ crashes' = crashes
      /\ page' = page
      /\ invertedWord' = invertedWord
  BY DEF PutID, IndInv, TypeOK, CountCurrent, Has
<1>2. /\ word' = Put(word, w, n) /\ DOMAIN word' = DOMAIN word \cup {w}
      /\ word'[w] = n /\ \A x \in DOMAIN word : word'[x] = word[x]
  BY <1>1 DEF PutID, Put
<1>3. IsFiniteSet(DOMAIN word') /\ Count(word') = n
  BY <1>1, <1>2, PutCounts DEF IndInv, TypeOK
<1>4. word' \in [DOMAIN word' -> Nat]
  BY <1>1, <1>2 DEF IndInv, TypeOK, Put
<1>5. TypeOK'
  BY <1>1, <1>3, <1>4 DEF IndInv, TypeOK
<1>6. {word[x] : x \in DOMAIN word} = 1..lastID
  BY <1>1 DEF IndInv, Dense
<1>7. \A x \in DOMAIN word : word[x] \in 1..lastID
  BY <1>6
<1>8. Dense'
  <2>1. \A x, y \in DOMAIN word' : word'[x] = word'[y] => x = y
    BY <1>1, <1>2, <1>7 DEF IndInv, Dense
  <2>2. {word'[x] : x \in DOMAIN word'} = (1..lastID) \cup {n}
    BY <1>2, <1>6
  <2>3. (1..lastID) \cup {n} = 1..n
    BY <1>1
  <2> QED BY <1>3, <2>1, <2>2, <2>3 DEF Dense
<1>9. ~Has(invertedWord, n)
  BY <1>1, <1>7 DEF IndInv, Mirror, Has
<1>10. Pending'
  BY <1>1, <1>2, <1>9 DEF Pending, Has
<1>11. Mirror' /\ BetweenLoops' /\ CountCurrent'
  BY <1>1, <1>2, <1>3 DEF IndInv, Mirror, Has, BetweenLoops, InLoop, CountCurrent
<1> QED BY <1>5, <1>8, <1>10, <1>11 DEF IndInv

\* The second put mirrors the number just given.
LEMMA PutWordInd ==
  ASSUME IndInv, PutWord
  PROVE  IndInv'
<1>1. /\ Has(word, words[j]) /\ word[words[j]] = lastID /\ pc' = "lookup"
      /\ word' = word /\ lastID' = lastID /\ crashes' = crashes /\ page' = page
  BY DEF PutWord, IndInv, Pending
<1>2. /\ DOMAIN invertedWord' = DOMAIN invertedWord \cup {lastID}
      /\ invertedWord'[lastID] = words[j]
      /\ \A x \in DOMAIN invertedWord : x # lastID => invertedWord'[x] = invertedWord[x]
  BY DEF PutWord, Put
<1>3. TypeOK' /\ Dense' /\ CountCurrent'
  BY <1>1 DEF PutWord, IndInv, TypeOK, Dense, CountCurrent, Count
<1>4. Mirror'
  BY <1>1, <1>2 DEF IndInv, Mirror, Has
<1>5. BetweenLoops' /\ Pending'
  BY <1>1 DEF BetweenLoops, InLoop, Pending
<1> QED BY <1>3, <1>4, <1>5 DEF IndInv

\* Every step, an exception or a kill included, keeps the invariant.
LEMMA NextInd == IndInv /\ [Next]_vars => IndInv'
<1> SUFFICES ASSUME IndInv, [Next]_vars PROVE IndInv'
  OBVIOUS
<1>1. TypeOK /\ BetweenLoops /\ CountCurrent /\ Dense /\ Mirror /\ Count(word) \in Nat
  BY FS_CardinalityType DEF IndInv, TypeOK, Count
<1>2. CASE \/ \E w \in Words : AddWord(w)
           \/ \E n \in 1..MaxPages : IndexWords(n)
  <2>1. /\ UNCHANGED db /\ word' = word /\ lastID' = Count(word) /\ crashes' = crashes
        /\ pc = "idle" /\ j' = j /\ page' = page
        /\ pc' = "lookup" \/ (pc' = "fetch" /\ words' = words)
    BY <1>2 DEF AddWord, IndexWords, db
  <2>2. BetweenLoops' /\ CountCurrent'
    BY <1>1, <2>1 DEF BetweenLoops, InLoop, CountCurrent
  <2> QED BY <1>1, <2>1, <2>2, SameDatabases DEF TypeOK
<1>3. CASE LoadTitle \/ LoadContent \/ SkipKnown \/ EndPart
  <2>1. /\ UNCHANGED db /\ word' = word /\ lastID' = lastID /\ crashes' = crashes
        /\ pc # "idle" /\ pc' \in {"lookup", "content", "fetch"}
        /\ page' \in Pages \cup {page, NoPage}
        /\ pc' = "lookup" \/ (words' = <<>> /\ j' = 1)
    BY <1>3 DEF LoadTitle, LoadContent, SkipKnown, EndPart, db
  <2>2. BetweenLoops' /\ CountCurrent'
    BY <1>1, <2>1 DEF BetweenLoops, InLoop, CountCurrent
  <2> QED BY <1>1, <2>1, <2>2, SameDatabases DEF TypeOK
<1>4. CASE Throw \/ Return \/ Crash
  <2>1. /\ UNCHANGED db /\ lastID' = 0 /\ words' = <<>> /\ j' = 1 /\ pc' = "idle"
        /\ crashes' \in 0..MaxCrashes /\ page' = NoPage
    BY <1>1, <1>4, PagesAssumption DEF Throw, Return, Crash, NoCall, TypeOK
  <2>2. BetweenLoops' /\ CountCurrent'
    BY <2>1 DEF BetweenLoops, CountCurrent
  <2> QED BY <1>1, <2>1, <2>2, SameDatabases
<1>5. CASE PutID
  BY <1>5, PutIDInd
<1>6. CASE PutWord
  BY <1>6, PutWordInd
<1>7. CASE UNCHANGED vars
  BY <1>7 DEF vars, db, IndInv, TypeOK, BetweenLoops, InLoop, CountCurrent, Dense, Pending,
              Mirror, Count, Has
<1> QED BY <1>2, <1>3, <1>4, <1>5, <1>6, <1>7 DEF Next, Step

\* The inductive invariant holds throughout every behaviour.
THEOREM IndInvariant == Spec => []IndInv
BY InitInd, NextInd, PTL DEF Spec

\* Word numbers are 1..n without a repeat, one count is good for all pages of a
\* call (WordIndexer.java:106), and invertedWord never names the wrong word.
THEOREM WordIdsDense == Spec => [](Dense /\ CountCurrent /\ Mirror)
<1>1. IndInv => Dense /\ CountCurrent /\ Mirror
  BY DEF IndInv
<1> QED BY <1>1, IndInvariant, PTL

-----------------------------------------------------------------------------
Lost == {w \in DOMAIN word : ~Has(invertedWord, word[w])}

LostBound == /\ IsFiniteSet(Lost)
             /\ Cardinality(Lost) <= crashes + (IF pc = "mirror" THEN 1 ELSE 0)

\* Only between the two puts there is one more lost word than kills.
LEMMA LostStep == IndInv /\ LostBound /\ [Next]_vars => LostBound'
<1> SUFFICES ASSUME IndInv, LostBound, [Next]_vars PROVE LostBound'
  OBVIOUS
<1>1. IsFiniteSet(Lost) /\ Cardinality(Lost) \in Nat /\ crashes \in Nat
  BY FS_CardinalityType, PagesAssumption DEF IndInv, TypeOK, LostBound
<1>2. CASE PutID
  <2>1. IndInv'
    BY NextInd
  <2>2. /\ DOMAIN word' = DOMAIN word \cup {words[j]} /\ words[j] \notin DOMAIN word
        /\ \A x \in DOMAIN word : word'[x] = word[x]
        /\ invertedWord' = invertedWord /\ crashes' = crashes
        /\ pc = "lookup" /\ pc' = "mirror" /\ words' = words /\ j' = j
    BY <1>2 DEF PutID, Put, Has
  <2>3. word'[words[j]] \notin DOMAIN invertedWord
    BY <2>1, <2>2 DEF IndInv, Pending, Has
  <2>4. Lost' = Lost \cup {words[j]} /\ words[j] \notin Lost
    BY <2>2, <2>3 DEF Lost, Has
  <2>5. IsFiniteSet(Lost') /\ Cardinality(Lost') = Cardinality(Lost) + 1
    BY <1>1, <2>4, FS_AddElement
  <2> QED BY <1>1, <2>2, <2>5 DEF LostBound
<1>3. CASE PutWord
  <2>1. /\ words[j] \in DOMAIN word /\ word[words[j]] = lastID
        /\ lastID \notin DOMAIN invertedWord
        /\ DOMAIN invertedWord' = DOMAIN invertedWord \cup {lastID}
        /\ word' = word /\ crashes' = crashes /\ pc = "mirror" /\ pc' = "lookup"
    BY <1>3 DEF PutWord, Put, Has, IndInv, Pending
  <2>2. Lost' = Lost \ {words[j]} /\ words[j] \in Lost
    BY <2>1 DEF Lost, Has, IndInv, Dense
  <2>3. IsFiniteSet(Lost') /\ Cardinality(Lost') = Cardinality(Lost) - 1
    BY <1>1, <2>2, FS_RemoveElement
  <2> QED BY <1>1, <2>1, <2>3 DEF LostBound
<1>4. CASE Crash
  <2>1. word' = word /\ invertedWord' = invertedWord /\ crashes' = crashes + 1 /\ pc' = "idle"
    BY <1>4 DEF Crash, NoCall, db
  <2>2. Lost' = Lost
    BY <2>1 DEF Lost, Has
  <2> QED BY <1>1, <2>1, <2>2 DEF LostBound
<1>5. CASE \/ UNCHANGED vars \/ LoadTitle \/ LoadContent \/ Throw \/ SkipKnown \/ EndPart
           \/ Return
           \/ \E w \in Words : AddWord(w)
           \/ \E n \in 1..MaxPages : IndexWords(n)
  <2>1. /\ word' = word /\ invertedWord' = invertedWord /\ crashes' = crashes
        /\ pc' = pc \/ (pc # "mirror" /\ pc' # "mirror")
    BY <1>5 DEF vars, db, LoadTitle, LoadContent, Throw, NoCall, SkipKnown, EndPart, Return,
                AddWord, IndexWords
  <2>2. Lost' = Lost
    BY <2>1 DEF Lost, Has
  <2> QED BY <2>1, <2>2 DEF LostBound
<1> QED BY <1>2, <1>3, <1>4, <1>5 DEF Next, Step

\* The operators of RocksDB and FiniteSets are the same for both indexers.
LEMMA SameOperators ==
  /\ Indexer!EmptyDB = EmptyDB
  /\ \A d, k : Indexer!Has(d, k) <=> Has(d, k)
  /\ \A d, k, v : Indexer!Put(d, k, v) = Put(d, k, v)
  /\ \A S : Indexer!Cardinality(S) = Cardinality(S)
  /\ \A d : Indexer!Count(d) = Count(d)
<1>1. \A d, k, v : Indexer!Put(d, k, v) = Put(d, k, v)
  BY DEF Indexer!Put, Put
<1>2. \A S : Indexer!Cardinality(S) = Cardinality(S)
  BY DEF Indexer!Cardinality, Cardinality
<1>3. \A d : Indexer!Count(d) = Count(d)
  BY <1>2 DEF Indexer!Count, Count
<1> QED BY <1>1, <1>2, <1>3 DEF Indexer!EmptyDB, EmptyDB, Indexer!Has, Has

\* A word is lost from invertedWord by a kill only, at most one by each: an
\* exception (WordIndexer.java:118, 120 and 135) never falls between the two puts.
THEOREM OnlyKillsLoseWords == Spec => []OnlyKillsLose
<1>1. Init => LostBound
  <2> SUFFICES ASSUME Init PROVE LostBound
    OBVIOUS
  <2>1. Lost = {}
    BY EmptyFacts DEF Init, Lost
  <2> QED BY <2>1, FS_EmptySet DEF Init, LostBound
<1>2. LostBound => OnlyKillsLose
  <2>1. Indexer!Unmirrored = Lost
    BY DEF Lost, Has, Indexer!Unmirrored, Indexer!Has
  <2> QED BY <2>1, SameOperators DEF LostBound, OnlyKillsLose, InLoop, Indexer!OneLostPerCrash
<1> QED BY <1>1, <1>2, LostStep, IndInvariant, PTL DEF Spec

-----------------------------------------------------------------------------
\* WordIndexer implements DocumentIndexer: each loop over a title or a content is
\* a call of index_pages with its own count, addEntry is addEntry, and what
\* happens between the loops is not visible.
THEOREM Refinement == Spec => ImplementsIndexer
<1>1. Init => Indexer!Init
  BY SameOperators DEF Init, Indexer!Init, InLoop
<1>2. IndInv /\ [Next]_vars => [Indexer!Next]_(Indexer!vars)
  <2> SUFFICES ASSUME IndInv, [Next]_vars PROVE [Indexer!Next]_(Indexer!vars)
    OBVIOUS
  <2> USE SameOperators DEF InLoop
  <2>1. /\ ~InLoop => words = <<>> /\ j = 1
        /\ pc # "idle" => lastID = Count(word)
    BY DEF IndInv, BetweenLoops, CountCurrent
  <2>2. ASSUME NEW w \in Words, AddWord(w) PROVE Indexer!Next
    <3>1. Indexer!Begin(<<w>>)
      BY <2>1, <2>2 DEF AddWord, Indexer!Begin, db
    <3> QED BY <3>1 DEF Indexer!Next, Indexer!AddEntry
  <2>3. ASSUME NEW n \in 1..MaxPages, IndexWords(n) PROVE UNCHANGED Indexer!vars
    BY <2>3 DEF IndexWords, db, Indexer!vars, Indexer!call
  <2>4. CASE LoadTitle
    <3>1. PICK p \in Pages : HasTitle(p) /\ words' = clean(p.title)
      BY <2>4 DEF LoadTitle
    <3>2. Indexer!Begin(clean(p.title))
      BY <2>1, <2>4, <3>1 DEF LoadTitle, Indexer!Begin, db
    <3>3. p.title \in {u \in Titles : ~CleanThrows(u)}
      BY <3>1 DEF Pages, HasTitle
    <3> QED BY <3>2, <3>3 DEF Indexer!Next, Indexer!IndexPages
  <2>5. CASE SkipKnown
    <3>1. Indexer!SkipKnown
      BY <2>5 DEF SkipKnown, Indexer!SkipKnown, db
    <3> QED BY <3>1 DEF Indexer!Next, Indexer!Step
  <2>6. CASE PutID
    <3>1. Indexer!PutID
      BY <2>6 DEF PutID, Indexer!PutID
    <3> QED BY <3>1 DEF Indexer!Next, Indexer!Step
  <2>7. CASE PutWord
    <3>1. Indexer!PutName
      BY <2>7 DEF PutWord, Indexer!PutName
    <3> QED BY <3>1 DEF Indexer!Next, Indexer!Step
  <2>8. CASE EndPart \/ (Return /\ pc = "lookup")
    <3>1. Indexer!Return
      BY <2>8 DEF EndPart, Return, NoCall, Indexer!Return, db
    <3> QED BY <3>1 DEF Indexer!Next, Indexer!Step
  <2>9. CASE Throw \/ (Return /\ pc = "fetch")
    BY <2>1, <2>9 DEF Throw, Return, NoCall, db, Indexer!vars, Indexer!call
  <2>10. CASE Crash
    <3>1. Indexer!Crash
      BY <2>10 DEF Crash, NoCall, db, Indexer!Crash
    <3> QED BY <3>1 DEF Indexer!Next
  <2>11. CASE LoadContent
    <3>1. page.content \in Contents
      BY <2>11 DEF LoadContent, HasContent, IndInv, TypeOK, Pages, NoPage
    <3>2. Indexer!Begin(clean(page.content))
      BY <2>1, <2>11 DEF LoadContent, Indexer!Begin, db
    <3> QED BY <3>1, <3>2 DEF Indexer!Next, Indexer!IndexPages
  <2>12. CASE UNCHANGED vars
    BY <2>12 DEF vars, db, Indexer!vars, Indexer!call
  <2> QED
    BY <2>2, <2>3, <2>4, <2>5, <2>6, <2>7, <2>8, <2>9, <2>10, <2>11, <2>12 DEF Next, Step, Return
<1> QED BY <1>1, <1>2, IndInvariant, PTL DEF Spec, ImplementsIndexer, Indexer!Spec

=============================================================================
