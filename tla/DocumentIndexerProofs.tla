------------------------ MODULE DocumentIndexerProofs ------------------------
(***************************************************************************)
(* Theorems about DocumentIndexer for any set of URLs, any crawl results   *)
(* and any number of deaths of the process.  The inductive invariant is    *)
(* IndInv: the type invariant, the density of the numbers, the soundness   *)
(* of the mirror, what the local lastID means inside a call, and what the  *)
(* loop has done so far.                                                   *)
(***************************************************************************)
EXTENDS DocumentIndexer, FiniteSetTheorems, TLAPS

\* What the loop of index_pages has already done: every URL before i is known.
LoopDone == \A k \in 1..Len(batch) : k < i => Has(document, batch[k])

IndInv == TypeOK /\ IdsDense /\ LastIDCurrent /\ MirrorSound /\ LoopDone

-----------------------------------------------------------------------------
\* Putting a new key raises the count by one.
LEMMA PutCounts ==
  ASSUME NEW db, NEW k, NEW v, IsFiniteSet(DOMAIN db), k \notin DOMAIN db
  PROVE  /\ IsFiniteSet(DOMAIN Put(db, k, v))
         /\ Count(db) \in Nat
         /\ Count(Put(db, k, v)) = Count(db) + 1
BY FS_AddElement, FS_CardinalityType DEF Put, Count

LEMMA EmptyFacts ==
  /\ DOMAIN EmptyDB = {}
  /\ IsFiniteSet(DOMAIN EmptyDB)
  /\ Count(EmptyDB) = 0
BY FS_EmptySet DEF EmptyDB, Count

-----------------------------------------------------------------------------
\* The empty databases and the idle process satisfy the invariant.
LEMMA InitInd == Init => IndInv
<1> SUFFICES ASSUME Init PROVE IndInv
  OBVIOUS
<1> USE EmptyFacts
<1>1. TypeOK
  BY CrashesAssumption DEF Init, TypeOK, EmptyDB
<1>2. IdsDense
  BY DEF Init, IdsDense
<1>3. QED
  BY <1>1, <1>2 DEF Init, IndInv, LastIDCurrent, MirrorSound, LoopDone

\* Starting a call keeps the invariant: the count becomes lastID.
LEMMA BeginInd ==
  ASSUME IndInv, NEW names \in Seq(Names), Begin(names)
  PROVE  IndInv'
<1> USE DEF IndInv, Begin
<1>1. Count(document) \in Nat
  BY FS_CardinalityType DEF TypeOK, Count
<1>2. TypeOK'
  BY <1>1 DEF TypeOK
<1>3. IdsDense' /\ LastIDCurrent' /\ MirrorSound' /\ LoopDone'
  BY DEF IdsDense, LastIDCurrent, MirrorSound, LoopDone, Count, Has
<1>4. QED
  BY <1>2, <1>3

\* Giving a new URL its number keeps the invariant: by density and the
\* currency of lastID the number lastID + 1 is the next free one.
LEMMA PutIDInd ==
  ASSUME IndInv, PutID
  PROVE  IndInv'
<1> DEFINE u == batch[i]
           n == lastID + 1
<1> USE DEF IndInv, PutID
<1>1. /\ u \in Names /\ u \notin DOMAIN document
      /\ n \in Nat
      /\ lastID = Count(document)
  BY DEF TypeOK, LastIDCurrent, Has
<1>2. /\ document' = Put(document, u, n)
      /\ DOMAIN document' = DOMAIN document \cup {u}
      /\ document'[u] = n
      /\ \A x \in DOMAIN document : document'[x] = document[x]
  BY <1>1 DEF Put, Has
<1>3. /\ IsFiniteSet(DOMAIN document')
      /\ Count(document') = n
  BY <1>1, <1>2, PutCounts DEF TypeOK
<1>4. document' \in [DOMAIN document' -> Nat]
  BY <1>1, <1>2 DEF TypeOK, Put
<1>5. TypeOK'
  BY <1>1, <1>2, <1>3, <1>4 DEF TypeOK
<1>6. \A x \in DOMAIN document : document[x] \in 1..lastID
  BY <1>1 DEF IdsDense
<1>7. IdsDense'
  <2>1. \A x, y \in DOMAIN document' : document'[x] = document'[y] => x = y
    BY <1>1, <1>2, <1>6 DEF IdsDense, TypeOK
  <2>2. {document'[x] : x \in DOMAIN document'} = 1..n
    <3>1. {document[x] : x \in DOMAIN document} = 1..lastID
      BY <1>1 DEF IdsDense
    <3>2. {document'[x] : x \in DOMAIN document'} = (1..lastID) \cup {n}
      BY <1>2, <3>1
    <3>3. QED
      BY <3>2 DEF TypeOK
  <2>3. QED
    BY <2>1, <2>2, <1>3 DEF IdsDense
<1>8. \A id \in DOMAIN invertedDocument : id \in 1..lastID
  BY <1>6 DEF MirrorSound, Has
<1>9. LastIDCurrent'
  BY <1>1, <1>2, <1>3, <1>8 DEF LastIDCurrent, Has, TypeOK
<1>10. MirrorSound' /\ LoopDone'
  BY <1>2 DEF MirrorSound, LoopDone, Has
<1>11. QED
  BY <1>5, <1>7, <1>9, <1>10

\* The second put keeps the invariant: it mirrors the number just given.
LEMMA PutNameInd ==
  ASSUME IndInv, PutName
  PROVE  IndInv'
<1> USE DEF IndInv, PutName
<1>1. /\ i <= Len(batch) /\ batch[i] \in Names
      /\ Has(document, batch[i]) /\ document[batch[i]] = lastID
  BY DEF TypeOK, LastIDCurrent
<1>2. /\ DOMAIN invertedDocument' = DOMAIN invertedDocument \cup {lastID}
      /\ invertedDocument'[lastID] = batch[i]
      /\ \A x \in DOMAIN invertedDocument : x # lastID =>
                     invertedDocument'[x] = invertedDocument[x]
  BY DEF Put
<1>3. TypeOK'
  <2>1. invertedDocument' \in [DOMAIN invertedDocument' -> Names]
    BY <1>1, <1>2 DEF TypeOK, Put
  <2>2. QED
    BY <1>1, <1>2, <2>1 DEF TypeOK
<1>4. IdsDense' /\ LastIDCurrent'
  BY DEF IdsDense, LastIDCurrent, Count
<1>5. MirrorSound'
  BY <1>1, <1>2 DEF MirrorSound, Has
<1>6. LoopDone'
  BY <1>1 DEF LoopDone, Has, TypeOK
<1>7. QED
  BY <1>3, <1>4, <1>5, <1>6

\* Every step of the process, its death included, keeps the invariant.
LEMMA NextInd == IndInv /\ [Next]_vars => IndInv'
<1> SUFFICES ASSUME IndInv, [Next]_vars PROVE IndInv'
  OBVIOUS
<1>1. ASSUME NEW n \in Names, AddEntry(n) PROVE IndInv'
  <2>1. <<n>> \in Seq(Names)
    OBVIOUS
  <2>2. QED
    BY <1>1, <2>1, BeginInd DEF AddEntry
<1>2. CASE IndexPages
  BY <1>2, BeginInd, BatchesAssumption DEF IndexPages
<1>3. CASE SkipKnown
  BY <1>3 DEF IndInv, SkipKnown, TypeOK, IdsDense, LastIDCurrent, MirrorSound,
              LoopDone, Has, Count
<1>4. CASE PutID
  BY <1>4, PutIDInd
<1>5. CASE PutName
  BY <1>5, PutNameInd
<1>6. CASE Return
  BY <1>6 DEF IndInv, Return, TypeOK, IdsDense, LastIDCurrent, MirrorSound,
              LoopDone, Has, Count
<1>7. CASE Crash
  BY <1>7, CrashesAssumption DEF IndInv, Crash, TypeOK, IdsDense, LastIDCurrent,
              MirrorSound, LoopDone, Has, Count
<1>8. CASE UNCHANGED vars
  BY <1>8 DEF IndInv, vars, call, TypeOK, IdsDense, LastIDCurrent, MirrorSound,
              LoopDone, Has, Count
<1>9. QED
  BY <1>1, <1>2, <1>3, <1>4, <1>5, <1>6, <1>7, <1>8 DEF Next, Step

\* The inductive invariant holds throughout every behaviour.
THEOREM IndInvariant == Spec => []IndInv
BY InitInd, NextInd, PTL DEF Spec

\* The databases and the locals keep their types.
THEOREM TypeCorrect == Spec => []TypeOK
<1>1. IndInv => TypeOK
  BY DEF IndInv
<1>2. QED
  BY <1>1, IndInvariant, PTL

\* Page numbers are dense and unique for ever, and the cached lastID of
\* DocumentIndexer.java:42-46 is never stale.
THEOREM IdsAlwaysDense == Spec => [](IdsDense /\ LastIDCurrent)
<1>1. IndInv => IdsDense /\ LastIDCurrent
  BY DEF IndInv
<1>2. QED
  BY <1>1, IndInvariant, PTL

\* invertedDocument never names the wrong page.
THEOREM MirrorAlwaysSound == Spec => []MirrorSound
<1>1. IndInv => MirrorSound
  BY DEF IndInv
<1>2. QED
  BY <1>1, IndInvariant, PTL

-----------------------------------------------------------------------------
\* Between the two puts exactly one more URL is unmirrored; the second put
\* takes it back, a death of the process pays for it with a crash.
LEMMA LostStep ==
  ASSUME IndInv, IndInv', [Next]_vars,
         IsFiniteSet(Unmirrored), OneLostPerCrash
  PROVE  IsFiniteSet(Unmirrored') /\ OneLostPerCrash'
<1>0. Cardinality(Unmirrored) \in Nat /\ crashes \in Nat
  BY FS_CardinalityType, CrashesAssumption DEF IndInv, TypeOK
<1>1. CASE PutID
  <2>1. /\ DOMAIN document' = DOMAIN document \cup {batch[i]}
        /\ batch[i] \notin DOMAIN document
        /\ \A x \in DOMAIN document : document'[x] = document[x]
        /\ document'[batch[i]] = lastID'
        /\ ~Has(invertedDocument, lastID')
        /\ invertedDocument' = invertedDocument
    BY <1>1 DEF PutID, Put, Has, IndInv, LastIDCurrent
  <2>2. Unmirrored' = Unmirrored \cup {batch[i]} /\ batch[i] \notin Unmirrored
    BY <2>1 DEF Unmirrored, Has
  <2>3. /\ IsFiniteSet(Unmirrored')
        /\ Cardinality(Unmirrored') = Cardinality(Unmirrored) + 1
    BY <2>2, FS_AddElement
  <2>4. QED
    BY <1>0, <1>1, <2>3 DEF OneLostPerCrash, PutID
<1>2. CASE PutName
  <2>1. /\ batch[i] \in DOMAIN document
        /\ document[batch[i]] = lastID
        /\ ~Has(invertedDocument, lastID)
        /\ DOMAIN invertedDocument' = DOMAIN invertedDocument \cup {lastID}
        /\ document' = document
    BY <1>2 DEF PutName, Put, Has, IndInv, LastIDCurrent
  <2>2. Unmirrored' = Unmirrored \ {batch[i]} /\ batch[i] \in Unmirrored
    BY <2>1 DEF Unmirrored, Has, IndInv, IdsDense
  <2>3. /\ IsFiniteSet(Unmirrored')
        /\ Cardinality(Unmirrored') = Cardinality(Unmirrored) - 1
    BY <2>2, FS_RemoveElement
  <2>4. QED
    BY <1>0, <1>2, <2>3 DEF OneLostPerCrash, PutName
<1>3. CASE Crash
  <2>1. Unmirrored' = Unmirrored
    BY <1>3 DEF Crash, Unmirrored, Has
  <2>2. QED
    BY <1>0, <1>3, <2>1 DEF OneLostPerCrash, Crash
<1>4. CASE UNCHANGED vars \/ SkipKnown \/ Return \/ IndexPages
           \/ \E n \in Names : AddEntry(n)
  <2>1. /\ document' = document /\ invertedDocument' = invertedDocument
        /\ crashes' = crashes
        /\ pc' = pc \/ (pc # "mirror" /\ pc' # "mirror")
    BY <1>4 DEF vars, call, SkipKnown, Return, IndexPages, AddEntry, Begin
  <2>2. Unmirrored' = Unmirrored
    BY <2>1 DEF Unmirrored, Has
  <2>3. QED
    BY <2>1, <2>2 DEF OneLostPerCrash
<1>5. QED
  BY <1>1, <1>2, <1>3, <1>4 DEF Next, Step

\* At most one mirror entry is lost per death of the process, whatever the
\* batches and however many calls have been made.
THEOREM LostBounded == Spec => []OneLostPerCrash
<1> DEFINE Bounded == IsFiniteSet(Unmirrored) /\ OneLostPerCrash
<1>1. Init => Bounded
  <2> SUFFICES ASSUME Init PROVE Bounded
    OBVIOUS
  <2>1. Unmirrored = {}
    BY EmptyFacts DEF Init, Unmirrored
  <2>2. QED
    BY <2>1, FS_EmptySet DEF Init, OneLostPerCrash
<1>2. IndInv /\ IndInv' /\ Bounded /\ [Next]_vars => Bounded'
  BY LostStep
<1>3. Bounded => OneLostPerCrash
  OBVIOUS
<1> HIDE DEF Bounded
<1>4. QED
  BY <1>1, <1>2, <1>3, IndInvariant, PTL DEF Spec

\* Numbers never change once handed out, and a mirror entry lost by a death of
\* the process stays lost: the later calls skip the URL.
THEOREM LossIsPermanent == Spec => NeverRepaired
<1> DEFINE Keeps ==
      /\ \A n \in DOMAIN document : Has(document', n) /\ document'[n] = document[n]
      /\ pc # "mirror" => Unmirrored \subseteq Unmirrored'
<1>1. IndInv /\ [Next]_vars => [Keeps]_vars
  <2> SUFFICES ASSUME IndInv, Next PROVE Keeps
    OBVIOUS
  <2>1. CASE PutID
    BY <2>1 DEF PutID, Put, Has, Unmirrored
  <2>2. CASE PutName
    BY <2>2 DEF PutName, Has
  <2>3. CASE Crash \/ SkipKnown \/ Return \/ IndexPages
             \/ \E n \in Names : AddEntry(n)
    <3>1. document' = document /\ invertedDocument' = invertedDocument
      BY <2>3 DEF Crash, SkipKnown, Return, IndexPages, AddEntry, Begin
    <3>2. QED
      BY <3>1 DEF Unmirrored, Has
  <2>4. QED
    BY <2>1, <2>2, <2>3 DEF Next, Step
<1>2. QED
  BY <1>1, IndInvariant, PTL DEF Spec, NeverRepaired

\* A call that returns has numbered every URL of its batch.
THEOREM ReturnedIsComplete == Spec => ReturnsComplete
<1>1. IndInv /\ [Next]_vars =>
        [Return => \A k \in 1..Len(batch) : Has(document, batch[k])]_vars
  BY DEF IndInv, Return, LoopDone, TypeOK
<1>2. QED
  BY <1>1, IndInvariant, PTL DEF Spec, ReturnsComplete

\* DocumentIndexer implements IdAllocator: the only step that changes document
\* is an Allocate, every other step is a stutter.
THEOREM Refinement == Spec => ImplementsAllocator
<1>1. Init => Allocator!Init
  BY EmptyFacts DEF Init, Allocator!Init
<1>2. IndInv /\ [Next]_vars => [Allocator!Next]_document
  <2> SUFFICES ASSUME IndInv, [Next]_vars PROVE [Allocator!Next]_document
    OBVIOUS
  <2>1. CASE PutID
    <3>1. /\ batch[i] \in Names /\ batch[i] \notin DOMAIN document
          /\ lastID \in Nat /\ Allocator!Used = 1..lastID
      BY <2>1 DEF PutID, Has, IndInv, LastIDCurrent, TypeOK, IdsDense, Allocator!Used
    <3>2. Allocator!Allocate(batch[i])
      BY <2>1, <3>1 DEF PutID, Put, Allocator!Allocate
    <3>3. QED
      BY <3>1, <3>2 DEF Allocator!Next
  <2>2. CASE UNCHANGED vars \/ Crash \/ SkipKnown \/ Return \/ IndexPages
             \/ PutName \/ \E n \in Names : AddEntry(n)
    BY <2>2 DEF vars, Crash, SkipKnown, Return, IndexPages, PutName, AddEntry, Begin
  <2>3. QED
    BY <2>1, <2>2 DEF Next, Step
<1>3. QED
  BY <1>1, <1>2, IndInvariant, PTL DEF Spec, ImplementsAllocator, Allocator!Spec

=============================================================================
