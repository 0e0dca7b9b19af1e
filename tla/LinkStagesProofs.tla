-------------------------- MODULE LinkStagesProofs --------------------------
(***************************************************************************)
(* Theorems about ParentChildIndexer and about LinkStages, for any pages,  *)
(* any links and any number of reruns and kills.                           *)
(*                                                                         *)
(* The first part is about ParentChildIndexer alone.  Its inductive        *)
(* invariant adds to the properties what a call has done so far (Loop) and *)
(* that the numbers in document are dense; the bound on the missing        *)
(* entries needs to tell the entry that the running call still owes from   *)
(* those that kills have lost.                                             *)
(*                                                                         *)
(* The second part shows that what it leaves is enough for PageRankIndexer *)
(* as long as there was no kill.  The invariant ties the keys of five      *)
(* databases: pages with parents, and their parents, have numbers; the     *)
(* numbers are mirrored; the mirrored numbers have ranks; and the parents  *)
(* have lists of children.                                                 *)
(***************************************************************************)
EXTENDS LinkStages, FiniteSetTheorems, TLAPS

\* What a call knows: its page has a number once the loop over the links begins,
\* and the page is a parent of each of the links done.
Loop ==
  /\ pc # "idle" => url \in URLs
  /\ pc = "page" => ~Has(document, url)
  /\ pc \in {"pageURL", "link", "linkURL"} => Has(document, url)
  /\ pc = "linkURL" => i < Len(links) /\ Has(document, links[i + 1])
  /\ pc \in {"idle", "page", "pageURL"} => i = 0
  /\ \A k \in 1..Len(asu) : /\ Has(dbinverted, asu[k])
                            /\ document[url] \in Range(dbinverted[asu[k]])
  /\ \A u \in URLs : begun[u] <= entries

Dense == {document[u] : u \in DOMAIN document} = 1..Count(document)

IndInv == TypeOK /\ Loop /\ Dense /\ ChildrenHaveParents

-----------------------------------------------------------------------------
\* Whatever order a fetch returns the links in, they are URLs.
LEMMA FetchedLinks ==
  ASSUME NEW ls \in LinkSets, NEW s \in Bijection(1..Cardinality(ls), ls)
  PROVE  s \in Seq(URLs)
<1>1. ls \subseteq URLs /\ IsFiniteSet(ls)
  BY LinksAssumption
<1>2. Cardinality(ls) \in Nat
  BY <1>1, FS_CardinalityType
<1>3. s \in [1..Cardinality(ls) -> ls]
  BY DEF Bijection, Injection
<1>4. QED
  BY <1>1, <1>2, <1>3

\* Appending to a list keeps its elements and adds one.
LEMMA AppendRange ==
  ASSUME NEW S, NEW s \in Seq(S), NEW x \in S
  PROVE  Append(s, x) \in Seq(S) /\ Range(Append(s, x)) = Range(s) \cup {x}
<1>1. /\ Append(s, x) \in Seq(S) /\ DOMAIN Append(s, x) = 1..Len(s) + 1
      /\ DOMAIN s = 1..Len(s) /\ Len(s) \in Nat
      /\ Append(s, x)[Len(s) + 1] = x
      /\ \A k \in 1..Len(s) : Append(s, x)[k] = s[k]
  OBVIOUS
<1>2. QED
  BY <1>1 DEF Range

\* The empty databases and the idle process satisfy the invariant.
LEMMA InitInd == Init => IndInv
<1> SUFFICES ASSUME Init PROVE IndInv
  OBVIOUS
<1>1. DOMAIN EmptyDB = {} /\ IsFiniteSet(DOMAIN EmptyDB) /\ Count(EmptyDB) = 0
  BY FS_EmptySet DEF EmptyDB, Count
<1>2. TypeOK
  BY <1>1, LinksAssumption DEF Init, TypeOK, EmptyDB
<1>3. Loop
  BY LinksAssumption DEF Init, Loop
<1>4. Dense
  BY <1>1 DEF Init, Dense
<1>5. ChildrenHaveParents
  BY <1>1 DEF Init, ChildrenHaveParents
<1>6. QED
  BY <1>2, <1>3, <1>4, <1>5 DEF IndInv

\* Fetching the links of a page keeps the invariant.
LEMMA AddEntryInd ==
  ASSUME IndInv, NEW u \in Crawled, AddEntry(u)
  PROVE  IndInv'
<1> USE DEF IndInv, AddEntry
<1>1. u \in URLs /\ links' \in Seq(URLs)
  BY FetchedLinks, LinksAssumption
<1>2. /\ entries' \in 0..MaxEntries
      /\ begun' \in [URLs -> 0..MaxEntries]
      /\ \A v \in URLs : begun'[v] <= entries'
  BY <1>1, LinksAssumption DEF TypeOK, Loop
<1>3. TypeOK'
  BY <1>1, <1>2, SMTT(30) DEF TypeOK, ids
<1>4. Loop'
  BY <1>1, <1>2 DEF Loop, ids, Has
<1>5. QED
  BY <1>3, <1>4 DEF Dense, Count, ChildrenHaveParents, Has, ids

\* A new number keeps the invariant: it is the next one, and no page that has a
\* number gets another.
LEMMA PutIDInd ==
  ASSUME IndInv, PutID
  PROVE  /\ IndInv'
         /\ Target \in URLs \ DOMAIN document
         /\ document' = Put(document, Target, Count(document) + 1)
<1> USE DEF IndInv, PutID
<1>1. Target \in URLs \ DOMAIN document
  BY DEF Target, Loop, TypeOK, Has
<1>2. Count(document) \in Nat
  BY FS_CardinalityType DEF Count, TypeOK
<1>3. /\ DOMAIN document' = DOMAIN document \cup {Target}
      /\ document'[Target] = Count(document) + 1
      /\ \A u \in DOMAIN document : document'[u] = document[u]
  BY <1>1 DEF Put
<1>4. IsFiniteSet(DOMAIN document') /\ Count(document') = Count(document) + 1
  <2>1. IsFiniteSet(DOMAIN document)
    BY DEF TypeOK
  <2> HIDE DEF IndInv, PutID
  <2>2. /\ IsFiniteSet(DOMAIN document \cup {Target})
        /\ Cardinality(DOMAIN document \cup {Target}) = Cardinality(DOMAIN document) + 1
    BY <1>1, <2>1, FS_AddElement
  <2>3. QED
    BY <1>3, <2>2 DEF Count
<1>5. TypeOK'
  <2>1. document' \in [DOMAIN document' -> Nat]
    BY <1>1, <1>2, <1>3 DEF TypeOK, Put
  <2>2. QED
    BY <1>1, <1>3, <1>4, <2>1, SMTT(30) DEF TypeOK, call
<1>6. Loop'
  <2>1. CASE pc = "page"
    <3>1. pc' = "pageURL" /\ url \in DOMAIN document' /\ Len(asu) = 0
      BY <1>3, <2>1 DEF Target, Loop, TypeOK
    <3>2. QED
      BY <2>1, <3>1 DEF Loop, call, Has
  <2>2. CASE pc = "link"
    <3>1. /\ pc' = "linkURL" /\ url \in DOMAIN document /\ document'[url] = document[url]
          /\ i < Len(links) /\ links[i + 1] \in DOMAIN document'
      BY <1>3, <2>2 DEF Target, Loop, Has
    <3>2. url \in DOMAIN document'
      BY <1>3, <3>1
    <3>3. QED
      BY <2>2, <3>1, <3>2 DEF Loop, call, Has
  <2>3. QED
    BY <2>1, <2>2
<1>7. Dense'
  <2>1. {document'[u] : u \in DOMAIN document'} = (1..Count(document)) \cup {Count(document) + 1}
    BY <1>3 DEF Dense
  <2>2. QED
    BY <1>2, <1>4, <2>1 DEF Dense
<1>8. ChildrenHaveParents'
  BY DEF ChildrenHaveParents, Has
<1>9. QED
  BY <1>1, <1>5, <1>6, <1>7, <1>8

\* The second put of a number keeps the invariant.
LEMMA PutURLInd ==
  ASSUME IndInv, PutURL
  PROVE  IndInv'
<1> USE DEF IndInv, PutURL
<1>1. Target \in URLs /\ Has(document, Target) /\ document[Target] \in Nat
  BY DEF Target, Loop, TypeOK, Has
<1>2. /\ DOMAIN invertedDocument' \subseteq Nat
      /\ invertedDocument' \in [DOMAIN invertedDocument' -> URLs]
  BY <1>1 DEF Put, TypeOK
<1>3. TypeOK'
  BY <1>2 DEF TypeOK, call
<1>4. Loop'
  BY DEF Loop, call, Has
<1>5. QED
  BY <1>3, <1>4 DEF Dense, Count, ChildrenHaveParents, Has

\* What the put of a parent does to the lists of parents: one grows by the page.
LEMMA PutParentLists ==
  ASSUME IndInv, PutParent
  PROVE  LET child == document[links[i + 1]]
         IN /\ child \in Nat /\ document[url] \in Nat
            /\ DOMAIN dbinverted' = DOMAIN dbinverted \cup {child}
            /\ dbinverted' \in [DOMAIN dbinverted' -> Seq(Nat)]
            /\ document[url] \in Range(dbinverted'[child])
            /\ \A c \in DOMAIN dbinverted :
                 /\ Range(dbinverted[c]) \subseteq Range(dbinverted'[c])
                 /\ Range(dbinverted'[c]) \subseteq Range(dbinverted[c]) \cup {document[url]}
            /\ child \notin DOMAIN dbinverted => Range(dbinverted'[child]) = {document[url]}
<1> DEFINE child == document[links[i + 1]]
           list == ListOf(dbinverted, child)
<1> USE DEF IndInv, PutParent
<1>1. child \in Nat /\ document[url] \in Nat
  BY DEF Loop, TypeOK, Has
<1>2. list \in Seq(Nat)
  BY <1>1 DEF ListOf, TypeOK, Has
<1>3. /\ Append(list, document[url]) \in Seq(Nat)
      /\ Range(Append(list, document[url])) = Range(list) \cup {document[url]}
  BY <1>1, <1>2, AppendRange
<1>4. /\ DOMAIN dbinverted' = DOMAIN dbinverted \cup {child}
      /\ dbinverted'[child] = Append(list, document[url])
      /\ \A c \in DOMAIN dbinverted : c # child => dbinverted'[c] = dbinverted[c]
  BY DEF Put
<1>5. dbinverted' \in [DOMAIN dbinverted' -> Seq(Nat)]
  BY <1>1, <1>3, <1>4 DEF Put, TypeOK
<1>6. child \in DOMAIN dbinverted => list = dbinverted[child]
  BY DEF ListOf, Has
<1>7. child \notin DOMAIN dbinverted => Range(list) = {}
  BY DEF ListOf, Has, Range
<1> HIDE DEF list, IndInv, PutParent
<1>8. QED
  BY <1>1, <1>3, <1>4, <1>5, <1>6, <1>7

\* Making the page a parent of a link keeps the invariant.
LEMMA PutParentInd ==
  ASSUME IndInv, PutParent
  PROVE  IndInv'
<1> DEFINE child == document[links[i + 1]]
<1>1. /\ child \in Nat
      /\ DOMAIN dbinverted' = DOMAIN dbinverted \cup {child}
      /\ dbinverted' \in [DOMAIN dbinverted' -> Seq(Nat)]
      /\ document[url] \in Range(dbinverted'[child])
      /\ \A c \in DOMAIN dbinverted : Range(dbinverted[c]) \subseteq Range(dbinverted'[c])
  BY PutParentLists
<1>2. /\ pc = "link" /\ i < Len(links)
      /\ asu' = Append(asu, child) /\ i' = i + 1
      /\ UNCHANGED <<document, invertedDocument, db, url, links, pc, entries, crashes, begun>>
  BY DEF PutParent, ids
<1>3. /\ asu' \in Seq(Nat) /\ Len(asu') = i + 1 /\ Len(asu) = i /\ i \in Nat
      /\ asu'[i + 1] = child /\ \A k \in 1..i : asu'[k] = asu[k]
  BY <1>1, <1>2 DEF IndInv, TypeOK
<1>4. TypeOK'
  <2>1. DOMAIN dbinverted' \subseteq Nat
    BY <1>1, SMTT(30) DEF IndInv, TypeOK
  <2>2. i' \in 0..Len(links)
    BY <1>2 DEF IndInv, TypeOK
  <2> HIDE DEF child
  <2>3. QED
    BY <1>1, <1>2, <1>3, <2>1, <2>2 DEF IndInv, TypeOK
<1>5. Loop'
  <2>1. \A k \in 1..Len(asu') : /\ Has(dbinverted', asu'[k])
                                /\ document[url] \in Range(dbinverted'[asu'[k]])
    <3> SUFFICES ASSUME NEW k \in 1..Len(asu')
                 PROVE  /\ Has(dbinverted', asu'[k])
                        /\ document[url] \in Range(dbinverted'[asu'[k]])
      OBVIOUS
    <3> HIDE DEF child
    <3>1. CASE k = i + 1
      BY <1>1, <1>3, <3>1 DEF Has
    <3>2. CASE k \in 1..i
      <4>1. Has(dbinverted, asu[k]) /\ document[url] \in Range(dbinverted[asu[k]])
        BY <1>3, <3>2 DEF IndInv, Loop
      <4>2. QED
        BY <1>1, <1>3, <3>2, <4>1 DEF Has
    <3>3. k = i + 1 \/ k \in 1..i
      BY <1>3
    <3>4. QED
      BY <3>1, <3>2, <3>3
  <2>2. QED
    BY <1>2, <2>1 DEF IndInv, Loop, Has
<1>6. ChildrenHaveParents'
  BY <1>1, <1>2 DEF IndInv, ChildrenHaveParents, Has
<1>7. QED
  BY <1>2, <1>4, <1>5, <1>6 DEF IndInv, Dense, Count

\* Storing the links of the page keeps the invariant.
LEMMA ReturnInd ==
  ASSUME IndInv, Return
  PROVE  IndInv'
<1> USE DEF IndInv, Return, EndCall
<1>1. document[url] \in Nat /\ asu \in Seq(Nat)
  BY DEF Loop, TypeOK, Has
<1>2. DOMAIN db' \subseteq Nat /\ db' \in [DOMAIN db' -> Seq(Nat)]
  BY <1>1 DEF Put, TypeOK
<1>3. TypeOK'
  BY <1>2 DEF TypeOK, ids
<1>4. Loop'
  BY DEF Loop, ids
<1>5. ChildrenHaveParents'
  <2>1. \A c \in Range(asu) : Has(dbinverted, c) /\ document[url] \in Range(dbinverted[c])
    BY <1>1 DEF Loop, Range
  <2>2. \A p \in DOMAIN db' : (p \in DOMAIN db /\ db'[p] = db[p])
                              \/ (p = document[url] /\ db'[p] = asu)
    BY DEF Put
  <2>3. QED
    BY <2>1, <2>2 DEF ChildrenHaveParents
<1>6. QED
  BY <1>3, <1>4, <1>5 DEF Dense, Count, ids

\* Every step, a kill included, keeps the invariant.
LEMMA NextInd == IndInv /\ [Next]_vars => IndInv'
<1> SUFFICES ASSUME IndInv, [Next]_vars PROVE IndInv'
  OBVIOUS
<1>1. CASE \E u \in Crawled : AddEntry(u)
  BY <1>1, AddEntryInd
<1>2. CASE Step
  BY <1>2, PutIDInd, PutURLInd, PutParentInd, ReturnInd DEF Step
<1>3. CASE Crash
  <2>1. TypeOK'
    BY <1>3, LinksAssumption, SMTT(30) DEF IndInv, TypeOK, Crash, EndCall, ids
  <2>2. Loop'
    BY <1>3 DEF IndInv, Loop, Crash, EndCall, ids
  <2>3. QED
    BY <1>3, <2>1, <2>2 DEF IndInv, Dense, Count, ChildrenHaveParents, Has, Crash, ids
<1>4. CASE UNCHANGED vars
  BY <1>4, SMTT(30) DEF IndInv, TypeOK, Loop, Dense, Count, ChildrenHaveParents,
                        Has, vars, ids, call
<1>5. QED
  BY <1>1, <1>2, <1>3, <1>4 DEF Next

\* The inductive invariant holds in every reachable state.
THEOREM IndInvariant == Spec => []IndInv
BY InitInd, NextInd, PTL DEF Spec

\* The databases and the locals keep their types.
THEOREM TypeCorrect == Spec => []TypeOK
<1>1. IndInv => TypeOK
  BY DEF IndInv
<1>2. QED
  BY <1>1, IndInvariant, PTL

\* A stored link is known from both ends, through every kill and rerun.
THEOREM BothEnds == Spec => []ChildrenHaveParents
<1>1. IndInv => ChildrenHaveParents
  BY DEF IndInv
<1>2. QED
  BY <1>1, IndInvariant, PTL

-----------------------------------------------------------------------------
\* The page whose entry in db the running call owes: it is a parent already.
Owed == IF pc \in {"link", "linkURL"} /\ i > 0 THEN {document[url]} ELSE {}

\* The parents whose entry in db was lost.
Lost == Parents \ (DOMAIN db \cup Owed)

LostBound == IsFiniteSet(Lost) /\ Cardinality(Lost) <= crashes

\* No step but a kill adds to what is lost.
LEMMA LostGrows ==
  ASSUME IndInv, IndInv', [Next]_vars
  PROVE  \/ Lost' \subseteq Lost /\ crashes' = crashes
         \/ Lost' \subseteq Lost \cup {document[url]} /\ crashes' = crashes + 1
<1>1. CASE (\E u \in Crawled : AddEntry(u)) \/ UNCHANGED vars
  <2>1. /\ UNCHANGED <<document, db, dbinverted, crashes>>
        /\ Owed = {} \/ Owed' = Owed
    BY <1>1 DEF AddEntry, vars, ids, call, Owed
  <2>2. Parents' = Parents
    BY <2>1 DEF Parents
  <2>3. QED
    BY <2>1, <2>2 DEF Lost
<1>2. CASE PutID
  <2>1. UNCHANGED <<db, dbinverted, crashes, url, i>>
    BY <1>2 DEF PutID, call
  <2>2. Owed' = Owed
    <3>1. CASE pc = "page"
      BY <1>2, <3>1 DEF PutID, Owed
    <3>2. CASE pc = "link"
      <4>1. url \in DOMAIN document /\ url # Target
        BY <1>2, <3>2, PutIDInd DEF IndInv, Loop, Has
      <4>2. document'[url] = document[url]
        BY <1>2, <4>1 DEF PutID, Put
      <4>3. pc' = "linkURL"
        BY <1>2, <3>2 DEF PutID
      <4>4. QED
        BY <2>1, <3>2, <4>2, <4>3 DEF Owed
    <3>3. QED
      BY <1>2, <3>1, <3>2 DEF PutID
  <2>3. Parents' = Parents
    BY <2>1 DEF Parents
  <2>4. QED
    BY <2>1, <2>2, <2>3 DEF Lost
<1>3. CASE PutURL
  <2>1. /\ UNCHANGED <<document, db, dbinverted, crashes, url, i>>
        /\ pc' = "link" /\ pc \in {"pageURL", "linkURL"} /\ (pc = "pageURL" => i = 0)
    BY <1>3 DEF PutURL, call, IndInv, Loop
  <2>2. Owed' = Owed
    BY <2>1 DEF Owed
  <2>3. Parents' = Parents
    BY <2>1 DEF Parents
  <2>4. QED
    BY <2>1, <2>2, <2>3 DEF Lost
<1>4. CASE PutParent
  <2>1. /\ UNCHANGED <<document, db, crashes, url>>
        /\ pc = "link" /\ pc' = "link" /\ i' = i + 1 /\ i \in Nat
    BY <1>4 DEF PutParent, ids, IndInv, TypeOK
  <2>2. Owed' = {document[url]} /\ Owed \subseteq {document[url]}
    BY <2>1 DEF Owed
  <2>3. Parents' \subseteq Parents \cup {document[url]}
    BY <1>4, PutParentLists DEF Parents
  <2>4. QED
    BY <2>1, <2>2, <2>3 DEF Lost
<1>5. CASE Return
  <2>1. /\ UNCHANGED <<document, dbinverted, crashes>>
        /\ pc = "link" /\ pc' = "idle" /\ i = Len(links) /\ i \in Nat
        /\ i > 0 => DOMAIN db' = DOMAIN db \cup {document[url]}
        /\ i = 0 => db' = db
    BY <1>5 DEF Return, EndCall, ids, IndInv, TypeOK, Put
  <2>2. Owed' = {} /\ (i = 0 => Owed = {}) /\ (i > 0 => Owed = {document[url]})
    BY <2>1 DEF Owed
  <2>3. Parents' = Parents
    BY <2>1 DEF Parents
  <2>4. QED
    BY <2>1, <2>2, <2>3 DEF Lost
<1>6. CASE Crash
  <2>1. UNCHANGED <<document, db, dbinverted>> /\ crashes' = crashes + 1 /\ pc' = "idle"
    BY <1>6 DEF Crash, EndCall, ids
  <2>2. Owed' = {} /\ Owed \subseteq {document[url]}
    BY <2>1 DEF Owed
  <2>3. Parents' = Parents
    BY <2>1 DEF Parents
  <2>4. QED
    BY <2>1, <2>2, <2>3 DEF Lost
<1>7. QED
  BY <1>1, <1>2, <1>3, <1>4, <1>5, <1>6 DEF Next, Step

\* A set with at most b elements that grows by at most one has at most b + 1.
LEMMA AtMostOneMore ==
  ASSUME NEW S, NEW T, NEW x, NEW b \in Nat,
         IsFiniteSet(S), Cardinality(S) <= b, T \subseteq S \cup {x}
  PROVE  IsFiniteSet(T) /\ Cardinality(T) <= b + 1
<1>1. /\ IsFiniteSet(S \cup {x}) /\ Cardinality(S) \in Nat
      /\ Cardinality(S \cup {x}) \in {Cardinality(S), Cardinality(S) + 1}
  BY FS_AddElement, FS_CardinalityType
<1>2. IsFiniteSet(T) /\ Cardinality(T) <= Cardinality(S \cup {x}) /\ Cardinality(T) \in Nat
  BY <1>1, FS_Subset, FS_CardinalityType
<1>3. QED
  BY <1>1, <1>2

\* Nothing is lost at first.
LEMMA InitLost == Init => LostBound
<1> SUFFICES ASSUME Init PROVE LostBound
  OBVIOUS
<1>1. DOMAIN dbinverted = {}
  BY DEF Init, EmptyDB
<1>2. Lost = {}
  BY <1>1 DEF Lost, Parents
<1>3. QED
  BY <1>2, FS_EmptySet DEF Init, LostBound

\* Each kill pays for the one entry that it may lose.
LEMMA NextLost ==
  ASSUME LostBound, IndInv, IndInv', [Next]_vars
  PROVE  LostBound'
<1>1. crashes \in Nat
  BY LinksAssumption DEF IndInv, TypeOK
<1>2. CASE Lost' \subseteq Lost /\ crashes' = crashes
  <2>1. IsFiniteSet(Lost') /\ Cardinality(Lost') <= Cardinality(Lost)
    BY <1>2, FS_Subset DEF LostBound
  <2>2. Cardinality(Lost') \in Nat /\ Cardinality(Lost) \in Nat
    BY <2>1, FS_CardinalityType DEF LostBound
  <2>3. QED
    BY <1>1, <1>2, <2>1, <2>2 DEF LostBound
<1>3. CASE Lost' \subseteq Lost \cup {document[url]} /\ crashes' = crashes + 1
  BY <1>1, <1>3, AtMostOneMore DEF LostBound
<1>4. QED
  BY <1>2, <1>3, LostGrows

\* What is missing was lost, but for the entry that the running call owes.
LEMMA LostMissing ==
  ASSUME LostBound, IndInv
  PROVE  MissingPerCrash
<1>1. crashes \in Nat
  BY LinksAssumption DEF IndInv, TypeOK
<1>2. CASE pc = "idle"
  <2>1. Parents \ DOMAIN db = Lost
    BY <1>2 DEF Lost, Owed
  <2>2. QED
    BY <1>1, <1>2, <2>1 DEF LostBound, MissingPerCrash
<1>3. CASE pc # "idle"
  <2>1. Parents \ DOMAIN db \subseteq Lost \cup {document[url]}
    BY DEF Lost, Owed
  <2>2. Cardinality(Parents \ DOMAIN db) <= crashes + 1
    BY <1>1, <2>1, AtMostOneMore DEF LostBound
  <2>3. QED
    BY <1>3, <2>2 DEF MissingPerCrash
<1>4. QED
  BY <1>2, <1>3

\* At most one parent without children is left behind for each kill, however
\* often pages are indexed and whatever links they have.
THEOREM MissingBounded == Spec => []MissingPerCrash
<1>1. LostBound /\ IndInv /\ IndInv' /\ [Next]_vars => LostBound'
  BY NextLost
<1>2. LostBound /\ IndInv => MissingPerCrash
  BY LostMissing
<1>3. QED
  BY InitLost, <1>1, <1>2, IndInvariant, PTL DEF Spec

\* Pages and links that ParentChildIndexer numbers get the numbers that the
\* abstract allocator would give them.
THEOREM Refinement == Spec => ImplementsAllocator
<1>1. Init => Allocator!Init
  BY DEF Init, EmptyDB, Allocator!Init
<1>2. IndInv /\ [Next]_vars => [Allocator!Next]_document
  <2> SUFFICES ASSUME IndInv, [Next]_vars PROVE [Allocator!Next]_document
    OBVIOUS
  <2>1. CASE PutID
    <3>1. /\ Target \in URLs \ DOMAIN document
          /\ document' = Put(document, Target, Count(document) + 1)
      BY <2>1, PutIDInd
    <3>2. Count(document) \in Nat /\ Allocator!Used = 1..Count(document)
      BY FS_CardinalityType DEF IndInv, TypeOK, Dense, Count, Allocator!Used
    <3>3. Allocator!Allocate(Target)
      BY <3>1, <3>2 DEF Put, Allocator!Allocate
    <3>4. QED
      BY <3>1, <3>3 DEF Allocator!Next
  <2>2. CASE \/ UNCHANGED vars \/ Crash \/ PutURL \/ PutParent \/ Return
             \/ \E u \in Crawled : AddEntry(u)
    BY <2>2 DEF vars, ids, Crash, PutURL, PutParent, Return, AddEntry
  <2>3. QED
    BY <2>1, <2>2 DEF Next, Step
<1>3. QED
  BY <1>1, <1>2, IndInvariant, PTL DEF Spec, ImplementsAllocator, Allocator!Spec

-----------------------------------------------------------------------------
(* ParentChildIndexer followed by PageRankIndexer.                         *)

Numbers == {document[u] : u \in DOMAIN document}

\* Only pages with numbers stand in the lists of parents, or have one.
Numbered == DOMAIN dbinverted \subseteq Numbers /\ Parents \subseteq Numbers

\* The number between the two puts of DocumentIndexer.addEntry.
Pending == IF pc \in {"pageURL", "linkURL"} THEN {document[Target]} ELSE {}

\* Without a kill every number is mirrored at the end of the call.
Mirrored == crashes = 0 => Numbers \subseteq DOMAIN invertedDocument \cup Pending

\* What Initialize and index_ranks have set up.
Ranking ==
  /\ stage \in {"idle", "initialized", "rank", "thrown", "done"}
  /\ stage \in {"idle", "initialized"} => n = 0
  /\ stage # "idle" => pc = "idle" /\ DOMAIN invertedDocument \subseteq DOMAIN PageRankIndex
  /\ stage = "rank" => order \in Seq(DOMAIN dbinverted) /\ n \in 0..Len(order)

StagesInv == /\ IndInv /\ LostBound /\ Numbered /\ Mirrored /\ Ranking
             /\ OnlyKillsBreakRanks

-----------------------------------------------------------------------------
\* The empty databases and the idle process satisfy the invariant.
LEMMA StagesInitInv == StagesInit => StagesInv
<1> SUFFICES ASSUME StagesInit PROVE StagesInv
  OBVIOUS
<1>1. IndInv /\ LostBound
  BY InitInd, InitLost DEF StagesInit
<1>2. DOMAIN document = {} /\ DOMAIN dbinverted = {} /\ stage = "idle" /\ n = 0
  BY DEF StagesInit, Init, EmptyDB, Ranks!Init
<1>3. Numbered /\ Mirrored
  BY <1>2 DEF Numbered, Mirrored, Numbers, Parents
<1>4. QED
  BY <1>1, <1>2, <1>3 DEF StagesInv, Ranking, OnlyKillsBreakRanks

\* A step of ParentChildIndexer puts only numbered pages into the lists.
LEMMA NumberedStep ==
  ASSUME IndInv, Numbered, [Next]_vars
  PROVE  Numbered'
<1>1. CASE PutID
  <2>1. /\ Target \notin DOMAIN document
        /\ document' = Put(document, Target, Count(document) + 1)
    BY <1>1, PutIDInd
  <2>2. Numbers \subseteq Numbers'
    BY <2>1 DEF Numbers, Put
  <2>3. dbinverted' = dbinverted
    BY <1>1 DEF PutID
  <2>4. Parents' = Parents
    BY <2>3 DEF Parents
  <2>5. QED
    BY <2>2, <2>3, <2>4 DEF Numbered
<1>2. CASE PutParent
  <2> DEFINE child == document[links[i + 1]]
  <2>1. child \in Numbers /\ document[url] \in Numbers /\ Numbers' = Numbers
    BY <1>2 DEF PutParent, ids, Has, Numbers, IndInv, Loop
  <2>2. /\ DOMAIN dbinverted' = DOMAIN dbinverted \cup {child}
        /\ Parents' \subseteq Parents \cup {document[url]}
    BY <1>2, PutParentLists DEF Parents
  <2>3. QED
    BY <2>1, <2>2 DEF Numbered
<1>3. CASE \/ (\E u \in Crawled : AddEntry(u)) \/ PutURL \/ Return \/ Crash
           \/ UNCHANGED vars
  <2>1. document' = document /\ dbinverted' = dbinverted
    BY <1>3 DEF AddEntry, PutURL, Return, Crash, vars, ids
  <2>2. Parents' = Parents /\ Numbers' = Numbers
    BY <2>1 DEF Parents, Numbers
  <2>3. QED
    BY <2>1, <2>2 DEF Numbered
<1>4. QED
  BY <1>1, <1>2, <1>3 DEF Next, Step

\* Without a kill, the second put of a number follows the first.
LEMMA MirroredStep ==
  ASSUME IndInv, Mirrored, [Next]_vars
  PROVE  Mirrored'
<1>1. CASE PutID
  <2>1. /\ Target \notin DOMAIN document
        /\ document' = Put(document, Target, Count(document) + 1)
    BY <1>1, PutIDInd
  <2>2. /\ pc \in {"page", "link"} /\ pc' = IF pc = "page" THEN "pageURL" ELSE "linkURL"
        /\ UNCHANGED <<invertedDocument, crashes, url, links, i>>
    BY <1>1 DEF PutID, call
  <2>3. Target' = Target
    BY <2>2 DEF Target
  <2>4. Numbers' \subseteq Numbers \cup {document'[Target]}
    BY <2>1 DEF Numbers, Put
  <2>5. Pending = {} /\ Pending' = {document'[Target]}
    BY <2>2, <2>3 DEF Pending
  <2>6. QED
    BY <2>2, <2>4, <2>5 DEF Mirrored
<1>2. CASE PutURL
  <2>1. /\ DOMAIN invertedDocument' = DOMAIN invertedDocument \cup {document[Target]}
        /\ UNCHANGED <<document, crashes>>
    BY <1>2 DEF PutURL, Put
  <2>2. Pending \subseteq {document[Target]} /\ Numbers' = Numbers
    BY <2>1 DEF Pending, Numbers
  <2>3. QED
    BY <2>1, <2>2 DEF Mirrored
<1>3. CASE Crash
  BY <1>3, LinksAssumption DEF Crash, Mirrored, IndInv, TypeOK
<1>4. CASE PutParent \/ Return \/ \E u \in Crawled : AddEntry(u)
  <2>1. pc \in {"idle", "link"} /\ UNCHANGED <<document, invertedDocument, crashes>>
    BY <1>4 DEF PutParent, Return, AddEntry, ids
  <2>2. Pending = {} /\ Numbers' = Numbers
    BY <2>1 DEF Pending, Numbers
  <2>3. QED
    BY <2>1, <2>2 DEF Mirrored
<1>5. CASE UNCHANGED vars
  <2>1. UNCHANGED <<document, invertedDocument, crashes, url, links, i, pc>>
    BY <1>5 DEF vars, ids, call
  <2>2. Pending' = Pending /\ Numbers' = Numbers
    BY <2>1 DEF Pending, Numbers, Target
  <2>3. QED
    BY <2>1, <2>2 DEF Mirrored
<1>6. QED
  BY <1>1, <1>2, <1>3, <1>4, <1>5 DEF Next, Step

\* Counting is the same inside PageRankIndexer.
LEMMA SameCount == Ranks!Count(dbinverted) = Count(dbinverted)
BY DEF Ranks!Count, Count, Ranks!Cardinality, Cardinality

\* Whatever order the iterator has, it runs through keys of dbinverted.
LEMMA IteratorTypes ==
  ASSUME IndInv, Numbered, NEW s \in Bijection(1..Count(dbinverted), DOMAIN dbinverted)
  PROVE  s \in Seq(DOMAIN dbinverted)
<1>1. Count(document) \in Nat /\ Numbers = 1..Count(document)
  BY FS_CardinalityType DEF IndInv, TypeOK, Dense, Count, Numbers
<1>2. IsFiniteSet(1..Count(document))
  BY <1>1, FS_Interval
<1>3. IsFiniteSet(DOMAIN dbinverted)
  BY <1>1, <1>2, FS_Subset DEF Numbered
<1>4. Cardinality(DOMAIN dbinverted) \in Nat
  BY <1>3, FS_CardinalityType
<1>5. s \in [1..Cardinality(DOMAIN dbinverted) -> DOMAIN dbinverted]
  BY DEF Bijection, Injection, Count
<1>6. QED
  BY <1>4, <1>5

\* Without a kill no get of index_ranks returns null.
LEMMA NoNull ==
  ASSUME StagesInv, stage = "rank", n < Len(order), crashes = 0
  PROVE  Ranks!Computable(order[n + 1])
<1> DEFINE c == order[n + 1]
<1>1. pc = "idle" /\ c \in DOMAIN dbinverted
  BY DEF StagesInv, Ranking
<1>2. Pending = {} /\ Owed = {}
  BY <1>1 DEF Pending, Owed
<1>3. Lost = {}
  <2>1. IsFiniteSet(Lost) /\ Cardinality(Lost) <= 0
    BY DEF StagesInv, LostBound
  <2>2. Cardinality(Lost) = 0
    BY <2>1, FS_CardinalityType
  <2>3. QED
    BY <2>1, <2>2, FS_EmptySet
<1>4. Numbers \subseteq DOMAIN PageRankIndex
  BY <1>2 DEF StagesInv, Mirrored, Ranking
<1>5. Parents \subseteq DOMAIN db
  BY <1>2, <1>3 DEF Lost
<1>6. c \in Numbers /\ Range(dbinverted[c]) \subseteq Parents /\ Parents \subseteq Numbers
  BY <1>1 DEF StagesInv, Numbered, Parents
<1>7. QED
  BY <1>4, <1>5, <1>6 DEF Ranks!Computable, Ranks!Has, Ranks!Range, Range

-----------------------------------------------------------------------------
\* Indexing keeps the invariant: it runs only when ranking has not begun.
LEMMA IndexInv ==
  ASSUME StagesInv, Index
  PROVE  StagesInv'
<1>1. [Next]_vars /\ stage = "idle" /\ stage' = "idle" /\ n' = n
  BY DEF Index, rankVars
<1>2. IndInv'
  BY <1>1, NextInd DEF StagesInv
<1>3. LostBound'
  BY <1>1, <1>2, NextLost DEF StagesInv
<1>4. Numbered' /\ Mirrored'
  BY <1>1, NumberedStep, MirroredStep DEF StagesInv
<1>5. Ranking' /\ OnlyKillsBreakRanks'
  BY <1>1 DEF StagesInv, Ranking, OnlyKillsBreakRanks
<1>6. QED
  BY <1>2, <1>3, <1>4, <1>5 DEF StagesInv

\* The databases of ParentChildIndexer are as they were.
LEMMA SameLinks ==
  ASSUME StagesInv, UNCHANGED vars
  PROVE  IndInv' /\ LostBound' /\ Numbered' /\ Mirrored'
<1>1. IndInv'
  BY NextInd DEF StagesInv
<1>2. QED
  BY <1>1, NextLost, NumberedStep, MirroredStep DEF StagesInv

\* Ranking keeps the invariant, and throws only after a kill.
LEMMA RankInv ==
  ASSUME StagesInv, Rank
  PROVE  StagesInv'
<1>1. UNCHANGED vars /\ pc = "idle"
  BY DEF Rank
<1>2. UNCHANGED <<invertedDocument, dbinverted, crashes, pc>>
  BY <1>1 DEF vars, ids
<1>3. ASSUME Ranking', OnlyKillsBreakRanks' PROVE StagesInv'
  BY <1>1, <1>3, SameLinks DEF StagesInv
<1>4. Ranking
  BY DEF StagesInv
<1>5. CASE Ranks!Initialize
  <2>1. /\ stage = "idle" /\ stage' = "initialized" /\ n' = n
        /\ DOMAIN invertedDocument \subseteq DOMAIN PageRankIndex'
    BY <1>5 DEF Ranks!Initialize, Ranks!loop
  <2>2. QED
    BY <1>1, <1>2, <1>3, <1>4, <2>1 DEF Ranking, OnlyKillsBreakRanks
<1>6. CASE Ranks!IndexRanks
  <2>1. /\ stage = "initialized" /\ stage' = "rank"
        /\ order' \in Bijection(1..Count(dbinverted), DOMAIN dbinverted)
        /\ UNCHANGED <<PageRankIndex, n>>
    BY <1>6, SameCount DEF Ranks!IndexRanks, Ranks!total, Ranks!Bijection, Bijection,
                           Ranks!Injection, Injection, Ranks!Surjection, Surjection,
                           Ranks!IsInjective, IsInjective
  <2>2. order' \in Seq(DOMAIN dbinverted)
    BY <2>1, IteratorTypes DEF StagesInv
  <2>3. n \in 0..Len(order')
    BY <1>4, <2>1, <2>2 DEF Ranking
  <2>4. QED
    BY <1>1, <1>2, <1>3, <1>4, <2>1, <2>2, <2>3 DEF Ranking, OnlyKillsBreakRanks
<1>7. CASE Ranks!Update
  <2>1. /\ stage = "rank" /\ stage' = "rank" /\ n < Len(order) /\ n' = n + 1
        /\ order' = order
        /\ DOMAIN PageRankIndex \subseteq DOMAIN PageRankIndex'
    BY <1>7 DEF Ranks!Update, Ranks!Put
  <2>2. QED
    BY <1>1, <1>2, <1>3, <1>4, <2>1 DEF Ranking, OnlyKillsBreakRanks
<1>8. CASE Ranks!Throw
  <2>1. /\ stage = "rank" /\ stage' = "thrown" /\ n < Len(order)
        /\ ~Ranks!Computable(order[n + 1])
        /\ PageRankIndex' = PageRankIndex
    BY <1>8 DEF Ranks!Throw
  <2>2. crashes # 0
    BY <2>1, NoNull
  <2>3. crashes > 0
    BY <2>2, LinksAssumption DEF StagesInv, IndInv, TypeOK
  <2>4. QED
    BY <1>1, <1>2, <1>3, <1>4, <2>1, <2>3 DEF Ranking, OnlyKillsBreakRanks
<1>9. CASE Ranks!EndRound
  <2>1. /\ stage = "rank" /\ UNCHANGED <<PageRankIndex, order>>
        /\ \/ stage' = "done"
           \/ stage' = "rank" /\ n' = 0
    BY <1>9 DEF Ranks!EndRound
  <2>2. QED
    BY <1>1, <1>2, <1>3, <1>4, <2>1 DEF Ranking, OnlyKillsBreakRanks
<1>10. QED
  BY <1>5, <1>6, <1>7, <1>8, <1>9 DEF Rank, Ranks!Step

\* A kill during the ranking keeps the invariant.
LEMMA KillInv ==
  ASSUME StagesInv, Kill
  PROVE  StagesInv'
<1>1. /\ stage' = "idle" /\ n' = 0 /\ crashes < MaxCrashes /\ crashes' = crashes + 1
      /\ UNCHANGED <<document, invertedDocument, db, dbinverted, url, links, i, asu, pc,
                     entries, begun>>
  BY DEF Kill, Ranks!Kill, ids, call
<1>2. crashes \in Nat /\ crashes' \in 0..MaxCrashes
  BY <1>1, LinksAssumption DEF StagesInv, IndInv, TypeOK
<1>3. TypeOK'
  BY <1>1, <1>2 DEF StagesInv, IndInv, TypeOK
<1>4. Loop' /\ Dense' /\ ChildrenHaveParents'
  BY <1>1 DEF StagesInv, IndInv, Loop, Dense, ChildrenHaveParents, Has, Count
<1>5. Parents' = Parents /\ Owed' = Owed /\ Numbers' = Numbers
  BY <1>1 DEF Parents, Owed, Numbers
<1>6. Lost' = Lost
  BY <1>1, <1>5 DEF Lost
<1>7. LostBound'
  <2>1. IsFiniteSet(Lost) /\ Cardinality(Lost) <= crashes
    BY DEF StagesInv, LostBound
  <2>2. Cardinality(Lost) \in Nat
    BY <2>1, FS_CardinalityType
  <2>3. QED
    BY <1>1, <1>2, <1>6, <2>1, <2>2 DEF LostBound
<1>8. Numbered'
  BY <1>1, <1>5 DEF StagesInv, Numbered
<1>9. Mirrored'
  BY <1>1, <1>2 DEF Mirrored
<1>10. Ranking' /\ OnlyKillsBreakRanks'
  BY <1>1 DEF Ranking, OnlyKillsBreakRanks
<1>11. QED
  BY <1>3, <1>4, <1>7, <1>8, <1>9, <1>10 DEF StagesInv, IndInv

\* Every step of the two stages keeps the invariant.
LEMMA StagesNextInv == StagesInv /\ [StagesNext]_allVars => StagesInv'
<1> SUFFICES ASSUME StagesInv, [StagesNext]_allVars PROVE StagesInv'
  OBVIOUS
<1>1. CASE UNCHANGED allVars
  <2>1. UNCHANGED vars /\ UNCHANGED <<PageRankIndex, order, n, stage>>
    BY <1>1 DEF allVars, rankVars
  <2>2. UNCHANGED <<invertedDocument, dbinverted, crashes, pc>>
    BY <2>1 DEF vars, ids
  <2>3. Ranking' /\ OnlyKillsBreakRanks'
    BY <2>1, <2>2 DEF StagesInv, Ranking, OnlyKillsBreakRanks
  <2>4. QED
    BY <2>1, <2>3, SameLinks DEF StagesInv
<1>2. QED
  BY <1>1, IndexInv, RankInv, KillInv DEF StagesNext

\* The invariant holds throughout, over any number of runs of both stages.
THEOREM StagesInvariant == StagesSpec => []StagesInv
BY StagesInitInv, StagesNextInv, PTL DEF StagesSpec

\* An uninterrupted program never meets null in index_ranks
\* (PageRankIndexer.java:38, 40 and 64), for any pages and any links.
THEOREM RanksNeedNoKill == StagesSpec => []OnlyKillsBreakRanks
<1>1. StagesInv => OnlyKillsBreakRanks
  BY DEF StagesInv
<1>2. QED
  BY <1>1, StagesInvariant, PTL

\* What ParentChildIndexer promises about its lists holds through the kills of
\* the ranking as well.
THEOREM LinksSurviveRanking == StagesSpec => [](ChildrenHaveParents /\ MissingPerCrash)
<1>1. StagesInv => ChildrenHaveParents /\ MissingPerCrash
  BY LostMissing DEF StagesInv, IndInv
<1>2. QED
  BY <1>1, StagesInvariant, PTL

=============================================================================
