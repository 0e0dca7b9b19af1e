------------------------------ MODULE Postings ------------------------------
(***************************************************************************)
(* The text of a posting list and how InvertedIndexer edits it.            *)
(*                                                                         *)
(* A value of titleInverted or contentInverted is a string such as         *)
(*                                                                         *)
(*     doc1 7 2 doc10 3                                                    *)
(*                                                                         *)
(* (page 1 at places 7 and 2, page 10 at place 3).  It is searched and cut *)
(* as a string, so it is modelled as a sequence of symbols: "doc", the     *)
(* blank and the ten digits.  The letter d occurs in it only as the first  *)
(* of "doc".                                                               *)
(***************************************************************************)
EXTENDS Integers, Sequences, FiniteSetsExt

Digits == <<"0", "1", "2", "3", "4", "5", "6", "7", "8", "9">>
DigitSet == {Digits[d] : d \in 1..10}

\* Integer.toString of a natural number.
Numeral[n \in Nat] ==
  IF n < 10 THEN <<Digits[n + 1]>>
            ELSE Append(Numeral[n \div 10], Digits[(n % 10) + 1])

\* "doc" + pageID
DocKey(id) == <<"doc">> \o Numeral[id]

\* text.indexOf(key), counted from 1, and 0 for Java's -1.
IndexOf(text, key) ==
  LET at == {n \in 1..Len(text) - Len(key) + 1 :
               SubSeq(text, n, n + Len(key) - 1) = key}
  IN IF at = {} THEN 0 ELSE Min(at)

\* Mutant of CutAt: the search for the next d runs to the end.
CutToEnd(text, loc) == SubSeq(text, 1, loc - 1)

\* Cut out what stands from loc up to the next d, or to the end.
CutAt(text, loc) ==
  LET ends == {n \in loc + 1..Len(text) : text[n] = "doc"} \cup {Len(text) + 1}
  IN SubSeq(text, 1, loc - 1) \o SubSeq(text, Min(ends), Len(text))

\* Mutants of Insert: the test for the empty text is missing, or only the first
\* place of a page is noted.
InsertBlank(text, id, pos) ==
  LET key == DocKey(id)
      loc == IndexOf(text, key)
      split == loc + Len(key) - 1
      place == <<" ">> \o Numeral[pos]
  IN IF loc # 0
     THEN SubSeq(text, 1, split) \o place \o SubSeq(text, split + 1, Len(text))
     ELSE text \o <<" ">> \o key \o place
InsertOnce(text, id, pos) ==
  LET key == DocKey(id)
      place == <<" ">> \o Numeral[pos]
  IN IF IndexOf(text, key) # 0 THEN text
     ELSE IF text \in {<<>>, <<" ">>} THEN key \o place
     ELSE text \o <<" ">> \o key \o place

\* Note place pos of page id: right behind the page's key if the text has it,
\* else in a new entry at the end.
Insert(text, id, pos) ==
  LET key == DocKey(id)
      loc == IndexOf(text, key)
      split == loc + Len(key) - 1
      place == <<" ">> \o Numeral[pos]
  IN IF loc # 0
     THEN SubSeq(text, 1, split) \o place \o SubSeq(text, split + 1, Len(text))
     ELSE IF text \in {<<>>, <<" ">>} THEN key \o place
     ELSE text \o <<" ">> \o key \o place

-----------------------------------------------------------------------------
(* How CosSim reads a text: what stands between blanks is a token. *)

\* Where the numerals of a text begin, and the numeral that begins at n.
Heads(text) ==
  {n \in 1..Len(text) : text[n] \in DigitSet /\ (n > 1 => text[n - 1] \notin DigitSet)}
NumeralAt(text, n) ==
  SubSeq(text, n, Min({m \in n..Len(text) : m = Len(text) \/ text[m + 1] \notin DigitSet}))

\* The numerals that are page numbers; the others are places.
Docs(text) == {n \in Heads(text) : n > 1 /\ text[n - 1] = "doc"}

\* The places that a reader attributes to page id: those whose last doc token
\* before them is the page's.
PlacesOf(text, id) ==
  {n \in Heads(text) \ Docs(text) :
     \E d \in Docs(text) :
       /\ d < n /\ NumeralAt(text, d) = Numeral[id]
       /\ \A e \in Docs(text) : e < n => e <= d}

\* The places of page id as numerals, and whether one is there twice.
Places(text, id) == {NumeralAt(text, n) : n \in PlacesOf(text, id)}
Repeats(text, id) == Cardinality(Places(text, id)) < Cardinality(PlacesOf(text, id))

\* A text that getPages can read: the first token is a doc token, and every
\* "doc" begins a token and has a number.
Readable(text) ==
  /\ Len(text) >= 4 /\ text[1] = "doc"
  /\ \A n \in 1..Len(text) :
       text[n] = "doc" => /\ n > 1 => text[n - 1] = " "
                          /\ n < Len(text) /\ text[n + 1] \in DigitSet

=============================================================================
