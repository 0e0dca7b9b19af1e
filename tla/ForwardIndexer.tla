--------------------------- MODULE ForwardIndexer ---------------------------
(***************************************************************************)
(* ForwardIndexer: for every page one text of seven fields,                *)
(*                                                                         *)
(*   title ;;; date ;;; size ;;; ID count ID count ;;; links ;;; n ;;; raw *)
(*                                                                         *)
(* under its number in db/forwardIndex.  addEntry fetches the page, makes  *)
(* sure the page and each word of its content have numbers, counts the     *)
(* words, and stores the text with a single put.  The other classes take   *)
(* the text apart again at " ;;; ", and CosSim reads n, the sum of the     *)
(* squared counts, from the sixth field.                                   *)
(*                                                                         *)
(* A text is a sequence of pieces, of which a separator is one kind.  The  *)
(* title is free text and may hold a separator itself; date, size, links   *)
(* and numbers cannot, and the raw words only stand behind everything that *)
(* is read.                                                                *)
(***************************************************************************)
EXTENDS RocksDB, StopWords, SequencesExt

CONSTANTS URLs,
          Pages,     \* what parser() may return: [fields, title, content]
          SepToken   \* ";;;" between blanks in a title

VARIABLES document, invertedDocument, word, invertedWord,
          forwardIndex,              \* pageID -> text
          url, page, words, i, map,  \* the call
          pc                         \* "thrown" and "stored" end the call

ids == <<document, invertedDocument, word, invertedWord>>
vars == <<ids, forwardIndex, url, page, words, i, map, pc>>

Init ==
  /\ forwardIndex = EmptyDB
  /\ url = "none" /\ page = [fields |-> 0, title |-> <<>>, content |-> <<>>]
  /\ words = <<>> /\ i = 0 /\ map = EmptyDB /\ pc = "idle"

\* parser(), then get(3) and get(4), which throw when there are fewer fields;
\* then the page's number is looked up.
AddEntry(u) ==
  /\ pc = "idle"
  /\ url' = u
  /\ \E p \in Pages :
       /\ page' = p
       /\ pc' = IF p.fields < 5 THEN "thrown"
                ELSE IF Has(document, u) THEN "content" ELSE "pageID"
  /\ UNCHANGED <<ids, forwardIndex, words, i, map>>

\* documentIndexer.addEntry(c), see DocumentIndexer: two puts.
PutPageID ==
  /\ pc = "pageID"
  /\ document' = Put(document, url, Count(document) + 1)
  /\ pc' = "pageURL"
  /\ UNCHANGED <<invertedDocument, word, invertedWord, forwardIndex, url, page, words, i, map>>

PutPageURL ==
  /\ pc = "pageURL"
  /\ invertedDocument' = Put(invertedDocument, document[url], url)
  /\ pc' = "content"
  /\ UNCHANGED <<document, word, invertedWord, forwardIndex, url, page, words, i, map>>

\* content = StopWords.clean(content); StringTokenizer yields no empty token.
Load ==
  /\ pc = "content"
  /\ words' = clean(page.content) /\ pc' = "word"
  /\ UNCHANGED <<ids, forwardIndex, url, page, i, map>>

\* wordIndexer.addEntry(w), see WordIndexer: two puts.
PutWordID ==
  /\ pc = "word" /\ i < Len(words) /\ ~Has(word, words[i + 1])
  /\ word' = Put(word, words[i + 1], Count(word) + 1)
  /\ pc' = "wordName"
  /\ UNCHANGED <<document, invertedDocument, invertedWord, forwardIndex, url, page, words, i, map>>

PutWord ==
  /\ pc = "wordName"
  /\ invertedWord' = Put(invertedWord, word[words[i + 1]], words[i + 1])
  /\ pc' = "word"
  /\ UNCHANGED <<document, invertedDocument, word, forwardIndex, url, page, words, i, map>>

\* map.put(ID, 1), or count + 1.
CountWord ==
  /\ pc = "word" /\ i < Len(words) /\ Has(word, words[i + 1])
  /\ LET ID == word[words[i + 1]]
     IN map' = Put(map, ID, IF Has(map, ID) THEN map[ID] + 1 ELSE 1)
  /\ i' = i + 1
  /\ UNCHANGED <<ids, forwardIndex, url, page, words, pc>>

Piece(kind, n) == [kind |-> kind, n |-> n]
Sep == Piece("sep", 0)

\* Mutant of word_count: the counts are not squared.
word_count_sum(counts) == FoldSet(LAMBDA ID, sum : sum + counts[ID], 0, DOMAIN counts)

\* word_count += e.getValue() * e.getValue()
word_count(counts) ==
  FoldSet(LAMBDA ID, sum : sum + counts[ID] * counts[ID], 0, DOMAIN counts)

\* The text; n of the pieces "words" is how many different words there are.
data ==
  [k \in DOMAIN page.title |-> IF page.title[k] = SepToken THEN Sep ELSE Piece("title", k)]
  \o <<Sep, Piece("date", 0), Sep, Piece("size", 0), Sep, Piece("words", Count(map)),
       Sep, Piece("links", 0), Sep, Piece("number", word_count(map)),
       Sep, Piece("raw", 0)>>

\* db.put(pageID, data)
Store ==
  /\ pc = "word" /\ i = Len(words)
  /\ forwardIndex' = Put(forwardIndex, document[url], data)
  /\ pc' = "stored"
  /\ UNCHANGED <<ids, url, page, words, i, map>>

Step == PutPageID \/ PutPageURL \/ Load \/ PutWordID \/ PutWord \/ CountWord \/ Store

\* The locals of the call are gone: it has returned, or the process has ended.
EndCall ==
  /\ url' = "none" /\ page' = [fields |-> 0, title |-> <<>>, content |-> <<>>]
  /\ words' = <<>> /\ i' = 0 /\ map' = EmptyDB /\ pc' = "idle"

-----------------------------------------------------------------------------
\* fwd_str.split(" ;;; ") and get(k): the pieces between separators k and k + 1.
FieldOf(text, k) ==
  LET before(m) == Cardinality({x \in 1..m : text[x] = Sep})
  IN {text[m] : m \in {x \in DOMAIN text : text[x] # Sep /\ before(x) = k}}

=============================================================================
