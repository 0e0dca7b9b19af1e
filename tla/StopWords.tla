------------------------------ MODULE StopWords ------------------------------
(***************************************************************************)
(* StopWords.clean: from the tokens of a page to the words of the index.   *)
(* The stop list is consulted with the token as it was fetched, and the    *)
(* stem is taken afterwards.  The empty token, which split yields for a    *)
(* title that begins with white space, makes Porter.Clean throw at         *)
(* charAt(0).                                                              *)
(***************************************************************************)
EXTENDS Sequences

CONSTANTS Tokens,      \* what split and StringTokenizer yield
          StopList     \* the lines of stopwords.txt

EmptyToken == ""

ASSUME TokensAssumption ==
  EmptyToken \in Tokens \ StopList    \* stopwords.txt has no empty line

Stemmer == INSTANCE Porter

\* stripAffixes of each token, and the words that are in use.
Stem == [t \in Tokens \ {EmptyToken} |-> Stemmer!stripAffixes(t)]
Words == {Stem[t] : t \in DOMAIN Stem}

isStopWord(t) == t \in StopList

\* clean throws StringIndexOutOfBoundsException.
CleanThrows(input) == \E k \in DOMAIN input : input[k] = EmptyToken

\* The result of clean when it does not throw.
clean(input) ==
  LET kept == SelectSeq(input, LAMBDA t : ~isStopWord(t))
  IN [k \in DOMAIN kept |-> Stem[kept[k]]]

=============================================================================
