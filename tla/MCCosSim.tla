------------------------------ MODULE MCCosSim ------------------------------
EXTENDS CosSim

\* "zebra" is in no page; "2" is a word that looks like the ID of another.
Plain == {"", "the", "web", "forum", "zebra", "2"}
MCStopList == {"the"}

Entry(p, n) == [page |-> p, places |-> n]

\* What indexing pages 1 and 2 leaves; in the second database the forward index
\* has not got to page 2, in the third the word "2" is not known.
Indexed ==
  [word    |-> [w \in {"web", "forum", "2"} |->
                  CASE w = "web" -> "1" [] w = "forum" -> "2" [] w = "2" -> "3"],
   title   |-> [id \in {"1"} |-> <<Entry(1, 1)>>],
   content |-> [id \in {"1", "2", "3"} |->
                  CASE id = "1" -> <<Entry(1, 2), Entry(2, 1)>>
                    [] id = "2" -> <<Entry(2, 3)>>
                    [] id = "3" -> <<Entry(1, 1)>>],
   forward |-> [p \in {1, 2} |-> IF p = 1 THEN 5 ELSE 400]]

MCDatabases ==
  {Indexed,
   [Indexed EXCEPT !.forward = [p \in {1} |-> 5]],
   [Indexed EXCEPT !.word = [w \in {"web", "forum"} |-> IF w = "web" THEN "1" ELSE "2"],
                   !.content = [id \in {"1", "2"} |-> Indexed.content[id]]]}

\* All words of up to four of five letters (vowels, y, a letter that step1 and one
\* that step5 of the stemmer looks for), and words with the affixes of its tables.
Short ==
  LET short[n \in 0..4] ==
        IF n = 0 THEN {""}
        ELSE LET shorter == short[n - 1]
             IN shorter \cup {w \o ch : w \in shorter, ch \in {"a", "y", "l", "s", "e"}}
  IN short[4]
Long == {p \o s \o e :
           p \in {"", "kilo", "Micro-", "ultra"},
           s \in {"", "y", "hop", "tri", "mega", "oscill", "gener"},
           e \in {"", "s", "ies", "sses", "eed", "ed", "ing", "ating", "ational", "izer",
                  "alli", "iveness", "biliti", "icate", "ative", "ful", "ness", "ance",
                  "ement", "ent", "sion", "ous", "ize", "all", "able", "y"}}

MCTokens == Plain \cup Short \cup Long \cup {";;;"}

\* Several plain words, or a single word of any kind.
MCQueries == UNION {[1..n -> Plain] : n \in 2..3} \cup [1..4 -> Plain \ {"", "the"}]
             \cup {<<t>> : t \in MCTokens}

=============================================================================
