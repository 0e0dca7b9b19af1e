------------------------------- MODULE Porter -------------------------------
(***************************************************************************)
(* Porter.stripAffixes: from a token to its stem.  Words are TLA+ strings, *)
(* a character is a string of length one.  The one charAt that may be out  *)
(* of range, charAt(0) of the empty token, is for StopWords to ask about.  *)
(***************************************************************************)
EXTENDS Integers, Sequences, FiniteSets, FiniteSetsExt

charAt(s, k) == SubSeq(s, k, k)
Cut(s, n) == SubSeq(s, 1, Len(s) - n)            \* s without its last n characters
StartsWith(s, t) == Len(s) >= Len(t) /\ SubSeq(s, 1, Len(t)) = t
EndsIn(s, t) == Len(s) >= Len(t) /\ SubSeq(s, Len(s) - Len(t) + 1, Len(s)) = t

Capitals == "ABCDEFGHIJKLMNOPQRSTUVWXYZ"
Smalls == "abcdefghijklmnopqrstuvwxyz"
Chars(s) == {charAt(s, k) : k \in 1..Len(s)}

toLowerCase(ch) ==
  IF ch \in Chars(Capitals)
  THEN charAt(Smalls, CHOOSE k \in 1..26 : charAt(Capitals, k) = ch) ELSE ch
isLetterOrDigit(ch) == ch \in Chars(Smalls) \cup Chars("0123456789")

\* Clean(str.toLowerCase())
Clean(s) ==
  LET kept[k \in 0..Len(s)] ==
        IF k = 0 THEN ""
        ELSE LET ch == toLowerCase(charAt(s, k))
                 rest == kept[k - 1]
             IN IF isLetterOrDigit(ch) THEN rest \o ch ELSE rest
  IN kept[Len(s)]

\* hasSuffix: a suffix is never the whole word.
hasSuffix(s, suffix) == Len(s) > Len(suffix) /\ EndsIn(s, suffix)

Vowels == {"a", "e", "i", "o", "u"}
vowel(ch, prev) == ch \in Vowels \/ (ch = "y" /\ prev \notin Vowels)

\* Is the k-th character a vowel?  A y at the beginning is none.
VowelAt(s, k) == vowel(charAt(s, k), IF k > 1 THEN charAt(s, k - 1) ELSE "a")

\* Mutant of measure: vowels at the end count as well.
measureTrailing(s) ==
  LET from(k, v) == Min({x \in k..Len(s) : VowelAt(s, x) = v} \cup {Len(s) + 1})
      count[k \in 1..Len(s) + 3] ==
        IF k > Len(s) THEN 0 ELSE 1 + count[from(from(k, TRUE) + 1, FALSE) + 1]
  IN count[1]

\* The loop of measure: skip to a vowel, skip behind it to a consonant, count.
measure(s) ==
  LET from(k, v) == Min({x \in k..Len(s) : VowelAt(s, x) = v} \cup {Len(s) + 1})
      count[k \in 1..Len(s) + 1] ==
        IF k > Len(s) THEN 0
        ELSE LET next == from(from(k, TRUE) + 1, FALSE)
             IN IF next <= Len(s) THEN 1 + count[next + 1] ELSE 0
  IN count[1]

containsVowel(s) == \E k \in 1..Len(s) : VowelAt(s, k)

\* The last three letters are consonant, vowel, consonant other than w, x, y.
cvc(s) ==
  LET n == Len(s)
  IN /\ n >= 3 /\ ~VowelAt(s, n) /\ charAt(s, n) \notin {"w", "x", "y"}
     /\ VowelAt(s, n - 1)
     /\ IF n = 3 THEN ~vowel(charAt(s, 1), "?") ELSE ~VowelAt(s, n - 2)

Double(s) == charAt(s, Len(s)) = charAt(s, Len(s) - 1)

\* step1, first paragraph: plurals.
Plural(s) ==
  IF ~EndsIn(s, "s") THEN s
  ELSE IF hasSuffix(s, "sses") \/ hasSuffix(s, "ies") THEN Cut(s, 2)
  ELSE IF Len(s) = 1 THEN ""
  ELSE IF Double(s) THEN s ELSE Cut(s, 1)

\* What is done to a word that has lost its ed or ing.
Mended(s) ==
  IF Len(s) = 1 THEN s
  ELSE IF \E suffix \in {"at", "bl", "iz"} : hasSuffix(s, suffix) THEN s \o "e"
  ELSE IF Double(s) /\ charAt(s, Len(s)) \notin {"l", "s", "z"} THEN Cut(s, 1)
  ELSE IF measure(s) = 1 /\ cvc(s) THEN s \o "e" ELSE s

\* step1, second paragraph: eed, ed and ing.
Past(s) ==
  LET n == IF hasSuffix(s, "ed") THEN 2 ELSE 3
  IN IF hasSuffix(s, "eed") THEN IF measure(Cut(s, 3)) > 0 THEN Cut(s, 1) ELSE s
     ELSE IF (hasSuffix(s, "ed") \/ hasSuffix(s, "ing")) /\ containsVowel(Cut(s, n))
          THEN Mended(Cut(s, n)) ELSE s

\* step1, last paragraph.
Yes(s) == IF hasSuffix(s, "y") /\ containsVowel(Cut(s, 1)) THEN Cut(s, 1) \o "i" ELSE s

step1(s) == IF Plural(s) = "" THEN "" ELSE Yes(Past(Plural(s)))

\* The first suffix of a table that is there, behind a stem of more than m, is
\* replaced.
Replaced(s, table, m) ==
  LET hits == {k \in DOMAIN table : /\ hasSuffix(s, table[k][1])
                                    /\ measure(Cut(s, Len(table[k][1]))) > m}
  IN IF hits = {} THEN s
     ELSE Cut(s, Len(table[Min(hits)][1])) \o table[Min(hits)][2]

step2(s) ==
  Replaced(s, << <<"ational", "ate">>, <<"tional", "tion">>, <<"enci", "ence">>,
    <<"anci", "ance">>, <<"izer", "ize">>, <<"iser", "ize">>, <<"abli", "able">>,
    <<"alli", "al">>, <<"entli", "ent">>, <<"eli", "e">>, <<"ousli", "ous">>,
    <<"ization", "ize">>, <<"isation", "ize">>, <<"ation", "ate">>, <<"ator", "ate">>,
    <<"alism", "al">>, <<"iveness", "ive">>, <<"fulness", "ful">>, <<"ousness", "ous">>,
    <<"aliti", "al">>, <<"iviti", "ive">>, <<"biliti", "ble">> >>, 0)

step3(s) ==
  Replaced(s, << <<"icate", "ic">>, <<"ative", "">>, <<"alize", "al">>, <<"alise", "al">>,
    <<"iciti", "ic">>, <<"ical", "ic">>, <<"ful", "">>, <<"ness", "">> >>, 0)

Suffixes4 == <<"al", "ance", "ence", "er", "ic", "able", "ible", "ant", "ement", "ment",
  "ent", "sion", "tion", "ou", "ism", "ate", "iti", "ous", "ive", "ize", "ise">>
step4(s) == Replaced(s, [k \in DOMAIN Suffixes4 |-> <<Suffixes4[k], "">>], 1)

\* step5: a final e, then a final double l.
step5(s) ==
  LET t == IF EndsIn(s, "e") /\ (measure(s) > 1 \/ (measure(s) = 1 /\ ~cvc(Cut(s, 1))))
           THEN Cut(s, 1) ELSE s
  IN IF Len(t) > 1 /\ EndsIn(t, "ll") /\ measure(t) > 1 THEN Cut(t, 1) ELSE t

Prefixes == <<"kilo", "micro", "milli", "intra", "ultra", "mega", "nano", "pico", "pseudo">>

\* Mutant of stripPrefixes: after a prefix the search goes on.
stripPrefixesAll(s) ==
  LET left[k \in 0..Len(Prefixes)] ==
        IF k = 0 THEN s
        ELSE LET t == left[k - 1]
             IN IF StartsWith(t, Prefixes[k]) THEN SubSeq(t, Len(Prefixes[k]) + 1, Len(t)) ELSE t
  IN left[Len(Prefixes)]

\* The first prefix of the table that is there is taken off, and no other.
stripPrefixes(s) ==
  LET hits == {k \in DOMAIN Prefixes : StartsWith(s, Prefixes[k])}
  IN IF hits = {} THEN s ELSE SubSeq(s, Len(Prefixes[Min(hits)]) + 1, Len(s))

\* Only step5 needs the test for the empty string; step1 is not called on it, and
\* steps 2 to 4 leave it alone.
stripSuffixes(s) ==
  LET t == step4(step3(step2(step1(s)))) IN IF t = "" THEN t ELSE step5(t)

\* Words of one or two letters are left as they are.
stripAffixes(token) ==
  LET s == Clean(token)
      p == stripPrefixes(s)
  IN IF Len(s) <= 2 THEN s ELSE IF p = "" THEN p ELSE stripSuffixes(p)

-----------------------------------------------------------------------------
\* measure said without its loop: the places where a consonant follows a vowel.
Changes(s) == Cardinality({k \in 2..Len(s) : VowelAt(s, k - 1) /\ ~VowelAt(s, k)})

\* The words of which nothing may be left.
Vanishing == {""} \cup UNION {{Prefixes[k], Prefixes[k] \o "s"} : k \in DOMAIN Prefixes}

=============================================================================
