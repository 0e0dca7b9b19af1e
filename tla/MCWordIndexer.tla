---------------------------- MODULE MCWordIndexer ----------------------------
EXTENDS WordIndexer

\* "the" is on the stop list and "The" is not: clean looks before it lowers.
MCTokens == {"", "the", "The", "web", "webs", "forum"}
MCStopList == {"the"}

\* An ordinary title, one whose first token is empty, and one of stop words.
MCTitles == {<<"web">>, <<"", "forum">>, <<"the", "the">>, <<"The", "webs">>}
MCContents == {<<>>, <<"the", "web", "webs">>, <<"forum", "The">>}

=============================================================================
