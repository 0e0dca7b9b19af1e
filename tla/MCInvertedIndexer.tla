-------------------------- MODULE MCInvertedIndexer --------------------------
EXTENDS InvertedIndexer

CONSTANTS home, people, f2, f3, f4, f5, f6, f7, f8, f9

MCTokens == {"", "the", "web", "webs", "forum"}
MCStopList == {"the"}

Page(f, t, c) == [fields |-> f, title |-> t, content |-> c]

\* Contents that begin alike and contents that do not, a word that occurs twice,
\* a stop word (places are counted without it), a title that throws, and a page
\* whose parse stopped after three fields.
MCPages == {Page(5, <<"web">>, <<"forum", "the", "webs", "web">>),
            Page(5, <<"web">>, <<"web", "forum">>),
            Page(5, <<"forum">>, <<"the", "forum", "forum">>),
            Page(5, <<"", "web">>, <<"web">>),
            Page(3, <<"forum", "web">>, <<>>)}

\* Nine pages have been numbered before; home is page 1, people will be page 10.
Nine == [u \in {home, f2, f3, f4, f5, f6, f7, f8, f9} |->
           CASE u = home -> 1 [] u = f2 -> 2 [] u = f3 -> 3 [] u = f4 -> 4
             [] u = f5 -> 5 [] u = f6 -> 6 [] u = f7 -> 7 [] u = f8 -> 8 [] u = f9 -> 9]

NoneYet == {EmptyDB}
NineYet == {Nine}

=============================================================================
