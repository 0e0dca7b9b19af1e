--------------------------- MODULE MCIndexStages ---------------------------
EXTENDS IndexStages

CONSTANTS home, people, f2, f3, f4, f5, f6, f7, f8, f9

\* The stem of ";;;" is the empty word.
MCTokens == {"", "the", "web", "webs", "forum", ";;;"}

Page(f, t, cs) == [fields |-> f, title |-> t, content |-> cs]

\* Titles that begin alike and contents that do not, a word that occurs twice, a
\* stop word (places are counted without it), a separator in a title, a title
\* that throws, and a page whose parse stopped after three fields.
MCPages == {Page(5, <<"web">>, <<"forum", "webs", "the", "web">>),
            Page(5, <<"web", ";;;", "forum">>, <<"web", "forum">>),
            Page(5, <<"", "web">>, <<"web">>),
            Page(3, <<"web">>, <<>>)}

\* Nine pages have been numbered before; home is page 1, people will be page 10.
Nine == [u \in {home, f2, f3, f4, f5, f6, f7, f8, f9} |->
           CASE u = home -> 1 [] u = f2 -> 2 [] u = f3 -> 3 [] u = f4 -> 4
             [] u = f5 -> 5 [] u = f6 -> 6 [] u = f7 -> 7 [] u = f8 -> 8 [] u = f9 -> 9]

MCDocuments0 == {EmptyDB, Nine}

MCCrawls == {<<home>>, <<people, home>>}

=============================================================================
