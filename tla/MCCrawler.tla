------------------------------ MODULE MCCrawler ------------------------------
EXTENDS Crawler

CONSTANTS home, people, other

MCURLs == {home, people, other}

\* A web is given by the links of home, of people and of other.
Graph(h, p, o) == [u \in MCURLs |-> CASE u = home -> h [] u = people -> p [] u = other -> o]

\* A cycle, a page without links behind the start page, a start page that only
\* leads outside, and everything linked with everything.
MCWebs == {Graph({people}, {home, other}, {}),
           Graph({people, other}, {}, {home}),
           Graph({other}, {home}, {people}),
           Graph(MCURLs, MCURLs, MCURLs)}

\* A database without URLs as keys (forwardIndex, as main passes it), one with
\* page IDs for values (document), one with a separator soon enough and one
\* with a separator too late.
MCStores == {[u \in {} |-> 0],
             [u \in {people} |-> [len |-> 1, sep |-> -1]],
             [u \in {people} |-> [len |-> 40, sep |-> 6]],
             [u \in {people, home} |-> [len |-> 40, sep |-> 11]]}

=============================================================================
