-------------------------- MODULE MCDocumentIndexer --------------------------
EXTENDS DocumentIndexer, SequencesExt

\* Crawl results of two or three URLs, repeats included.
MCBatches == UNION {[1..n -> Names] : n \in 2..3}

=============================================================================
