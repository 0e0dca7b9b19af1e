---------------------------- MODULE MCLinkStages ----------------------------
EXTENDS LinkStages

CONSTANTS home, people, other

\* No link, a link to a page that is not indexed, and links of the indexed pages
\* to each other and to themselves.
MCLinkSets == {{}, {home}, {other}, {home, people}}

=============================================================================
