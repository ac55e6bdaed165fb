----------------------------- MODULE LearnState -----------------------------
(* What the tabs and the browser keep, and what a badge promises.           *)
EXTENDS Curriculum

CONSTANTS Tab

VARIABLES
    storage,      \* localStorage works (private mode or a full quota: it throws)
    store,        \* the slugs under the prefix in localStorage
    page,         \* tab -> the page it shows, or "closed"
    ran,          \* the tabs whose page's effects have run
    readSlugs,    \* tab -> the index's copy
    notices,      \* the tabs a storage event is on its way to
    opened        \* the chapters whose article was ever drawn
-----------------------------------------------------------------------------
\* The card of a chapter wears a badge.
Badge(t, c) == page[t] = "index" /\ Available(c) /\ c.slug \in readSlugs[t]

\* A chapter counts as read, in the storage and in any tab, only if its article
\* was opened; a page that says "coming soon" does not count.
BadgeMeansOpened ==
    /\ store \subseteq opened
    /\ \A t \in Tab : readSlugs[t] \subseteq store
    /\ \A t \in Tab, c \in InSeq(Chapters) : Badge(t, c) => c.slug \in opened
=============================================================================
