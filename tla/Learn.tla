------------------------------- MODULE Learn -------------------------------
(***************************************************************************)
(* Tabs of a browser on the site: pages that follow links, a marker that     *)
(* notes in localStorage that a chapter was opened, and the index that shows *)
(* a badge for each chapter read.  Effects run some time after their page is *)
(* drawn; a write reaches the other tabs as an event that may be late.      *)
(***************************************************************************)
EXTENDS LearnState

vars == <<storage, store, page, ran, readSlugs, notices, opened>>

Slug == {c.slug : c \in InSeq(Chapters)}

\* "unknown" is an address of no chapter.
Pages == {"home", "playground", "index", "unknown"} \cup Slug

TypeOK ==
    /\ storage \in BOOLEAN
    /\ store \subseteq Slug
    /\ page \in [Tab -> Pages \cup {"closed"}]
    /\ ran \subseteq Tab
    /\ readSlugs \in [Tab -> SUBSET Slug]
    /\ notices \subseteq Tab
    /\ opened \subseteq Slug

Init ==
    /\ storage \in BOOLEAN
    /\ store = {}
    /\ page = [t \in Tab |-> "closed"]
    /\ ran = {}
    /\ readSlugs = [t \in Tab |-> {}]
    /\ notices = {}
    /\ opened = {}
-----------------------------------------------------------------------------
(* Pages and links.                                                         *)

IsReader(p) == p \notin {"home", "playground", "index", "closed"}

Article(p) == IsReader(p) /\ Rendered(Chapters, p) = "article"

\* The cards of the landing page.
EntryLinks == {"playground", "index"}

\* The navigation bar, on every page but the landing page.
NavLinks(p) == IF p = "home" THEN {} ELSE {"home", "playground", "index"}

\* An article links to the playground, to its neighbours and back.
ReaderLinks(p) ==
    CASE Rendered(Chapters, p) = "article" -> FooterLinks(Chapters, p) \cup {"playground", "index"}
      [] Rendered(Chapters, p) = "soon" -> {"index"}
      [] OTHER -> {}

Links(p) ==
    NavLinks(p) \cup (CASE p = "home" -> EntryLinks
                        [] p = "index" -> CardLinks(Chapters)
                        [] IsReader(p) -> ReaderLinks(p)
                        [] OTHER -> {})

\* A page is drawn, the index without any badge; its effects are yet to run.
Draw(t, p) ==
    /\ page' = [page EXCEPT ![t] = p]
    /\ ran' = ran \ {t}
    /\ readSlugs' = [readSlugs EXCEPT ![t] = {}]
    /\ opened' = IF Article(p) THEN opened \cup {p} ELSE opened
    /\ UNCHANGED <<storage, store, notices>>

\* An address is typed into a new tab, or a link to another page is followed (a
\* link to the page itself draws nothing anew).
Address(t, p) == page[t] = "closed" /\ Draw(t, p)

Follow(t, p) == page[t] # "closed" /\ p \in Links(page[t]) \ {page[t]} /\ Draw(t, p)

Close(t) ==
    /\ page[t] # "closed"
    /\ page' = [page EXCEPT ![t] = "closed"]
    /\ ran' = ran \ {t}
    /\ readSlugs' = [readSlugs EXCEPT ![t] = {}]
    /\ notices' = notices \ {t}
    /\ UNCHANGED <<storage, store, opened>>
-----------------------------------------------------------------------------
(* Reading progress.                                                        *)

\* Mutant: every reader page has the marker, not just the article.
MarksKnown(p) == IF IsReader(p) /\ Known(Chapters, p) THEN {p} ELSE {}

\* The page has a marker for these slugs.
Marks(p) == IF Article(p) THEN {p} ELSE {}

\* markChapterRead: the other tabs are told of a key that is new.
MarkChapterRead(t) ==
    /\ page[t] # "index"
    /\ store' = IF storage THEN store \cup Marks(page[t]) ELSE store
    /\ notices' = IF store' # store THEN notices \cup {u \in Tab \ {t} : page[u] # "closed"} ELSE notices
    /\ UNCHANGED readSlugs

\* sync of useReadChapters, once its listener is there.
Sync(t) ==
    /\ page[t] = "index"
    /\ readSlugs' = [readSlugs EXCEPT ![t] = store]
    /\ UNCHANGED <<store, notices>>

\* The effects of a page that has been drawn.
RunEffects(t) ==
    /\ page[t] # "closed" /\ t \notin ran
    /\ ran' = ran \cup {t}
    /\ MarkChapterRead(t) \/ Sync(t)
    /\ UNCHANGED <<storage, page, opened>>

\* Mutant: the index does not listen to other tabs.
HearNothing(t) == readSlugs

\* The copy after a storage event: only the index listens, once its effect ran.
Hear(t) == IF page[t] = "index" /\ t \in ran THEN [readSlugs EXCEPT ![t] = store] ELSE readSlugs

StorageEvent(t) ==
    /\ t \in notices
    /\ notices' = notices \ {t}
    /\ readSlugs' = Hear(t)
    /\ UNCHANGED <<storage, store, page, ran, opened>>

Next ==
    \E t \in Tab :
        \/ Close(t) \/ RunEffects(t) \/ StorageEvent(t)
        \/ \E p \in Pages : Address(t, p) \/ Follow(t, p)

Spec == Init /\ [][Next]_vars
-----------------------------------------------------------------------------
\* An index that stays open comes to show every chapter read, in whichever tab,
\* however the effects and the storage events interleave.
BadgesCatchUp ==
    \A t \in Tab :
        <>[](page[t] = "index") => <>[](\A c \in InSeq(Chapters) : c.slug \in store => Badge(t, c))
=============================================================================
