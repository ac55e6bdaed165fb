----------------------------- MODULE Curriculum -----------------------------
(***************************************************************************)
(* The chapters of the learning pages and what is computed from them: the    *)
(* order, the groups of the index, the neighbours of a chapter, and which    *)
(* links a page offers.  Operators over a sequence of chapters.             *)
(***************************************************************************)
EXTENDS Naturals, Sequences, FiniteSets

CONSTANTS
    Chapters   \* the curriculum the pages are built from

phaseGroups == <<"Foundations", "Phase 1", "Phase 2">>

PhaseGroup == {phaseGroups[i] : i \in DOMAIN phaseGroups}

\* "body" tells whether there is a text.
Chapter == [slug : STRING, order : Nat, phaseGroup : PhaseGroup,
            status : {"available", "coming-soon"}, body : BOOLEAN]

Written(slug, order, phase) ==
    [slug |-> slug, order |-> order, phaseGroup |-> phase, status |-> "available", body |-> TRUE]

\* What is published.
chapters ==
    <<Written("what-is-a-task-queue", 1, "Foundations"),
      Written("delivery-guarantees", 2, "Phase 1"),
      Written("two-generals-atomicity-lua", 3, "Phase 1"),
      Written("sorted-sets-queue-design", 4, "Phase 1"),
      Written("lua-queue-operations", 5, "Phase 1"),
      Written("heartbeats-service-discovery", 6, "Phase 2"),
      Written("node-death-reclaim-ownership", 7, "Phase 2")>>

InSeq(cs) == {cs[i] : i \in DOMAIN cs}

\* The chapters in the order of the curriculum.
getOrderedChapters(cs) ==
    [i \in DOMAIN cs |->
        CHOOSE c \in InSeq(cs) : Cardinality({d \in InSeq(cs) : d.order < c.order}) = i - 1]

Known(cs, slug) == \E c \in InSeq(cs) : c.slug = slug

getChapter(cs, slug) == CHOOSE c \in InSeq(cs) : c.slug = slug

\* The groups of the index, in the order of the phases, without the empty ones.
getChaptersByPhase(cs) ==
    [phase \in PhaseGroup |-> SelectSeq(getOrderedChapters(cs), LAMBDA c : c.phaseGroup = phase)]

\* The chapters before and after one: none, or one each.
getChapterNav(cs, slug) ==
    LET ordered == getOrderedChapters(cs)
        at == CHOOSE i \in DOMAIN ordered : ordered[i].slug = slug
    IN {ordered[i] : i \in {at - 1, at + 1} \cap DOMAIN ordered}

Available(c) == c.status = "available"

\* The reader page: 404, a page that says it is not ready, or the article.
Rendered(cs, slug) ==
    IF ~Known(cs, slug) THEN "missing"
    ELSE IF ~Available(getChapter(cs, slug)) \/ ~getChapter(cs, slug).body THEN "soon"
    ELSE "article"

\* Links of the reader's footer and of the index: a card that is not available
\* is no link.
FooterLinks(cs, slug) == {c.slug : c \in {c \in getChapterNav(cs, slug) : Available(c)}}

CardLinks(cs) ==
    UNION {{c.slug : c \in {c \in InSeq(getChaptersByPhase(cs)[phase]) : Available(c)}} :
              phase \in PhaseGroup}

\* What makes the computations above well defined.
IsCurriculum(cs) ==
    /\ \A c \in InSeq(cs) : c \in Chapter /\ (Available(c) => c.body)
    /\ \A i, j \in DOMAIN cs : i # j => cs[i].slug # cs[j].slug /\ cs[i].order # cs[j].order

ASSUME CurriculumAssumption == IsCurriculum(Chapters)

ASSUME ThePublishedCurriculum == IsCurriculum(chapters)
=============================================================================
