----------------------------- MODULE TermRanking -----------------------------
(***************************************************************************)
(* Scores of a term search (internal/indexing/term_search.go and            *)
(* relationship_ranking.go), as functions of what a query and a chunk        *)
(* contain.  A word is [head, stem, suffix]: the first four letters as it    *)
(* is written, the stem of its canonical form, the inflection of it ("" for  *)
(* none).  A query is [terms, said, defining]: its words, the concepts it     *)
(* names and those it names before "used by" and the like.  A chunk is        *)
(* [content, path, declared, shapes]: words, and the syntax it shows.         *)
(***************************************************************************)
EXTENDS Integers, FiniteSets, FiniteSetsExt

-----------------------------------------------------------------------------
(* Words                                                                    *)

\* Canonical forms with a head of their own: bind covers "bound".
Probes(term) ==
    IF term.stem = "bind" /\ term.suffix = "" THEN {"bind", "boun"} ELSE {term.head}

\* searchTermMatchQuality.
Likeness(term, word) ==
    IF term.stem # word.stem THEN 0
    ELSE IF term.suffix = word.suffix THEN 20
    ELSE IF "" \in {term.suffix, word.suffix} THEN 14
    ELSE 10
Quality(term, words) == Max({Likeness(term, word) : word \in words} \union {0})

\* termCandidates: a chunk may hold a term when it holds the head of a probe.
MayMatch(terms, words) ==
    \E term \in terms : Probes(term) \intersect {word.head : word \in words} # {}

-----------------------------------------------------------------------------
(* What the query asks for (classifyTermSearchIntent)                       *)

IntentOf(said, defining) ==
    LET Says(concepts) == said \intersect concepts # {}
        Defines(concepts) == defining \intersect concepts # {}
        consumed == Defines({"consumer"})
        fixes == "fix" \in said /\ "locus" \in said /\ ~consumed
        action == Says({"define", "specify"})
        explicit == action \/ "assign" \in said
        definition == explicit \/ "wire" \in said
        collection == {"parent", "collection"} \subseteq said
        closed == Says({"closed", "each"})
        durable == {"durable", "catalog"} \subseteq said
        stored == Says({"wire", "stored"}) \/ durable
        valued == Says({"value", "spelling"})
                  \/ ({"enum", "token"} \subseteq defining /\ "credential" \notin defining)
        serialized == /\ ~consumed /\ (action \/ fixes)
                      /\ closed /\ stored /\ valued
        authoritative == /\ ~consumed /\ "config" \notin defining
                         /\ {"locus", "authoritative", "domain"} \subseteq defining
                         /\ Defines({"define", "specify", "fix"})
                         /\ Defines({"closed", "each"}) /\ Defines({"value"})
                         /\ "credential" \notin defining
        enum == \/ definition /\ {"enum", "value"} \subseteq said /\ closed
                \/ serialized \/ authoritative
        shutdown == {"termination", "callback", "binding"} \subseteq said
        uninstall == {"plugin deletion", "binding"} \subseteq said
        config == "config" \in said /\ (definition \/ "config line" \in said)
        relation == ("relation" \in said /\ definition) \/ collection
    IN  [definition |-> definition, attribute |-> "attribute" \in said,
         callable |-> "callable" \in said, config |-> config, relation |-> relation,
         collection |-> collection, never |-> {"never", "throw"} \subseteq said,
         enum |-> enum, catalog |-> fixes /\ "each" \in said /\ durable /\ "spelling" \in said,
         authoritative |-> authoritative, shutdown |-> shutdown, uninstall |-> uninstall,
         target |-> enum \/ shutdown \/ config, source |-> relation \/ uninstall]

\* meaningfulSearchTermsForIntent: the words that only name the intent go.
Generic(intent) ==
    (IF intent.catalog \/ intent.authoritative
     THEN {"source", "declaration", "definition", "enum", "type", "fix"} ELSE {})
    \union (IF intent.catalog THEN {"durable", "serialize", "catalog", "spelling"} ELSE {})
    \union (IF intent.authoritative
            THEN {"define", "declare", "establish", "specify", "authoritative", "domain",
                  "allowed", "canonical", "set", "label", "code", "value", "identifier",
                  "literal", "string", "integer"} ELSE {})
TermsOf(query, intent) == {term \in query.terms : term.stem \notin Generic(intent)}

-----------------------------------------------------------------------------
(* Scores                                                                   *)

\* termSearchStructuralScore: evidence in units of an exact term, kept within
\* three (four) units above and one below.
Structural(chunk, intent) ==
    LET Shows(shape) == shape \in chunk.shapes
        Worth(condition, units) == IF condition THEN units ELSE 0
        units ==
            Worth(intent.attribute /\ Shows("attribute"),
                  1 + Worth(intent.definition /\ Shows("attribute class"), 1))
            + Worth(intent.callable, Worth(Shows("first-class callable"), 2)
                                     + Worth(Shows("closure"), 1))
            + Worth(intent.config, Worth(Shows("config path"), 2 + Worth(Shows("assignment"), 1))
                                   - Worth(Shows("config read"), 1))
            + Worth(intent.relation,
                    Worth(Shows("repository class"), 2) + Worth(Shows("relation"), 2)
                    + Worth(Shows("entity path") /\ (intent.collection => Shows("relation")), 1)
                    - Worth(Shows("service path"), 1))
            + Worth(intent.never /\ Shows("never throws"), 2)
            + Worth(intent.enum, Worth(Shows("backed enum"), 3) - Worth(Shows("match"), 1))
            + Worth(intent.catalog /\ Shows("backed enum"), 1)
            + Worth(intent.shutdown, IF Shows("shutdown hook") THEN 3 ELSE -Worth(Shows("exit"), 1))
            + Worth(intent.uninstall,
                    IF Shows("uninstall hook") THEN 3 ELSE -Worth(Shows("deactivation hook"), 1))
        most == IF intent.catalog THEN 4 ELSE 3
    IN  20 * (IF units > most THEN most ELSE IF units < -1 THEN -1 ELSE units)

\* termAwareChunkScoreWithIntent: coverage before repetition, content before
\* path, and a header of imports below the declaration that answers.
TermScore(chunk, terms, intent) ==
    LET InContent(term) == Quality(term, chunk.content)
        InPath(term) == LET q == Quality(term, chunk.path)
                        IN  IF q > 0 /\ InContent(term) = 0 THEN q + 1 ELSE q
        Worth(term) == Max({InContent(term), InPath(term)})
        matched == {term \in terms : Worth(term) > 0}
        inContent == {term \in matched : InContent(term) > 0}
        declared == {term \in matched : Quality(term, chunk.declared) > 0}
        plain == MapThenSumSet(Worth, matched) + 6 * Cardinality(matched) * Cardinality(matched)
                 + 4 * Cardinality(inContent) + 8 * Cardinality(declared)
        header == "imports only" \in chunk.shapes
                  /\ \A term \in terms : term.stem \notin {"import", "namespace", "use"}
        score == (IF header THEN plain \div 4 ELSE plain) + Structural(chunk, intent)
    IN  IF matched = {} THEN 0 ELSE Max({1, score})

\* termAwarePathScore: what keeps a file the filter would pass over.
PathMatches(terms, path) == \E term \in terms : Quality(term, path) > 0

\* relationshipRankingWindow keeps the best twenty paths or more, within a
\* hundred (all of them here); termSearchRelationshipBonuses.
Bonus(p, candidates, edges, intent) ==
    LET Between(e) == e[1] # e[2] /\ {e[1], e[2]} \subseteq candidates
    IN  IF \E e \in edges : /\ Between(e)
                            /\ \/ intent.source /\ e[1] = p
                               \/ intent.target /\ e[2] = p
        THEN 20 ELSE 0
=============================================================================
