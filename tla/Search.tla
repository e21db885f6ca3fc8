------------------------------- MODULE Search -------------------------------
(***************************************************************************)
(* Searches of the index (internal/indexing/indexer.go, searchContext) in    *)
(* the face of the worker's commits.  A search takes the manifest's entries  *)
(* and the trigram filter's candidates under the lock, and reads chunk and   *)
(* vector files after it.  A file is one chunk; a version of it stands for    *)
(* its content, hash and modification time, and grows with each save.        *)
(***************************************************************************)
EXTENDS TermRanking, Sequences, SequencesExt

CONSTANTS SearchFiles,      \* files of the workspace, in path order
          SearchVersions,
          ChunkOf,          \* per file and version, the chunk TermRanking scores
          RangeOf,          \* per file and version, the lines of the chunk
          Likely,           \* per file and version, cosine with the query in percent
          SearchQueries,    \* queries by terms: [terms, said, defining]
          RelatedFiles,     \* edges of the relationship provider
          SemanticWeight,   \* in percent
          MaxResults,
          MaxCommits, MaxSearches, MaxDrops     \* bounds
ASSUME SearchAssumption == SearchVersions \subseteq Nat \ {0}

VARIABLES
    srEntry,        \* the manifest: per file [version, vectors] (version 0: none)
    srChunks, srVectors,    \* the files on disk: the version they were made of
    srPosted,       \* the trigram index: the version posted (0: not ready)
    srWriter,       \* a commit under the lock: [file, version, embedded, step]
    srSemantic,     \* whether there is an embedder
    srBackoff,      \* no embedding is tried before the retry time
    srRun,          \* the search under way
    srAnswer,       \* what the last search returned
    srLeft,         \* history: files that left the index since it began
    srCommits, srSearches, srDrops
srVars == <<srEntry, srChunks, srVectors, srPosted, srWriter, srSemantic, srBackoff,
            srRun, srAnswer, srLeft, srCommits, srSearches, srDrops>>

Files == {SearchFiles[i] : i \in DOMAIN SearchFiles}
NotIndexed == [version |-> 0, vectors |-> FALSE]
NoWriter == [file |-> SearchFiles[1], version |-> 0, embedded |-> FALSE, step |-> "none"]
NoRun == [step |-> "idle", query |-> CHOOSE q \in SearchQueries : TRUE, vector |-> FALSE,
          todo |-> <<>>, entries |-> [f \in Files |-> NotIndexed], chunk |-> 0, found |-> {}]
LockIsFree == srWriter.step = "none"

SearchInit ==
    /\ srEntry = [f \in Files |-> NotIndexed]
    /\ srChunks = [f \in Files |-> 0] /\ srVectors = [f \in Files |-> 0]
    /\ srPosted = [f \in Files |-> 0]
    /\ srWriter = NoWriter /\ srSemantic \in BOOLEAN /\ srBackoff = FALSE
    /\ srRun = NoRun /\ srAnswer = <<>> /\ srLeft = {}
    /\ srCommits = 0 /\ srSearches = 0 /\ srDrops = 0

-----------------------------------------------------------------------------
(* The index changes                                                        *)

\* The commit at the end of indexOne, under the lock: chunks, vectors, entry
\* and postings.
CommitChunks(f, v, embedded) ==
    /\ LockIsFree /\ v > srEntry[f].version /\ (embedded => srSemantic)
    /\ srCommits < MaxCommits /\ srCommits' = srCommits + 1
    /\ srChunks' = [srChunks EXCEPT ![f] = v]
    /\ srWriter' = [file |-> f, version |-> v, embedded |-> embedded, step |-> "vectors"]
    /\ UNCHANGED <<srEntry, srVectors, srPosted, srSemantic, srBackoff, srRun, srAnswer, srLeft, srSearches, srDrops>>
CommitVectors ==
    /\ srWriter.step = "vectors" /\ srWriter' = [srWriter EXCEPT !.step = "entry"]
    /\ srVectors' = [srVectors EXCEPT ![srWriter.file] =
                        IF srWriter.embedded THEN srWriter.version ELSE 0]
    /\ UNCHANGED <<srEntry, srChunks, srPosted, srSemantic, srBackoff, srRun, srAnswer, srLeft, srCommits, srSearches, srDrops>>
CommitEntry ==
    /\ srWriter.step = "entry" /\ srWriter' = NoWriter
    /\ srEntry' = [srEntry EXCEPT ![srWriter.file] =
                        [version |-> srWriter.version, vectors |-> srWriter.embedded]]
    /\ srPosted' = [srPosted EXCEPT ![srWriter.file] = srWriter.version]
    /\ UNCHANGED <<srChunks, srVectors, srSemantic, srBackoff, srRun, srAnswer, srLeft, srCommits, srSearches, srDrops>>

\* backfillVectors: an entry without vectors gets those of its chunks.
BackfillVectors(f) ==
    /\ LockIsFree /\ srSemantic /\ ~srBackoff
    /\ srEntry[f].version # 0 /\ ~srEntry[f].vectors
    /\ srVectors' = [srVectors EXCEPT ![f] = srEntry[f].version]
    /\ srEntry' = [srEntry EXCEPT ![f].vectors = TRUE]
    /\ UNCHANGED <<srChunks, srPosted, srWriter, srSemantic, srBackoff, srRun, srAnswer, srLeft, srCommits, srSearches, srDrops>>

DropFile(f) ==      \* RemovePaths
    /\ LockIsFree /\ srEntry[f].version # 0 /\ srDrops < MaxDrops /\ srDrops' = srDrops + 1
    /\ srEntry' = [srEntry EXCEPT ![f] = NotIndexed]
    /\ srPosted' = [srPosted EXCEPT ![f] = 0]
    /\ srChunks' = [srChunks EXCEPT ![f] = 0] /\ srVectors' = [srVectors EXCEPT ![f] = 0]
    /\ srLeft' = srLeft \union {f}
    /\ UNCHANGED <<srWriter, srSemantic, srBackoff, srRun, srAnswer, srCommits, srSearches>>

-----------------------------------------------------------------------------
(* A search                                                                 *)

\* A query without a meaningful term is refused.
SearchBegins(query) ==
    /\ srRun.step = "idle" /\ srSearches < MaxSearches /\ srSearches' = srSearches + 1
    /\ TermsOf(query, IntentOf(query.said, query.defining)) # {}
    /\ srRun' = [NoRun EXCEPT !.step = "embed", !.query = query] /\ srLeft' = {}
    /\ UNCHANGED <<srEntry, srChunks, srVectors, srPosted, srWriter, srSemantic, srBackoff, srAnswer, srCommits, srDrops>>

\* The query is embedded if it may; a failure backs off and searches without.
SearchEmbeds ==
    /\ srRun.step = "embed"
    /\ \E answered \in BOOLEAN :
        /\ answered => srSemantic /\ ~srBackoff
        /\ srRun' = [srRun EXCEPT !.step = "enter", !.vector = answered]
        /\ srBackoff' = (srBackoff \/ (srSemantic /\ ~answered))
    /\ UNCHANGED <<srEntry, srChunks, srVectors, srPosted, srWriter, srSemantic, srAnswer, srLeft, srCommits, srSearches, srDrops>>
BackoffEnds ==
    /\ srBackoff /\ srBackoff' = FALSE
    /\ UNCHANGED <<srEntry, srChunks, srVectors, srPosted, srWriter, srSemantic, srRun, srAnswer, srLeft, srCommits, srSearches, srDrops>>

Intent == IntentOf(srRun.query.said, srRun.query.defining)
QueryTerms == TermsOf(srRun.query, Intent)

\* Without a query vector the trigram filter leaves out the files that have
\* postings and cannot match, in content or in path.
Filtered(f) ==
    /\ ~srRun.vector /\ srPosted[f] # 0
    /\ ~MayMatch(QueryTerms, ChunkOf[f][srPosted[f]].content)
    /\ ~PathMatches(QueryTerms, ChunkOf[f][srPosted[f]].path)
SearchEnters ==
    /\ srRun.step = "enter" /\ LockIsFree
    /\ srRun' = [srRun EXCEPT !.step = "read", !.entries = srEntry,
            !.todo = SelectSeq(SearchFiles, LAMBDA f : srEntry[f].version # 0 /\ ~Filtered(f))]
    /\ UNCHANGED <<srEntry, srChunks, srVectors, srPosted, srWriter, srSemantic, srBackoff, srAnswer, srLeft, srCommits, srSearches, srDrops>>

Lexical(f, v) == TermScore(ChunkOf[f][v], QueryTerms, Intent)
Hit(f, semantic) ==     \* what scoring the chunk that was read adds
    IF Lexical(f, srRun.chunk) = 0 /\ semantic = 0 THEN {}
    ELSE {[file |-> f, version |-> srRun.chunk,
           lexical |-> Lexical(f, srRun.chunk), semantic |-> semantic]}
ScoredWith(found) == [srRun EXCEPT !.step = "read", !.todo = Tail(@), !.found = @ \union found,
                                   !.chunk = 0]

\* A chunk file that cannot be read passes the file over.
SearchReadsChunks ==
    LET f == Head(srRun.todo)
    IN  /\ srRun.step = "read" /\ srRun.todo # <<>>
        /\ srRun' = IF srChunks[f] = 0 THEN ScoredWith({})
                    ELSE [srRun EXCEPT !.step = IF srRun.vector /\ srRun.entries[f].vectors
                                                THEN "vectors" ELSE "score",
                                       !.chunk = srChunks[f]]
        /\ UNCHANGED <<srEntry, srChunks, srVectors, srPosted, srWriter, srSemantic, srBackoff, srAnswer, srLeft, srCommits, srSearches, srDrops>>

\* Vectors belong to a chunk by its lines and by nothing else.
Paired(f) == srVectors[f] # 0 /\ RangeOf[f][srVectors[f]] = RangeOf[f][srRun.chunk]
SearchReadsVectors ==
    LET f == Head(srRun.todo)
    IN  /\ srRun.step = "vectors"
        /\ srRun' = IF Paired(f) THEN ScoredWith(Hit(f, Likely[f][srVectors[f]]))
                    ELSE [srRun EXCEPT !.step = "stale"]
        /\ UNCHANGED <<srEntry, srChunks, srVectors, srPosted, srWriter, srSemantic, srBackoff, srAnswer, srLeft, srCommits, srSearches, srDrops>>

\* Faulty variant: the entry is marked whatever has become of it.
MarkWhateverIsThere ==
    LET f == Head(srRun.todo)
    IN  /\ srRun.step = "stale" /\ LockIsFree
        /\ srEntry' = [srEntry EXCEPT ![f].vectors = FALSE]
        /\ srRun' = [srRun EXCEPT !.step = "score"]
        /\ UNCHANGED <<srChunks, srVectors, srPosted, srWriter, srSemantic, srBackoff, srAnswer, srLeft, srCommits, srSearches, srDrops>>

\* markVectorsStale: only the entry the search had taken.
MarkVectorsStale ==
    LET f == Head(srRun.todo)
    IN  /\ srRun.step = "stale" /\ LockIsFree
        /\ srEntry' = IF srEntry[f].version = srRun.entries[f].version
                      THEN [srEntry EXCEPT ![f].vectors = FALSE] ELSE srEntry
        /\ srRun' = [srRun EXCEPT !.step = "score"]
        /\ UNCHANGED <<srChunks, srVectors, srPosted, srWriter, srSemantic, srBackoff, srAnswer, srLeft, srCommits, srSearches, srDrops>>
SearchScores ==
    /\ srRun.step = "score" /\ srRun' = ScoredWith(Hit(Head(srRun.todo), 0))
    /\ UNCHANGED <<srEntry, srChunks, srVectors, srPosted, srWriter, srSemantic, srBackoff, srAnswer, srLeft, srCommits, srSearches, srDrops>>

\* Relationships raise what lexical evidence found; with a vector in play the
\* rank is the weighted sum of both, else the lexical score; ties by path.
Raised(hit) ==
    IF hit.lexical = 0 THEN 0
    ELSE hit.lexical + Bonus(hit.file, {h.file : h \in {g \in srRun.found : g.lexical > 0}},
                             RelatedFiles, Intent)
Best == Max({Raised(hit) : hit \in srRun.found} \union {0})
Hybrid == srRun.vector /\ \E hit \in srRun.found : hit.semantic > 0
Share(hit) == IF Best = 0 THEN 0 ELSE (100 * Raised(hit)) \div Best
Rank(hit) == IF Hybrid THEN (100 - SemanticWeight) * Share(hit) + SemanticWeight * hit.semantic
             ELSE Raised(hit)
Position(f) == CHOOSE i \in DOMAIN SearchFiles : SearchFiles[i] = f
Above(a, b) ==
    \/ Rank(a) > Rank(b)
    \/ Rank(a) = Rank(b) /\ Raised(a) > Raised(b)
    \/ Rank(a) = Rank(b) /\ Raised(a) = Raised(b) /\ Position(a.file) < Position(b.file)
SearchAnswers ==
    LET ranked == SetToSortSeq(srRun.found, Above)
    IN  /\ srRun.step = "read" /\ srRun.todo = <<>> /\ srRun' = NoRun
        /\ srAnswer' = SubSeq(ranked, 1, IF Len(ranked) > MaxResults THEN MaxResults ELSE Len(ranked))
        /\ UNCHANGED <<srEntry, srChunks, srVectors, srPosted, srWriter, srSemantic, srBackoff, srLeft, srCommits, srSearches, srDrops>>

\* The caller's context ends.
SearchCancelled ==
    /\ srRun.step \notin {"idle", "stale"} /\ srRun' = NoRun /\ srAnswer' = <<>>
    /\ UNCHANGED <<srEntry, srChunks, srVectors, srPosted, srWriter, srSemantic, srBackoff, srLeft, srCommits, srSearches, srDrops>>

SearchNext ==
    \/ \E f \in Files, v \in SearchVersions, embedded \in BOOLEAN : CommitChunks(f, v, embedded)
    \/ CommitVectors \/ CommitEntry
    \/ \E f \in Files : BackfillVectors(f) \/ DropFile(f)
    \/ \E query \in SearchQueries : SearchBegins(query)
    \/ SearchEmbeds \/ BackoffEnds \/ SearchEnters \/ SearchReadsChunks \/ SearchReadsVectors
    \/ MarkVectorsStale \/ SearchScores \/ SearchAnswers \/ SearchCancelled

SearchSpec == SearchInit /\ [][SearchNext]_srVars

-----------------------------------------------------------------------------
(* Properties                                                               *)

\* A search that read around a commit does not take the vectors from the entry
\* the commit has put in place: a mark it makes stands for files that disagreed
\* while the entry was the one it had taken (or the file has left and come back).
FreshVectorsKept ==
    [][\A f \in Files :
        (srEntry[f].vectors /\ srEntry'[f] # srEntry[f]
             /\ srEntry'[f].version = srEntry[f].version)
            => f \in srLeft \/ srVectors[f] # srEntry[f].version
                            \/ srChunks[f] # srEntry[f].version]_srVars
=============================================================================
