SPECIFICATION ToolsSpec
CHECK_DEADLOCK FALSE
CONSTANTS
    NoteKeys = {"k"}
    Worktrees = {"main", "linked"}
    NotePaths = {"a", "b"}
    NoPath = "HEAD"
    Branches = {"trunk", "topic", "other"}
    NoteAnchors <- MCNoteAnchors
    HadLegacy <- MCHadLegacy
    ChangingTrees = {"linked"}
    MaxNoteOps = 3
    MaxNoteEdits = 2
    Updaters = {1, 2}
    Releases <- MCReleases
    FirstBinary <- MCFirstBinary
    NoBinary <- MCNoBinary
    MaxUpdates = 2
    SetupClients <- MCSetupClients
    CommandClients = {"codex", "claude"}
    Snapshotted = {"claude"}
    OtherEntries = {"x"}
    Guides <- MCGuides
    MaxSaves = 1
    SearchFiles <- MCSearchFiles
    SearchVersions = {1, 2}
    ChunkOf <- MCChunkOf
    RangeOf <- MCRangeOf
    Likely <- MCLikely
    SearchQueries <- MCSearchQueries
    RelatedFiles <- MCRelatedFiles
    SemanticWeight = 35
    MaxResults = 1
    MaxCommits = 3
    MaxSearches = 1
    MaxDrops = 1
    ContextFiles <- MCContextFiles
    ContextChunks <- MCContextChunks
    OutlineBytes <- MCOutlineBytes
    RelatedTo <- MCRelatedTo
    FocusFinds <- MCFocusFinds
    ContextLimits <- MCContextLimits
    MaxVanished = 1
    DiffPaths <- MCDiffPaths
    Sensitive = {"s"}
    NotIndexable = {}
    GitIgnored = {"b"}
    DiffTrees <- MCDiffTrees
    DiffRequests <- MCDiffRequests
    ChunksIn <- MCChunksIn
    MaxDiffPaths = 1
    PerFile = 1
    DiffTokens = 100
    DiffBytes = 8
    MaxDiffBytes = 12
    Lookahead = 6
    OmittedBytes = 5
    MaxTreeEdits = 2
    GraphCallers = {"x", "y"}
    GraphLanguages = {"php", "go", "py"}
    MaxTreeVersion = 2
    MaxGraphCalls = 2
    RepoFiles <- MCRepoFiles
    RepoTexts <- MCRepoTexts
    GoneText <- MCGoneText
    RepoIgnored = {}
    RepoGlobs <- MCRepoGlobs
    RepoMaxResults = 3
    RepoMaxFileBytes = 30
    SnippetBytes = 12
    ContextLines = 1
    NoteResources <- MCNoteResources
    KeyFiles <- MCKeyFiles
    PageSize = 1
    MaxRepoEdits = 1
    ReadRequests <- MCReadRequests
    ReadDefault = 32
    ReadMargin = 4
    ReadBuffer = 6
    RelPaths <- MCRelPaths
    RelKind <- MCRelKind
    RelDir <- MCRelDir
    RelLinks <- MCRelLinks
    RelIgnored = {"b.js"}
    RelOptions = {{"same", "imports", "importers", "refs"}}
    RelMax = {6}
    MaxRelEdits = 2
    ChunkInputs <- MCChunkInputs
    MaxChunkLines = 3
    MaxChunkBytes = 10
INVARIANTS LegacyNotLost ExecutableIsWhole    PhpGraphIsCurrent AnswersAreWhole RelatedIsWhole ChunksCoverFile
PROPERTIES NoUpdateLost FreshIsTrue BuriedOnlyWhenLost GcNeedsJudgement FreshVectorsKept
