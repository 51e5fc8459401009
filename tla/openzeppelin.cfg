\* Searches in histories of up to nine checkpoints: with and without the first
\* guess, with roots 2 and 3.  Histories with keys of three bits, sets and maps
\* of words with three values, casts of words with six bits.  Two minor versions
\* of the docs, with a patch each; four tags, enough for two candidates of a
\* release; two files of up to three imports.  What ended, or has nothing left
\* to do, stays.
SPECIFICATION MCSpec
CHECK_DEADLOCK FALSE
CONSTANTS
    LastCheckpoint = 9
    Histories <- MCHistories
    Blocks <- MCBlocks
    Width = 6
    Step = 2
    KeyBits = 3
    ValueBits = 1
    PushedValues = {0, 1}
    LastBlockNumber = 9
    TypeSize <- MCTypeSize
    Minors = {8, 9}
    MaxPatch = 1
    Contracts = {here}
    Texts = {draft, fixed}
    MaxTags = 4
    SolFiles = {here, there}
    OldPaths <- MCOldPaths
    NewPaths <- MCNewPaths
    PathUpdates <- MCPathUpdates
    Sources <- MCSources
INVARIANTS
    ReadsInBounds
    FindsValue
    LookupsExact
    ReadsAgree
    CastsKeepNumber
    FinalReleasesConsistent
PROPERTIES
    SearchEnds
    AnswersStay
    ImplementKeyedMaps
    DocsNeverGoBack
    MigrationConverges
