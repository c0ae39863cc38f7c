SPECIFICATION Spec
CONSTANTS
    MaxTokenLen = 2
    Chunkings <- MCChunkings
    RefLines <- MCRefLines
    PlaceholderLines <- MCPlaceholderLines
    Answers <- MCAnswers
    SecretTexts <- MCSecretTexts
    Rests <- MCRests
    FileNames <- MCFileNames
    Trees <- MCTrees
    Files <- MCFiles
    ExtraFiles <- MCExtraFiles
    RefWords <- MCRefWords
    Repos <- MCRepos
    ExtraPatterns <- MCExtraPatterns
    Times <- MCTimes
    StaleAfter = 15
    Records <- MCRecords
    Sinks <- MCSinks
    Lasts <- MCLasts
INVARIANTS
    SplitIgnoresChunks
    
    SameSecretGetsIn
    PruneKeepsSelection
    CuratedAdvertisement
    DoctorJudgesAdvertised
    
CHECK_DEADLOCK FALSE
