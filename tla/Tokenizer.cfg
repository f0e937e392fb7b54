CONSTANTS
    Texts <- MCTexts
    Stopwords <- MCStopwords
    Abbreviations <- MCAbbreviations
    InitialRanges = 2
    WordLimit = 3
SPECIFICATION FairSpec
INVARIANTS
    TypeOK
    Disjoint
    ContentKept
    SentencesHaveContent
    BreakRules
PROPERTIES
    StoredInside
    Termination
