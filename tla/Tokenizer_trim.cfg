CONSTANTS
    Texts <- MCTexts
    Stopwords <- MCStopwords
    Abbreviations <- MCAbbreviations
    InitialRanges = 2
    WordLimit = 3
SPECIFICATION Spec
INVARIANTS
    SentencesTrimmed
