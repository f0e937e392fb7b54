CONSTANTS
    Words <- MCWords
    EndOfSentence = "endofsentence"
    Normalized <- MCNormalized
    Morpha <- MCMorpha
    Kinds = {"tfidf", "occurrence", "ngrams", "serial"}
    Collections <- MCCollections
    Idf <- MCIdf
    Content <- MCContent
    Alnum <- MCAlnum
    Grams <- MCGrams
    MaxBins = 6
SPECIFICATION Spec
INVARIANTS
    TypeOK
    EveryWordCounted
    RowsRight
\* The process stops when it has read its documents
CHECK_DEADLOCK FALSE
