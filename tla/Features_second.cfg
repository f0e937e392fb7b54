CONSTANTS
    Words <- MCWords
    EndOfSentence = "endofsentence"
    Normalized <- MCNormalized
    Morpha <- MCMorpha
    Kinds = {"serial2"}
    Collections <- MCCollections
    Idf <- MCIdf
    Content <- MCContent
    Alnum <- MCAlnum
    Grams <- MCGrams
    MaxBins = 6
SPECIFICATION Spec
INVARIANT EveryWordCounted
\* The process stops when it has read its documents
CHECK_DEADLOCK FALSE
