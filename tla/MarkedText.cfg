CONSTANTS
    Kinds = {"ngrams", "json", "dom"}
    Documents <- MCDocuments
    Ids <- MCIds
    Words <- MCWords
    Numbers = {"7"}
    Stopwords <- MCStopwords
    Morpha <- MCMorpha
SPECIFICATION Spec
INVARIANTS
    TypeOK
    NgramsCounted
    LeadingTags
\* The program stops when it has gone through the sentences
CHECK_DEADLOCK FALSE
