SPECIFICATION Spec
CONSTANTS
    EndOfSentence <- EOS
    Words <- MCWords
    Normalized <- MCNormalized
    Morpha <- MCMorpha
    Content <- MCContent
    Alnum <- MCAlnum
    Rare = 1
    Kinds = {"extract", "ngram_idf", "idf", "tf_idf", "simplify"}
    Names <- MCNames
    Corpora <- MCCorpora
INVARIANTS
    TypeOK
    CountsRight
    ScoresRight
    LanguageModelInput
    Decodable
\* The task ends with its report
CHECK_DEADLOCK FALSE
