SPECIFICATION FairSpec
CONSTANTS
  Texts <- MCTexts
  Files <- MCFiles
  Types <- MCTypes
  Longest <- MCLongest
  LongestFile <- MCLongestFile
  Vocabularies <- MCVocabularies
INVARIANTS TokensByRule ParsedByRule DeclaredByRule
PROPERTY Terminates
