SPECIFICATION SessionSpec
CONSTANTS
    MaxTokens = 5
    MaxLines = 3
    Archives <- MCArchives
    Environments <- MCEnvironments
    Vocabulary <- MCVocabulary
    FirstLines <- MCFirstLines
    LaterLines <- MCLaterLines
    Home <- MCHome
    Id <- MCId
    Spelled <- MCSpelled
INVARIANTS TextIsReading LabelColumnIsSet HelpOnlyPrints LineIsHeeded
CHECK_DEADLOCK FALSE
