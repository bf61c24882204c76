SPECIFICATION SessionSpec
CONSTANTS
    MaxTokens = 0
    MaxLines = 3
    Archives <- MCArchives
    Environments <- MCEnvironments
    Vocabulary <- MCVocabulary
    FirstLines <- MCSetLabelLines
    LaterLines <- MCSetLabelLines
    Home <- MCHome
    Id <- MCId
    Spelled <- MCSpelled
INVARIANT DeleteDeletes
CHECK_DEADLOCK FALSE
