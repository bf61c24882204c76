SPECIFICATION SearchSpec
CONSTANTS
    a = a
    v = v
    t = t
    Txts = {t}
    NoNlp = NoNlp
    Docs = {d1, d2}
    Labels = {a}
    Nlps = {v}
    NumSentences <- MCOneSize
    ForeignKeys = FALSE
    MaxRowid = 4
    Procs = {p1}
    Commands = {"publish", "unpublish"}
    PublishOptions <- MCPlain
    Curation = {}
    InitialRows <- MCLabelled
    Exclusive = TRUE
    Crashes = TRUE
    Requests <- MCRequests
    PageSize = 1
    Budget = 3
    MaxStarted = 1
INVARIANTS FindsEachOnce FindMissesNothing FindsWholeDocuments
    FindsOnlyLive FindNearsLimit
PROPERTIES FindEnds
