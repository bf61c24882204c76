SPECIFICATION Spec
CONSTANTS
    a = a
    b = b
    v = v
    w = w
    t = t
    Txts = {t}
    NoNlp = NoNlp
    Docs = {d1, d2}
    Labels = {a}
    Nlps = {v}
    NumSentences <- MCOneSize
    ForeignKeys = FALSE
    MaxRowid = 4
    Procs = {p1, p2}
    Commands = {"publish", "unpublish", "publish-label"}
    PublishOptions <- MCPlain
    Curation = {"labels"}
    InitialRows <- MCLabelled
    Exclusive = TRUE
    Crashes = TRUE
SYMMETRY AllSymmetry
INVARIANTS Integrity LabelIndexAgrees WholeDocuments
PROPERTIES UnpublishLeavesNothing PublishGoesLive PublishLabelHeals
