SPECIFICATION Spec
CONSTANTS
    a = a
    b = b
    v = v
    w = w
    t = t
    Txts = {t}
    NoNlp = NoNlp
    Docs = {d1}
    Labels = {a, b}
    Nlps = {v}
    NumSentences <- MCOneSize
    ForeignKeys = FALSE
    MaxRowid = 4
    Procs = {p1}
    Commands = {"publish", "unpublish", "publish-label"}
    PublishOptions <- MCAllOptions
    Curation = {"labels", "nlp", "rm"}
    InitialRows <- MCLabelled
    Exclusive = TRUE
    Crashes = TRUE
SYMMETRY AllSymmetry
PROPERTIES ImplementsCatalog MoveLosesNothing
