SPECIFICATION Spec
CONSTANTS
    a = a
    b = b
    v = v
    w = w
    t = t
    Txts = {t}
    NoNlp = NoNlp
    Docs = {d1}
    Labels = {a}
    Nlps = {v}
    NumSentences <- MCOneSize
    ForeignKeys = FALSE
    MaxRowid = 2
    Procs = {p1}
    Commands = {"publish"}
    PublishOptions <- MCPlain
    Curation = {}
    InitialRows <- MCLabelled
    Exclusive = TRUE
    Crashes = TRUE
PROPERTIES PublishIndexesLabels
