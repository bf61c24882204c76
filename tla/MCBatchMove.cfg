SPECIFICATION BatchSpec
CONSTANTS
    a = a
    v = v
    w = w
    t = t
    d1 = d1
    d2 = d2
    Txts = {t}
    NoNlp = NoNlp
    Docs = {d1, d2}
    Labels = {a}
    Nlps = {v, w}
    NumSentences <- MCNumSentences
    ForeignKeys = FALSE
    MaxRowid = 4
    Procs = {p1}
    Batcher = p1
    Commands = {"publish"}
    PublishOptions <- MCMoving
    Curation = {}
    InitialRows <- MCAnyAck
    Exclusive = TRUE
    Crashes = TRUE
    Move = TRUE
    DocOrder <- MCOrder
    MaxCrashes = 0
    MaxPayloads = 0
PROPERTIES AcknowledgedGoLive
