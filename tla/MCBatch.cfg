SPECIFICATION BatchSpec
CONSTANTS
    a = a
    v = v
    w = w
    t = t
    d1 = d1
    d2 = d2
    Txts = {t}
    NoNlp = NoNlp
    Docs = {d1, d2}
    Labels = {a}
    Nlps = {v, w}
    NumSentences <- MCNumSentences
    ForeignKeys = FALSE
    MaxRowid = 4
    Procs = {p1}
    Batcher = p1
    Commands = {"publish"}
    PublishOptions <- MCPlain
    Curation = {"labels", "nlp", "rm"}
    InitialRows <- MCAnyAck
    Exclusive = TRUE
    Crashes = TRUE
    Move = FALSE
    DocOrder <- MCOrder
    MaxCrashes = 1
    MaxPayloads = 1
INVARIANTS BatchIsComplete
PROPERTIES AcknowledgedGoLive
CHECK_DEADLOCK FALSE
