SPECIFICATION BackupSpec
CONSTANTS
    a = a
    t = t
    t2 = t2
    v = v
    v2 = v2
    NoNlp = NoNlp
    Docs = {d1, d2}
    Labels = {a}
    Nlps = {v, v2}
    Txts = {t, t2}
    Runners = {p1}
    NlpOf <- MCNlpOf
    Extracted <- MCExtracted
    ForceFlags = {TRUE, FALSE}
    Curators = {"push-txt", "ack", "rm", "move"}
    MaxUses = 1
    TopicNames = {n1}
    WithNlp = {TRUE, FALSE}
    Journals = {"delete", "wal"}
    MaxBackups = 1
SYMMETRY Symmetry
INVARIANTS NlpNeedsTxtAck BackupRowsAgree
PROPERTIES BackupIsComplete
