SPECIFICATION IngestSpec
CONSTANTS
    a = a
    t = t
    u = u
    d1 = d1
    d2 = d2
    NoNlp = NoNlp
    Docs = {d1, d2}
    Labels = {a}
    Nlps = {}
    Txts = {t, u}
    Ingesters = {p1, p2}
    Dirs <- MCDirs
    Extracted <- MCExtracted
    PoolSize = 2
    Curators = {"push-txt", "ack"}
    MaxCrashes = 1
PROPERTIES IngestAllOrNothing IngestKeepsCuration IngestedAtLast
