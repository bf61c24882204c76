SPECIFICATION ReadersSpec
CONSTANTS
    x = x
    y = y
    f = f
    g = g
    noun = noun
    Lemmas = {x, y}
    Features = {f, g}
    Poses = {noun}
    Sentences <- MCSentences
    Expressions <- MCExpressions
    Inputs <- MCInputs
    MaxInt = 4
    Layouts <- MCLayouts
    PartialOffset = 1
    e1 = e1
    e2 = e2
    k1 = k1
    k2 = k2
    Exprs = {e1, e2}
    Strings = {k1, k2}
    Keyings <- MCKeyings
    MaxRow = 3
    Options <- MCOptions
    MaxBatch = 2
INVARIANTS ChainsAreOccurrences MatchesAreCandidates PrintedIsText MatchesAreBright
INVARIANTS BudgetIsKept ScansFindAll SampleIsFair StopsLate
PROPERTIES SampleEnds
CHECK_DEADLOCK FALSE
