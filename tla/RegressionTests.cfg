SPECIFICATION Spec
CONSTANTS
    p = p
    q = q
    r = r
    a = a
    b = b
    m1 = m1
    m2 = m2
    PRs = {p, q, r}
    Files = {a, b}
    File <- MCFile
    Version <- MCVersion
    Mutants = {m1, m2}
    Longer = {m2}
    Covered = {p, r}
    Loud = {p}
    MaxDeaths = 1
    Ids <- MCIds
    Unclosed <- MCUnclosed
    Base <- MCBase
    Sessions <- MCSessions
INVARIANTS
    ResultsAreBacked
    OriginalIsKept
    ListIsRight
    LogsAreRead
