SPECIFICATION Spec
CONSTANTS
    j1 = j1
    j2 = j2
    short = short
    long = long
    Jobs = {j1, j2}
    JobTx = {t1}
    DayTx = {d1, d2}
    CapTx = {c1, c2}
    MaxBegun = 3
    Workers = {1, 2}
    Users = {boss, crew}
    Admins = {boss}
    Batches <- SomeBatches
    Omitted = Omitted
    DayHours = 24
    Nobody = Nobody
    Texts <- TwoTexts
    Mentions <- SomeMentions
    Amount <- SameAmount
    NoJob = NoJob
    Window = 0
    MaxTime = 1
    NoOne = NoOne
SYMMETRY Interchangeable
INVARIANTS
    DayWithin24h
    NoCircularWait
    HistoryIsKept
    TwinsOverlap
