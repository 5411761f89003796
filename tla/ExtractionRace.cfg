SPECIFICATION Spec
CONSTANTS
    Chunks = {c1}
    Texts = {t1, t2}
    NoText = NoText
    Passes = {p1}
    Ids = {1, 2}
    MaximumAttempts = 2
    BatchSize = 2
    WorkerCount = 1
    GraphSettings = {TRUE}
    Files <- AllFiles
    Migrations <- AllMigrations
SYMMETRY Symmetry
INVARIANT
    ExtractedHashNamesFacts
