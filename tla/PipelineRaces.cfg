SPECIFICATION Spec
CONSTANTS
    Chunks = {c1}
    Texts = {t1, t2}
    NoText = NoText
    Passes = {p1, p2}
    Ids = {1, 2, 3}
    MaximumAttempts = 2
    BatchSize = 2
    WorkerCount = 1
    GraphSettings = {TRUE, FALSE}
    Files <- AllFiles
    Migrations <- AllMigrations
SYMMETRY Symmetry
INVARIANTS
    TypeOK
    StaleChunkIsQueued
    UnextractedChunkIsQueued
    EmbeddedHashNamesVector
    BudgetDecidesDeadLetter
PROPERTY
    DeadLetterStaysDead
