SPECIFICATION FairSpec
CONSTANTS
    Chunks = {c1, c2}
    Texts = {t1, t2}
    NoText = NoText
    Passes = {p1, p2}
    Ids = {1, 2, 3}
    MaximumAttempts = 2
    BatchSize = 1
    WorkerCount = 1
    GraphSettings = {TRUE}
    Files <- OneChunkEdited
    Migrations = {}
VIEW QueueView
PROPERTY
    QueueDrains
