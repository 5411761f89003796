SPECIFICATION Spec
CONSTANTS
    PkIsText = TRUE
    id1 = id1
    id2 = id2
    id3 = id3
    Ids <- MCIds
    MinRowid = 0
    MaxRowid = 3
    MaxStatements = 1
    ChunkSize = 2
    CharBit = 2
    ViewLen = 2
    KMax = 3
    ZeroVector = 0
    Note = Note
    Null = Null
    Mistyped = Mistyped
    NoChange = NoChange
    NoMatch = NoMatch
    Partitions <- MCPartitions
    Vectors <- MCVectors
    Distance <- MCDistance
    Single <- MCSingle
    Texts <- MCTexts
    Auxiliaries <- MCAuxiliaries
    NewRows <- MCNewRows
    Changes <- MCChanges
    Queries <- MCQueries
INVARIANTS
    TypeOK
    PositionsAgree
    DeletesLeaveNothing
    KnnIsExact
    LookupsAreExact
    QueriesAnswer
PROPERTIES ImplementsTable
