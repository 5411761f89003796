SPECIFICATION Spec
CONSTANTS
    m1 = m1
    m2 = m2
    m3 = m3
    Models = {m1, m2, m3}
    Width <- MCWidth
    Stores = {s1, s2}
    Chunks = {c1}
    Ids = {1, 2, 3}
    MaximumAttempts = 2
    NoStore = NoStore
    NoModel = NoModel
INVARIANT
    DroppedVectorsAreReembedded
