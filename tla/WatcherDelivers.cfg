SPECIFICATION FairSpec
CONSTANTS
    Paths = {1, 2}
    Texts = {t1}
    NoFile = NoFile
    Unreadable = Unreadable
    Contents = {t1, NoFile}
    Ignored = {99}
    BurstThreshold = 2
INVARIANTS
    TypeOK
    ChangesAreOnTheirWay
PROPERTIES
    WatchedCorpusIsIndexed
