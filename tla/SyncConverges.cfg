SPECIFICATION FairSpec
CONSTANTS
    Paths = {1, 2, 3}
    Texts = {t1, t2}
    NoFile = NoFile
    Unreadable = Unreadable
INVARIANTS
    TypeOK
    PathsAreUnique
    QuietSyncIndexesCorpus
PROPERTIES
    SyncKeepsDocuments
    IndexConverges
