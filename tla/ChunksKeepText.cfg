SPECIFICATION Spec
CONSTANTS
    Documents <- MCDocuments
    Configurations <- MCConfigurations
    Names <- MCNames
    NoTitle = "none"
INVARIANTS
    TypeOK
    IdsAreUnique
    ChunksFit
    TextIsKept
    FencesStayWhole
    TextKnowsItsHeading
