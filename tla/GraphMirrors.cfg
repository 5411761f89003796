SPECIFICATION Spec
CONSTANTS
    Documents = {"d1", "d2"}
    Chunks = {"c1", "c2", "c3"}
    DocumentOf <- MCDocumentOf
    TitleOf <- MCTitleOf
    NoChunk = "none"
    Names <- MCNames
    NoTitle = "none"
    Keys = {"TOKEN", "BEARER"}
    KeyOf <- MCKeyOf
    Types = {"Document", "Component"}
    DocumentType = "Document"
    Headers <- MCHeaders
    Answers <- MCAnswers
    Passes = {p, q}
SYMMETRY Symmetry
INVARIANTS
    TypeOK
    GraphCitesLiveRows
    EntitiesAreReferenced
    MentionsMirrorLastAnswer
    DeclaredTitleStands
