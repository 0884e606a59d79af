SPECIFICATION Spec
CONSTANTS
    w1 = w1
    w2 = w2
    RecursionLimit = 12
    DesignAttempts = 2
    StoreAttempts = 3
    Seeders <- TwoStarts
    Corpus <- OneText
    ChunkSize = 512
    ChunkOverlap = 50
    RrfK = 60
    SearchK = 2
SYMMETRY Starts
CHECK_DEADLOCK FALSE
INVARIANTS
    DesignerTypeOK
    StoredAreValid
    AttestedModelIsAuthor
    AttestedTraceable
    FusionSound
    ReviewedOrSaid
    CallsBounded
