\* Two index runs, one reader, two documents, two models of other dimensions; the
\* chunker on every text of up to five lines.
SPECIFICATION Spec
CONSTANTS
    None = None
    manual = manual
    notes = notes
    small = small
    large = large
    i1 = i1
    i2 = i2
    r1 = r1
    ChunkSize = 12
    TopK = 2
    Paths = {manual, notes}
    Models = {small, large}
    Indexers = {i1, i2}
    Readers = {r1}
    Texts <- MCTexts
    Samples <- MCSamples
    Model <- MCModel
    Dim <- MCDim
SYMMETRY Symmetric
INVARIANTS
    TypeOK
    DocWhole
    ViewsConsistent
    BlocksCovered
    PathInForce
