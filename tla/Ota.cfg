SPECIFICATION Spec
CONSTANTS
    Workers = {w1, w2}
    Chunks = 2
    MaxAttempts = 2
    Window = 1
    Epoch = 0
    MaxUp = 1
SYMMETRY Symmetry
INVARIANT ClaimIsOwned
INVARIANT OneUpdate
INVARIANT Sheltered
INVARIANT SelectedIsWhole
CHECK_DEADLOCK FALSE
