SPECIFICATION Spec
CONSTANTS
    w1 = w1
    w2 = w2
    Worker <- Workers2
    BufferSize = 6
    WriteSizes = {1, 3}
    MaxWrites = 4
    MaxAttempts = 2
    MaxComponents = 2
    Faults <- FinalFaults
SYMMETRY WorkerSymmetry
INVARIANTS NoByteLost AllUploaded FilesBounded
PROPERTY ImplementsAnyOrder
