SPECIFICATION Spec
CONSTANTS
    w1 = w1
    w2 = w2
    Worker <- Workers2
    BufferSize = 4
    WriteSizes = {2}
    MaxWrites = 2
    MaxAttempts = 1
    MaxComponents = 32
    Faults <- NoFaults
INVARIANT ComposedInOrder
