SPECIFICATION FairSpec
CONSTANTS
    w1 = w1
    w2 = w2
    Worker <- Workers1
    BufferSize = 3
    WriteSizes = {1, 3}
    MaxWrites = 3
    MaxAttempts = 3
    MaxComponents = 3
    Faults <- AllFaults
PROPERTIES ImplementsInOrder Terminates
