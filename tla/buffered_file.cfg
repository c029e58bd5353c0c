SPECIFICATION Spec
CONSTANTS
    Start <- Contents
    Blocks <- Written
    ReadCap = 2
    WriteCap = 2
    Chunk = 1
    MaxLen = 5
INVARIANTS NoSilentLoss
PROPERTIES IsByteFile SuccessMeansOnDisk
