\* A deletion beside the transaction that stores the chunks, against "removes associated embeddings".
SPECIFICATION Spec
CONSTANTS
    Servers = {s1}
    FileCount = 1
    BatchSize = 1
    MaxMishaps = 0
INVARIANT DeletedHasNoChunks
CHECK_DEADLOCK FALSE
