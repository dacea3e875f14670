\* Every batch of one to three of six headers, aborted at any point.
CONSTANTS
    Headers <- MCHeaders
    Chain <- MCChain
    MaxBatch = 3
SPECIFICATION Spec
PROPERTY VerifyHeadersRefinesStream
CHECK_DEADLOCK FALSE
