SPECIFICATION Spec
CONSTANTS
    BlockSize = 64
    HeaderValues = 256
    Overhead = 28
    MaxFrame = 284
    Lengths <- EdgeLengths
    MaxSent = 3
INVARIANTS
    TypeOK
    ReadsWhatWasWritten
    WholeBlocks
\* Everything sent and read.
CHECK_DEADLOCK FALSE
