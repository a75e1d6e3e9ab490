\* Two instruments, two streams of updates, and one duplicate.
CONSTANTS
    NumInstruments = 2
    TableSize = 2
    MaxDatagram = 6
    Streams <- MCStreams
    MaxDuplicates = 1
SPECIFICATION FSpec
INVARIANTS ViewCorrect
PROPERTIES FirstRecoveryEnds
CHECK_DEADLOCK FALSE
