\* A client that recovers once and then loses another datagram.
CONSTANTS
    NumInstruments = 2
    TableSize = 2
    MaxDatagram = 6
    Streams <- MCStreams
    MaxDuplicates = 0
SPECIFICATION FSpec
PROPERTIES RecoveryEnds
CHECK_DEADLOCK FALSE
