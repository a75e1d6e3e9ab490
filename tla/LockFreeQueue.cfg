\* The writer stays one element below the capacity: the slot that was released
\* last is not written while the publisher still copies from it.
CONSTANTS
    Capacity = 4
    MaxWrites = 9
    MaxBacklog = 3
    ReadsAfterRelease = TRUE
SPECIFICATION Spec
INVARIANTS TypeOK SizeSound CopiesAgree
PROPERTIES ImplementsFifo
CHECK_DEADLOCK FALSE
