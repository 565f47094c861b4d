\* The capacity divides UsizeRange, as the default capacity 8192 divides 2^32.
CONSTANTS
    Capacity = 4
    SeqRange = 16
    UsizeRange = 8
    MaxCount = 2
    Calls <- MCCalls
    Categories = {"audio"}
    None = None
SPECIFICATION Spec
PROPERTIES ImplementsGroupQueue
CHECK_DEADLOCK FALSE
