\* Two threads in the same span when a capture starts.
SPECIFICATION Spec
CONSTANTS
    Threads = {t1, t2}
    Tracks = {k}
    CURRENT = CURRENT
    Configured = {k}
    Unbegun = Unbegun
    Spans = {a, b}
    Filtered = {b}
    MaxDepth = 2
    MaxEntries = 5
    MaxSessions = 1
INVARIANTS
    NoUnmatchedEnd
CHECK_DEADLOCK FALSE
