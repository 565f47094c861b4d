\* Two threads in a selected and a filtered span, each of them re-entered or
\* shared at will, and with guards on a track of their own, over two captures.
SPECIFICATION Spec
CONSTANTS
    Threads = {t1, t2}
    Tracks = {k}
    CURRENT = CURRENT
    Configured = {}
    Unbegun = Unbegun
    Spans = {a, f}
    Filtered = {f}
    MaxDepth = 2
    MaxEntries = 3
    MaxSessions = 2
INVARIANTS
    NoStaleEntry EndsOwnSlice OpenSlicesMatch
CHECK_DEADLOCK FALSE
