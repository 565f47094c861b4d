\* A session starts while the previous one, of another thread, is ending.
CONSTANTS
    Owners = {o1, o2}
    Emitters = {e1}
    Categories = {audio, render}
    AllowLists <- MCAllowLists
    MaxSessions = 2
    None = None
SPECIFICATION Spec
INVARIANTS AllowListHonoured
\* The bound on sessions stops the model.
CHECK_DEADLOCK FALSE
