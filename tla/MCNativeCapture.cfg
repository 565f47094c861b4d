\* Two threads run sessions and a third emits in one of two categories.
CONSTANTS
    Owners = {o1, o2}
    Emitters = {e1}
    Categories = {audio, render}
    AllowLists <- MCAllowLists
    MaxSessions = 2
    None = None
SPECIFICATION FairSpec
INVARIANTS OneHolder SdkFollowsOwner HonouredUnlessCrossed
PROPERTIES ClaimReturned
\* The bound on sessions stops the model.
CHECK_DEADLOCK FALSE
