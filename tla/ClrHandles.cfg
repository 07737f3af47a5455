SPECIFICATION FairSpec
CONSTANTS
    Userdata = {m, u1, u2}
    Marker = m
    Things = {lua, a}
    Self = lua
    MaxHandle = 3
INVARIANTS HandlesMatch ReachableIsUsable NoHandleLeak
PROPERTIES UnlinkedIsFreed
\* The program may end with the Lua closed and nothing left to forget.
CHECK_DEADLOCK FALSE
