\* The program forgets the Lua object without Dispose.
SPECIFICATION FairSpec
CONSTANTS
    Userdata = {m, u1}
    Marker = m
    Things = {lua, a}
    Self = lua
    MaxHandle = 2
PROPERTIES ForgottenLuaCloses
\* The program may end with the Lua closed and nothing left to forget.
CHECK_DEADLOCK FALSE
