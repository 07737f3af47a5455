\* A memory error of lua_checkstack on a coroutine that waits for another one.
SPECIFICATION Spec
CONSTANTS
    Main = main
    Coroutines = {c1, c2}
    None = None
    Kinds = {"lua", "managed"}
    MaxCCalls = 3
    ExtraCCalls = 2
    MaxFrames = 7
    MaxCalls = 2
SYMMETRY CoroutineSymmetry
INVARIANT NeverExits
\* The process may end.
CHECK_DEADLOCK FALSE
