\* Two coroutines and limits that nested calls reach.
SPECIFICATION Spec
CONSTANTS
    Main = main
    Coroutines = {c1, c2}
    None = None
    Kinds = {"lua", "managed"}
    MaxCCalls = 3
    ExtraCCalls = 2
    MaxFrames = 7
    MaxCalls = 2
SYMMETRY CoroutineSymmetry
INVARIANTS HandlersMatch LevelsCounted FramesMatch YieldsDirectly CurrentThread HooksAndHandlers
\* The process may end.
CHECK_DEADLOCK FALSE
