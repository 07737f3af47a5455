\* A weak table, a userdata, a string, a coroutine, a closure and an upvalue,
\* two or three of them at a time.
SPECIFICATION FairSpec
CONSTANTS
    Threads = {main, c}
    Tables = {reg, w}
    Closures = {f}
    Upvals = {v}
    Userdata = {u}
    Strings = {s}
    MainThread = main
    Registry = reg
    WeakTables = {w}
    Heaps = {{w, u}, {w, s}, {u, s}, {c, u}, {c, f, v}}
    MaxStack = 2
    MaxFields = 1
INVARIANTS NoDangling TriColour OnlyGarbageIsDead
PROPERTIES FinalizedBeforeFreed GarbageIsFreed
