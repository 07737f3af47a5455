SPECIFICATION Spec
CONSTANTS
    Wrappers = {w1, w2}
    Objects = {o1, o2}
    Nil = Nil
    MaxRef = 2
    MaxErrors = 1
    Builds = {TRUE, FALSE}
INVARIANTS WrappersResolve ReleasedOnce QueueLosesNothing FlagCovers
PROPERTIES NoThreadWaits ForgottenIsReleased
\* The program may end: nothing is left to do once the Lua is closed.
CHECK_DEADLOCK FALSE
