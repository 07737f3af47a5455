\* The build without NET_4: a finalizer that finds the lock taken.
SPECIFICATION Spec
CONSTANTS
    Wrappers = {w1, w2}
    Objects = {o1, o2}
    Nil = Nil
    MaxRef = 2
    MaxErrors = 0
    Builds = {FALSE}
INVARIANT NoLostReference
\* The program may end: nothing is left to do once the Lua is closed.
CHECK_DEADLOCK FALSE
