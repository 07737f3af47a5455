SPECIFICATION Spec
CONSTANTS
    o = o
    newindex = newindex
    Nil = Nil
    Strings = {newindex}
    Objects = {o}
    TagMethod = newindex
    MaxInt = 3
    MaxNodes = 4
    Watched <- MCWatched
    Hashes <- MCHashes
VIEW View
INVARIANTS NodesSound LengthIsBorder CachedAbsence
PROPERTIES TraversalVisits ImplementsMap
