SPECIFICATION Spec
CONSTANTS
    LUA_MAXCAPTURES = 3
    Matcher <- MCMatcher
    Calls <- MCCalls
    Returned <- MCReturned
    Replacement <- MCReplacement
    LUAL_BUFFERSIZE = 3
    LUA_MINSTACK = 6
    Characters = {"a", "b"}
    Additions <- MCAdditions
    MaxAdded = 9
    Places = 7
    Arrays <- MCArrays
    Inserted = {2, 4}
INVARIANTS MatchesReference BufferSound TableSound

