SPECIFICATION Spec
CONSTANTS
    Families <- MCFamilies
    Made <- MCMade
    LuaValues = {"digits", "list"}
    MaxArgs = 2
    MaxDepth = 2
    Filters = {{}, {1}}
VIEW View
PROPERTIES ArgumentsOfTheCall ResultsOfTheCall RunsAllowed
