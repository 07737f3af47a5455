SPECIFICATION Spec
CONSTANTS
 MaxIndexRK = 2
 FieldsPerFlush = 2
 MaxArgC = 2
 StackSize = 30
 Programs <- MCPrograms
 Compiler <- MCCompiler
 Reloader <- MCReloader
 GlobalVars <- MCGlobalVars
INVARIANTS RunsAsWritten CodeIsSound StackSound OpenUpvaluesInScope
