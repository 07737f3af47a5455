SPECIFICATION Spec
CONSTANTS
    Objects = {o1, o2}
    Nil = Nil
    MaxRef = 5
INVARIANTS SlotIntegrity FreeListSound Compact
PROPERTY ImplementsPool
