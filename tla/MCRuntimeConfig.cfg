SPECIFICATION Spec
CONSTANTS
    a = a
    b = b
    e1 = e1
    e2 = e2
    e3 = e3
    MaxVersion = 2
    Contents = {a, b}
    NoRevision = NoRevision
    Engines = {e1, e2, e3}
    NoEngine = NoEngine
    MaxIdlers = 2
INVARIANTS
    RuntimeInvariant
    RuntimeIsCoherent
PROPERTIES
    HeldRevisionOnlyAdvances
    HeldRevisionResolves
