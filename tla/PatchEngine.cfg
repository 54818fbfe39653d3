\* Two callers, edits at any moment, every call may stop anywhere.
CONSTANTS
    defLine = defLine
    bodyLine = bodyLine
    oldLine = oldLine
    newLine = newLine
    inside = inside
    outside = outside
    Files = {inside, outside}
    Lines = {defLine, bodyLine, oldLine, newLine}
    Edits <- MCEdits
    InitialTree <- MCInitialTree
    Definitions = {defLine, bodyLine}
    Requests <- MCRequests
    Scope = {inside}
    Callers = {c1, c2}
    NearLines = 0
    MaxChanges = 2
    MaxPatches = 2
    None = None
SPECIFICATION Spec
SYMMETRY Symmetry
INVARIANTS
    TypeOK
PROPERTIES
    ExactUnlessMoved
    ScopeUnlessMoved
    RecordedUnlessMoved
    HashGuards
