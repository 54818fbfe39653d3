\* A session of commands, a session of edits, a run that starts and ends at any time.
CONSTANTS
    bash = bash
    edit = edit
    s1 = s1
    s2 = s2
    p1 = p1
    Calls = {bash, edit}
    Sessions = {s1, s2}
    SessionOf <- MCSessionOf
    DirectOf <- MCDirectOf
    Paths = {p1}
    Contents = {0, 1, 2}
    Initial = 0
    Runs = {r1}
    MaxChanges = 2
    None = None
    Torn = Torn
    Legacy = Legacy
SPECIFICATION Spec
INVARIANTS
    TypeOK
PROPERTIES
    ChangesRecorded
    NothingInvented
CHECK_DEADLOCK FALSE
