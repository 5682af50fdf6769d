SPECIFICATION Spec
CONSTANTS
    i1 = i1
    i2 = i2
    f1 = f1
    e1 = e1
    Procs = {i1, i2, f1}
    Intents = {i1, i2}
    Edits = {e1}
    NoFile = NoFile
    Broken = Broken
    NoHash = NoHash
    None = None
SYMMETRY Symmetry
 
INVARIANT NoFalseAlarm
 
CHECK_DEADLOCK FALSE
