\* Selecting, jumping, paging and a forced refetch while one session grows.
SPECIFICATION Spec
CONSTANTS
    Sessions = {s1, s2}
    None = None
    Growing = {s1}
    Limit = 2
    StartLen = 3
    MaxLen = 4
    Refreshes = {r1}
    Selects = 1
    Toggles = 0
    Jumps = 1
    Forces = 1
    Failures = 0
    s1 = s1
    s2 = s2
    r1 = r1
INVARIANTS
    WindowAsAsked
    Contiguous
