\* a page left open on a growing session follows it to its end
SPECIFICATION FairSpec
CONSTANTS
    Sessions = {s1, s2}
    None = None
    Growing = {s1}
    Limit = 2
    StartLen = 3
    MaxLen = 4
    Refreshes = {r1}
    Selects = 1
    Toggles = 1
    Jumps = 0
    Forces = 0
    Failures = 1
    s1 = s1
    s2 = s2
    r1 = r1
PROPERTIES
    FollowsSession
