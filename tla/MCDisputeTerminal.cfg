SPECIFICATION Spec
CONSTANTS
    d1 = d1  d2 = d2  u1 = u1  u2 = u2  r1 = r1  r2 = r2  text = text
    None = None
    Disputes = {d1}
    Users = {u1}
    Requests = {r1, r2}
    Resolutions = {text}
    StandardDays = 1
    TheftDays = 2
    DeadlineLimit = 1
    MaxClock = 1
    MaxRound = 2
PROPERTY ResolvedIsTerminal
