SPECIFICATION Spec
CONSTANTS
    d1 = d1  d2 = d2  u1 = u1  u2 = u2  r1 = r1  r2 = r2  text = text
    None = None
    Disputes = {d1}
    Users = {u1, u2}
    Requests = {r1, r2}
    Resolutions = {}
    StandardDays = 1
    TheftDays = 2
    DeadlineLimit = 1
    MaxClock = 2
    MaxRound = 2
SYMMETRY RequestSymmetry
INVARIANT DeadlineMatchesDispatch
INVARIANT AnswerOnRecord
PROPERTY NeverUnsent
