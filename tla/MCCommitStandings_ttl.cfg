SPECIFICATION Spec
CONSTANTS
    head = head
    old = old
    dirty = dirty
    Requests = {r1, r2}
    Commits = {head, old, dirty}
    Dirty = {dirty}
    NoCommit = NoCommit
    Ttl = 3
    MaxCall = 1
    MaxTime = 6
SYMMETRY RequestSymmetry
INVARIANTS Complete AnswersFresh
PROPERTY AnswerAge
