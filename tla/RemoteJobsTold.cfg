SPECIFICATION Spec
CONSTANTS
    Jobs = {j1, j2, j3}
    Sessions = {s1, s2}
    Limit = 2
    None = None
SYMMETRY Symmetry
INVARIANT NotTakenIsTrue
