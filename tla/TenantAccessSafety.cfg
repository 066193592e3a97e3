\* Two calls, one commit, three epochs; keys may be lost, Redis may fail.
SPECIFICATION Spec
CONSTANTS
    Requests = {r1, r2}
    Token = {t1, t2, t3}
    MaxVersion = 1
    None = None
SYMMETRY Symmetry
PROPERTIES ImplementsFreshAnswers
CHECK_DEADLOCK FALSE
