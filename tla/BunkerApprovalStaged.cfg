SPECIFICATION Spec
CONSTANTS
    Apps = {a1, a2}
    Calls = {c1, c2}
    Operators = {o1}
    Humans = {h1}
    Secrets = {s1, s2}
    MaxAdmin = 0
    None = None
INVARIANT StagedForPresenter
CHECK_DEADLOCK FALSE
