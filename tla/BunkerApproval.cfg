SPECIFICATION Spec
CONSTANTS
    Apps = {a1, a2}
    Calls = {c1, c2}
    Operators = {o1}
    Humans = {h1}
    Secrets = {s1, s2}
    MaxAdmin = 1
    None = None
INVARIANTS
    SpecAppliedOnce
    AllowedHasReason
    RecordedBeforeSigned
SYMMETRY Symmetry
CHECK_DEADLOCK FALSE
