SPECIFICATION Spec
CONSTANTS
    None = None
    one = one
    two = two
    Subjects = {"socket"}
    HasReplayStore = TRUE
SYMMETRY Interchangeable
CHECK_DEADLOCK FALSE
INVARIANTS
    OnlyAllowedProceed
