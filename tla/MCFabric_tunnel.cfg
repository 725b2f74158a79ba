SPECIFICATION Spec
CONSTANTS
    None = None
    one = one
    two = two
    Subjects = {"egress"}
    HasReplayStore = TRUE
SYMMETRY Interchangeable
CHECK_DEADLOCK FALSE
INVARIANTS
    TunnelsCarry
