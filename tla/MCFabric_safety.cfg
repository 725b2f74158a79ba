SPECIFICATION Spec
CONSTANTS
    None = None
    one = one
    two = two
    Subjects = {"delegation", "sidecar", "socket", "evidence", "capability", "egress", "identity", "mcp", "client", "policy"}
    HasReplayStore = TRUE
SYMMETRY Interchangeable
CHECK_DEADLOCK FALSE
INVARIANTS
    TypeOK WithinRoot AllowsAreCurrent FailsAsContracted AnswersStayOnTheirConnection EvidenceHolds
    LeasesReleased TicketsOpenOnce HeldIsHonoured DriftWaits GatewayAnswers ToldAsRecorded PoliciesHold
PROPERTIES
    ContextsNarrow OnlyDocumentsWiden
