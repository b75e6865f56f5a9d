SPECIFICATION Spec
CONSTANTS
    MaxAttempts = 6
    MaxLinkers = 5
INVARIANTS TypeOK AllOrNothing CodeStaysMapped
CHECK_DEADLOCK FALSE
