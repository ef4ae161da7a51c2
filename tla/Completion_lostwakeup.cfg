\* One request without a deadline.
CONSTANTS
    Requests = 1
    WithTimeout = FALSE
SPECIFICATION FairSpec
CHECK_DEADLOCK FALSE
PROPERTY AnsweredResolves
