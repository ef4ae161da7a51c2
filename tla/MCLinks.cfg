\* Completion: two requests with a deadline each.
CONSTANTS
    Requests = 2
    WithTimeout = TRUE
SPECIFICATION SumSpec
CHECK_DEADLOCK FALSE
INVARIANTS
    ResultIsTheSenders
    WokenByItsOwn
    FarEndHears
    PortsAreAsConfigured
    
 
