SPECIFICATION SumSpec
CHECK_DEADLOCK FALSE
INVARIANTS
    LastInWins
    RigctlInStep
    
 
