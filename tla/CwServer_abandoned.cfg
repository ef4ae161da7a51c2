\* One console of a Linux server, which may give up on an arm and go.
CONSTANTS
    Backends = {"linux"}
    Consoles = {c1}
    NoOne = NoOne
    MaxTickets = 2
SPECIFICATION Spec
CHECK_DEADLOCK FALSE
INVARIANT AbandonedArmReleased
