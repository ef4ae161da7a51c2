\* One request of one session, delivered twice.
CONSTANTS
    Addrs = {a1}
    Sids = {s1}
    NoSid = NoSid
    MaxRequests = 1
    Copies = 2
    Capacity = 2
    ClientCapacity = 1
SPECIFICATION Spec
CHECK_DEADLOCK FALSE
INVARIANT NeverRunTwice
