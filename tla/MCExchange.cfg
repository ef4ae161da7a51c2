\* UDP: two addresses, each with one session after the other; restarts reuse the request id.
CONSTANTS
    Addrs = {a1, a2}
    Sids = {s1, s2}
    NoSid = NoSid
    MaxRequests = 1
    Copies = 2
    Capacity = 2
    ClientCapacity = 1
SPECIFICATION SumSpec
SYMMETRY UdpSymmetry
CHECK_DEADLOCK FALSE
INVARIANTS
    
    CatMeansTheSame
PROPERTIES
    CompletedAtMostOnce
    
    
    AnswersItsOwn
