\* Two canary mutations that name one key; every request is served fairly.
CONSTANTS
    a1 = a1  a2 = a2  p1 = p1  r1 = r1
    ka = ka  kp = kp  kr = kr
    d1 = d1  d2 = d2  d3 = d3
    NoWork = NoWork
    Work = {a1, a2}
    Key = {ka}
    KeyOf <- ReusedKey
    ActionOf <- ReusedAction
    Delivery = {d1, d2}
    Grace = 0
    Backoff = 0
    Lifetime = 1
    ProofLife = 3
    TokenLife = 1
    MaxNow = 0
    MaxEpoch = 2
    MaxChanges = 2
    MaxFaults = 1
SPECIFICATION FairSpec
CHECK_DEADLOCK FALSE
INVARIANTS
    KeyNamesOneMutation
PROPERTIES
    RevocationFencesUnread
    EveryDeliveryIsAnswered
