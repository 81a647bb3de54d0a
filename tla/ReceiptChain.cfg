\* A canary, its promotion and its recovery compete for one service; time
\* stands still and every claim is at once old enough to be read back.
CONSTANTS
    a1 = a1  a2 = a2  p1 = p1  r1 = r1
    ka = ka  kp = kp  kr = kr
    d1 = d1  d2 = d2  d3 = d3
    NoWork = NoWork
    Work = {a1, p1, r1}
    Key = {ka, kp, kr}
    KeyOf <- ChainKey
    ActionOf <- ChainAction
    Delivery = {d1, d2, d3}
    Grace = 0
    Backoff = 0
    Lifetime = 1
    ProofLife = 1
    TokenLife = 1
    MaxNow = 0
    MaxEpoch = 3
    MaxChanges = 3
    MaxFaults = 0
SPECIFICATION Spec
SYMMETRY DeliverySymmetry
CHECK_DEADLOCK FALSE
INVARIANTS
    TerminalEffectsExclusive
PROPERTIES
    LandsOnPreTraffic
    NothingLandsAfterRelease
