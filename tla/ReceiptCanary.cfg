\* One canary mutation, delivered twice; the clock crosses every deadline.
CONSTANTS
    a1 = a1  a2 = a2  p1 = p1  r1 = r1
    ka = ka  kp = kp  kr = kr
    d1 = d1  d2 = d2  d3 = d3
    NoWork = NoWork
    Work = {a1}
    Key = {ka}
    KeyOf <- OneKey
    ActionOf <- OneAction
    Delivery = {d1, d2}
    Grace = 1
    Backoff = 1
    Lifetime = 4
    ProofLife = 3
    TokenLife = 4
    MaxNow = 4
    MaxEpoch = 2
    MaxChanges = 2
    MaxFaults = 3
SPECIFICATION Spec
SYMMETRY DeliverySymmetry
CHECK_DEADLOCK FALSE
INVARIANTS
    AtMostOneDispatch
    SafeOutcomesAreEffectFree
    VerifiedWasObserved
PROPERTIES
    ImplementsLedger
