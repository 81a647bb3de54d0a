\* Every history of events and facts.
CONSTANT
    Supplied <- SuppliedReasons
SPECIFICATION Spec
INVARIANTS
    EachMutationCommandedOnce
PROPERTIES
    AmbiguityResolvesItsOrigin
