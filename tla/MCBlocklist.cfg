\* Rules above and below each other, several types on one level.
CONSTANTS
    Labels = {"com", "x"}
    Domains <- Chain
    Names <- BelowRoot
    QTypes = {"A", "AAAA"}
SPECIFICATION Spec
INVARIANTS
    TypeOK
    CountsRules
PROPERTY ImplementsSet
