SPECIFICATION MCSpec
CONSTANTS
    N = 5
    Q = 2
    Pow2 <- MCPow2
INVARIANTS
    QuotientWithinTwo
    PartialProduct
    EvenProductExact
PROPERTIES
    DivisionEnds
    MultiplicationEnds
