CONSTANTS
    n1 = n1
    n2 = n2
    k1 = k1
    k2 = k2
    Nodes <- MCNodes
    Keys <- MCKeys
    ReportsOf <- MCReportsDisjoint
    Multiplier <- MCMultiplier
    MaxValue = 2
    MaxInt = 1000
    MinGap = 1
    Interval = 3
    TTL = 6
    MaxLag = 2
    MaxFailures = 2
SPECIFICATION Spec
INVARIANT TypeOK
INVARIANT RateWindowBounded
PROPERTY RatesKeepFlowing
