CONSTANTS
    n1 = n1
    n2 = n2
    k1 = k1
    k2 = k2
    Nodes <- MCNodes
    Keys <- MCKeys
    ReportsOf <- MCReportsDisjoint
    Multiplier <- MCMultiplier
    MaxValue = 3
    MaxInt = 7
    MinGap = 1
    Interval = 3
    TTL = 6
    MaxLag = 2
    MaxFailures = 0
SPECIFICATION Spec
INVARIANT RateIsExact
