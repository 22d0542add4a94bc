SPECIFICATION Spec
CONSTANTS
    p1 = p1
    p2 = p2
    t1 = t1
    t2 = t2
    Prn <- MCPrn
    DecemberWaste <- MCPrn
    IssuedYear <- MCIssuedYear
    Contested <- MCNone
    StartMonths <- MCNovember
    MonthSteps <- MCOneMonth
    MaxTicks = 1
    Tab <- MCTwoTabs
    QueryYears <- MCQueryYears
    AcceptedMaxAge = 0
SYMMETRY MCSymmetry
INVARIANT
    AcceptsWhatWasChecked
