SPECIFICATION Spec
CONSTANTS
    p1 = p1
    p2 = p2
    t1 = t1
    t2 = t2
    Prn <- MCPrn
    DecemberWaste <- MCDecemberWaste
    IssuedYear <- MCIssuedYear
    Contested <- MCPrn
    StartMonths <- MCWinter
    MonthSteps <- MCEitherStep
    MaxTicks = 2
    Tab <- MCOneTab
    QueryYears <- MCBothYears
    AcceptedMaxAge = 1
INVARIANTS
    TypeOK
    ConfirmationTruthful
    SendsWholeReviewedSelection
    AcceptsWhatWasChecked
PROPERTY
    LedgerKept
    OnlyListOrAgeDropsConfirmation
