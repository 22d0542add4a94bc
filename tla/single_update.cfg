SPECIFICATION Spec
CONSTANTS
    p = p
    t = t
    Prn <- MCPrn
    DecemberWaste <- MCPrn
    IssuedYear <- MC2027
    Contested <- MCPrn
    StartMonths <- MCWinter
    MonthSteps <- MCEitherStep
    MaxTicks = 2
    Tab <- MCTab
    NoteOf <- MCNoteOf
INVARIANTS
    TypeOK
    RecordsTheYearNamed
    YearChosenByUser
    
PROPERTY
    LedgerKept
