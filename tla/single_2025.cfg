SPECIFICATION Spec
CONSTANTS
    p = p
    t = t
    Prn <- MCPrn
    DecemberWaste <- MCPrn
    IssuedYear <- MC2025
    Contested <- MCPrn
    StartMonths <- MCJanuary2026
    MonthSteps <- MCEitherStep
    MaxTicks = 1
    Tab <- MCTab
    NoteOf <- MCNoteOf
INVARIANT
    RecordsTheYearNamed
