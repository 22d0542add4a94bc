SPECIFICATION Spec
CONSTANTS
    p = p
    t = t
    Prn <- MCPrn
    DecemberWaste <- MCNone
    IssuedYear <- MC2027
    Contested <- MCPrn
    StartMonths <- MCFebruary
    MonthSteps <- MCEitherStep
    MaxTicks = 1
    Tab <- MCTab
    NoteOf <- MCNoteOf
INVARIANT
    NeverSendsUnacceptable
