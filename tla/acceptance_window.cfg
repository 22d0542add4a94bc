SPECIFICATION Spec
CONSTANTS
    NoteYears <- MCNoteYears
    FirstMonth <- MCFirstMonth
    LastMonth <- MCLastMonth
INVARIANTS
    OffersOnlyOpenYears
    AcceptableWithoutAGap
    FlashFollowsChoice
PROPERTY
    SingleYearNeverMoves
CHECK_DEADLOCK FALSE
