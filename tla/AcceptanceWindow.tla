--------------------------- MODULE AcceptanceWindow ---------------------------
(***************************************************************************)
(* One note watched month by month: what AcceptanceYears offers for it as  *)
(* time passes over the December, January and February boundaries.         *)
(***************************************************************************)
EXTENDS AcceptanceYears

CONSTANTS
    NoteYears,      \* the obligation years a note is issued for
    FirstMonth,     \* the months the calendar runs over
    LastMonth

ASSUME CalendarAssumption ==
    /\ NoteYears \subseteq Nat \ {NoYear}
    /\ FirstMonth \in Nat /\ LastMonth \in Nat /\ FirstMonth >= 12

VARIABLES
    note,   \* the note: its obligation year, whether it is December waste, and the
            \* year its issuer was accredited in, which the API may leave out
    month   \* the current month

vars == <<note, month>>

Init ==
    /\ note \in [year : NoteYears, decemberWaste : BOOLEAN,
                 accreditationYear : NoteYears \cup {NoYear}]
    /\ month = FirstMonth

NextMonth ==
    /\ month < LastMonth
    /\ month' = month + 1
    /\ UNCHANGED note

Next == NextMonth

Spec == Init /\ [][Next]_vars

-------------------------------------------------------------------------------

\* No year that has closed is ever offered, and the next one only in the two
\* months of the choice window: what resolveAvailableAcceptanceYears offers is
\* always the current compliance year, plus the following year in December and January.
OffersOnlyOpenYears ==
    \A y \in AvailableYears(note, month) :
        \/ y = ComplianceYear(month)
        \/ y = ComplianceYear(month) + 1 /\ UkMonth(month) \in {December, January}

\* December waste is acceptable in every month from the February its own
\* compliance year opens to the January its next one closes, whichever of the
\* three rules of resolveDecemberWasteYears applies; a standard note for its own
\* compliance year; and neither in any other month.
AcceptableWithoutAGap ==
    LET closes == note.year + (IF note.decemberWaste THEN 2 ELSE 1)
    IN AvailableYears(note, month) # {} <=>
         /\ month >= MonthIndex(note.year, February)
         /\ month <= MonthIndex(closes, January)

\* Two definitions of the same window, one of the obligation year on UTC instants
\* (the choice of years) and one of the accreditation year on the London calendar
\* (the flash), agree where the two years do: a note accredited in its own year
\* shows its flash in exactly the months it offers a choice.  A note whose
\* accreditation year is missing, or is another year, never shows it, though the
\* choice is open: the two windows of different years have no month in common.
FlashFollowsChoice ==
    ShowsFlash(note, month) <=>
        HasYearChoice(note, month) /\ note.accreditationYear = note.year

\* The year recorded without asking never moves by itself between one month and
\* the next: a page that showed the single year and a submit just after midnight
\* agree.  2025 December waste is the exception the code spells out.
SingleYearNeverMoves ==
    [][(/\ CanMultiSelect(note, month)
        /\ CanMultiSelect(note, month')
        /\ ~(note.decemberWaste /\ note.year = NoChoiceYear))
         => AvailableYears(note, month') = AvailableYears(note, month)]_vars
===============================================================================
