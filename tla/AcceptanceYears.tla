---------------------------- MODULE AcceptanceYears ----------------------------
(***************************************************************************)
(* The years a recycling note (PRN) may be accepted into, as the frontend  *)
(* works them out: routes/_shared/prns/available-acceptance-years.js and   *)
(* common/helpers/compliance-year.js.                                      *)
(*                                                                         *)
(* A moment is a calendar month of the United Kingdom, numbered from       *)
(* January of year 0.  Every boundary the code compares against (1 January,*)
(* 1 February, 1 December) falls in winter time, when Europe/London and    *)
(* UTC agree, so a month number decides every comparison the code makes.   *)
(* Years are offered as a set: the code's list never repeats a year.       *)
(***************************************************************************)
EXTENDS Integers

January  == 1
February == 2
December == 12

\* "undefined": no integer obligation year, or no year resolves.
NoYear == 0

MonthIndex(year, month) == 12 * year + month - 1
UkYear(m)  == m \div 12
UkMonth(m) == (m % 12) + 1

\* The compliance year runs February to January: January belongs to the year before.
ComplianceYear(m) == IF UkMonth(m) = January THEN UkYear(m) - 1 ELSE UkYear(m)

\* 2025 December waste is a one-off that never offers a choice.
NoChoiceYear      == 2025
NoChoiceUntilYear == 2026

\* Slip: the rule is applied to every December waste note until it lapses.
BugNoChoiceForAll(year, m) == ComplianceYear(m) <= NoChoiceUntilYear

IsNoChoice(year, m) == year = NoChoiceYear /\ ComplianceYear(m) <= NoChoiceUntilYear

\* Slip: the end of the window is compared with <=.
BugWindowClosesLate(year, m) ==
    /\ m >= MonthIndex(year, December)
    /\ m <= MonthIndex(year + 1, February)

\* From 1 December of the note's year until 1 February two months later.
InChoiceWindow(year, m) ==
    /\ m >= MonthIndex(year, December)
    /\ m < MonthIndex(year + 1, February)

\* Slip: the year after the note's own is forgotten once the window has closed.
BugNoFollowingYear(year, m) ==
    IF IsNoChoice(year, m)
    THEN {ComplianceYear(m)}
    ELSE IF InChoiceWindow(year, m)
         THEN {year, year + 1}
         ELSE {year} \cap {ComplianceYear(m)}

DecemberWasteYears(year, m) ==
    IF IsNoChoice(year, m)
    THEN {ComplianceYear(m)}
    ELSE IF InChoiceWindow(year, m)
         THEN {year, year + 1}
         ELSE {year, year + 1} \cap {ComplianceYear(m)}

\* n is a note: a record with fields `year` and `decemberWaste`.
AvailableYears(n, m) ==
    IF n.year = NoYear \/ n.year > ComplianceYear(m)
    THEN {}
    ELSE IF n.decemberWaste
         THEN DecemberWasteYears(n.year, m)
         ELSE {n.year} \cap {ComplianceYear(m)}

CanMultiSelect(n, m) == \E y \in AvailableYears(n, m) : AvailableYears(n, m) = {y}

HasYearChoice(n, m) == AvailableYears(n, m) # {} /\ ~CanMultiSelect(n, m)

\* The one year a whole selection is accepted into: the single year its notes share.
SelectionYears(notes, m) == UNION {AvailableYears(n, m) : n \in notes}

\* Slip: the notes' own year is sent, not the year they are offered for.
BugOwnYear(notes, m) ==
    IF /\ \A n \in notes : CanMultiSelect(n, m)
       /\ \E y \in {n.year : n \in notes} : {n.year : n \in notes} = {y}
    THEN CHOOSE y \in {n.year : n \in notes} : TRUE
    ELSE NoYear

SelectionYear(notes, m) ==
    IF /\ \A n \in notes : CanMultiSelect(n, m)
       /\ \E y \in SelectionYears(notes, m) : SelectionYears(notes, m) = {y}
    THEN CHOOSE y \in SelectionYears(notes, m) : TRUE
    ELSE NoYear

\* Slip: January is looked up in its own calendar year.
BugFlashSameYear(accreditationYear, m) ==
    /\ accreditationYear # NoYear
    /\ accreditationYear = UkYear(m) /\ UkMonth(m) \in {December, January}

\* The immediate December/January window of an accreditation year, in which the
\* "can be accepted towards two years" flash is shown; a missing or unusable
\* accreditation year (NoYear) has none.
IsDecemberWasteWindow(accreditationYear, m) ==
    /\ accreditationYear # NoYear
    /\ \/ accreditationYear = UkYear(m) /\ UkMonth(m) = December
       \/ accreditationYear = UkYear(m) - 1 /\ UkMonth(m) = January

\* For a note still awaiting acceptance, whose `accreditationYear` is a field of
\* its own and not the obligation year.
ShowsFlash(n, m) ==
    /\ n.decemberWaste
    /\ IsDecemberWasteWindow(n.accreditationYear, m)
    /\ HasYearChoice(n, m)
===============================================================================
