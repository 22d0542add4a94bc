------------------------ MODULE AcceptanceWindow_proofs ------------------------
(***************************************************************************)
(* What the window of acceptance years guarantees for every note and every *)
(* month, not only those of the checked calendar.                          *)
(***************************************************************************)
EXTENDS AcceptanceWindow, TLAPS

TypeOK ==
    /\ note \in [year : Nat \ {NoYear}, decemberWaste : BOOLEAN, accreditationYear : Nat]
    /\ month \in Nat /\ month >= 12

\* The note and the calendar keep their types.
THEOREM Typing == Spec => []TypeOK
<1>1. Init => TypeOK
  <2>1. NoteYears \subseteq Nat \ {NoYear} /\ FirstMonth \in Nat /\ FirstMonth >= 12
    BY CalendarAssumption
  <2>2. NoteYears \cup {NoYear} \subseteq Nat
    BY <2>1 DEF NoYear
  <2>. QED  BY <2>1, <2>2 DEF Init, TypeOK
<1>2. TypeOK /\ [Next]_vars => TypeOK'
  BY DEF TypeOK, Next, NextMonth, vars
<1>. QED  BY <1>1, <1>2, PTL DEF Spec

\* A month number is its year and its month of the year.
LEMMA MonthNumber ==
  ASSUME NEW m \in Nat
  PROVE  /\ UkYear(m) \in Nat /\ UkMonth(m) \in 1 .. 12
         /\ m = 12 * UkYear(m) + UkMonth(m) - 1
  BY SMT DEF UkYear, UkMonth

\* The choice window of a year is its December and the January after it, which
\* still belongs to its compliance year.
LEMMA ChoiceWindow ==
  ASSUME NEW m \in Nat, NEW y \in Nat, InChoiceWindow(y, m)
  PROVE  ComplianceYear(m) = y /\ UkMonth(m) \in {December, January}
<1>1. m = 12 * y + 11 \/ m = 12 * y + 12
  BY SMT DEF InChoiceWindow, MonthIndex, December, February
<1>2. /\ UkYear(m) \in Nat /\ UkMonth(m) \in 1 .. 12
      /\ m = 12 * UkYear(m) + UkMonth(m) - 1
  BY MonthNumber
<1>3. CASE m = 12 * y + 11
  <2>1. UkMonth(m) = 12 /\ UkYear(m) = y
    BY <1>2, <1>3
  <2>. QED  BY <2>1 DEF ComplianceYear, December, January
<1>4. CASE m = 12 * y + 12
  <2>1. UkMonth(m) = 1 /\ UkYear(m) = y + 1
    BY <1>2, <1>4
  <2>. QED  BY <2>1 DEF ComplianceYear, December, January
<1>. QED  BY <1>1, <1>3, <1>4

LEMMA OfferedYears ==
  ASSUME NEW m \in Nat, NEW n, n.year \in Nat \ {NoYear}, NEW y \in AvailableYears(n, m)
  PROVE  \/ y = ComplianceYear(m)
         \/ y = ComplianceYear(m) + 1 /\ InChoiceWindow(n.year, m)
<1>1. CASE ~n.decemberWaste
  BY <1>1 DEF AvailableYears
<1>2. CASE n.decemberWaste /\ IsNoChoice(n.year, m)
  BY <1>2 DEF AvailableYears, DecemberWasteYears
<1>3. CASE n.decemberWaste /\ ~IsNoChoice(n.year, m) /\ InChoiceWindow(n.year, m)
  <2>1. y \in {n.year, n.year + 1}
    BY <1>3 DEF AvailableYears, DecemberWasteYears
  <2>. QED  BY <1>3, <2>1, ChoiceWindow
<1>4. CASE n.decemberWaste /\ ~IsNoChoice(n.year, m) /\ ~InChoiceWindow(n.year, m)
  BY <1>4 DEF AvailableYears, DecemberWasteYears
<1>. QED  BY <1>1, <1>2, <1>3, <1>4

\* For every note and month: no closed year is on offer, and the next one only in
\* December and January.
THEOREM OpenYears == Spec => []OffersOnlyOpenYears
<1>1. TypeOK => OffersOnlyOpenYears
  <2> SUFFICES ASSUME TypeOK, NEW y \in AvailableYears(note, month)
               PROVE  \/ y = ComplianceYear(month)
                      \/ y = ComplianceYear(month) + 1 /\ UkMonth(month) \in {December, January}
    BY DEF OffersOnlyOpenYears
  <2>1. note.year \in Nat \ {NoYear} /\ month \in Nat
    BY DEF TypeOK
  <2>. QED  BY <2>1, OfferedYears, ChoiceWindow
<1>. QED  BY <1>1, Typing, PTL

\* In terms of compliance years: a standard note is acceptable in its own, December
\* waste in its own and the next.
LEMMA Acceptable ==
  ASSUME NEW m \in Nat, NEW n, n.year \in Nat \ {NoYear}, n.decemberWaste \in BOOLEAN
  PROVE  AvailableYears(n, m) # {} <=>
            \/ ComplianceYear(m) = n.year
            \/ n.decemberWaste /\ ComplianceYear(m) = n.year + 1
<1>0. ComplianceYear(m) \in Int
  <2>1. UkYear(m) \in Nat
    BY MonthNumber
  <2>. QED  BY <2>1 DEF ComplianceYear
<1>1. CASE ~n.decemberWaste
  <2>1. CASE n.year > ComplianceYear(m)
    BY <1>0, <1>1, <2>1 DEF AvailableYears
  <2>2. CASE ~(n.year > ComplianceYear(m))
    <3>1. AvailableYears(n, m) = {n.year} \cap {ComplianceYear(m)}
      BY <1>1, <2>2 DEF AvailableYears, NoYear
    <3>. QED  BY <1>1, <3>1
  <2>. QED  BY <2>1, <2>2
<1>2. CASE n.decemberWaste
  <2>1. CASE n.year > ComplianceYear(m)
    BY <1>0, <1>2, <2>1 DEF AvailableYears
  <2>2. CASE ~(n.year > ComplianceYear(m)) /\ IsNoChoice(n.year, m)
    <3>1. AvailableYears(n, m) = {ComplianceYear(m)}
      BY <1>2, <2>2 DEF AvailableYears, DecemberWasteYears
    <3>2. n.year = 2025 /\ ComplianceYear(m) <= 2026 /\ ComplianceYear(m) >= 2025
      BY <1>0, <2>2 DEF IsNoChoice, NoChoiceYear, NoChoiceUntilYear
    <3>3. ComplianceYear(m) = n.year \/ ComplianceYear(m) = n.year + 1
      BY <1>0, <3>2
    <3>. QED  BY <1>2, <3>1, <3>3
  <2>3. CASE /\ ~(n.year > ComplianceYear(m)) /\ ~IsNoChoice(n.year, m)
             /\ InChoiceWindow(n.year, m)
    <3>1. AvailableYears(n, m) = {n.year, n.year + 1}
      BY <1>2, <2>3 DEF AvailableYears, DecemberWasteYears
    <3>. QED  BY <3>1, <2>3, ChoiceWindow
  <2>4. CASE /\ ~(n.year > ComplianceYear(m)) /\ ~IsNoChoice(n.year, m)
             /\ ~InChoiceWindow(n.year, m)
    <3>1. AvailableYears(n, m) = {n.year, n.year + 1} \cap {ComplianceYear(m)}
      BY <1>2, <2>4 DEF AvailableYears, DecemberWasteYears
    <3>. QED  BY <1>2, <3>1
  <2>. QED  BY <2>1, <2>2, <2>3, <2>4
<1>. QED  BY <1>1, <1>2

\* For every note and month: no month between the first and the last that a note
\* is acceptable in is left out, whichever rule applies to it.
THEOREM NoGap == Spec => []AcceptableWithoutAGap
<1>1. TypeOK => AcceptableWithoutAGap
  <2> SUFFICES ASSUME TypeOK PROVE AcceptableWithoutAGap
    OBVIOUS
  <2>1. /\ note.year \in Nat \ {NoYear} /\ note.decemberWaste \in BOOLEAN
        /\ month \in Nat
    BY DEF TypeOK
  <2>2. AvailableYears(note, month) # {} <=>
           \/ ComplianceYear(month) = note.year
           \/ note.decemberWaste /\ ComplianceYear(month) = note.year + 1
    BY <2>1, Acceptable
  <2>3. \A y \in Nat : ComplianceYear(month) = y <=>
           month >= MonthIndex(y, February) /\ month <= MonthIndex(y + 1, January)
    <3>1. /\ UkYear(month) \in Nat /\ UkMonth(month) \in 1 .. 12
          /\ month = 12 * UkYear(month) + UkMonth(month) - 1
      BY <2>1, MonthNumber
    <3>. QED  BY <3>1 DEF ComplianceYear, MonthIndex, January, February
  <2>4. CASE ~note.decemberWaste
    BY <2>1, <2>2, <2>3, <2>4 DEF AcceptableWithoutAGap
  <2>5. CASE note.decemberWaste
    <3>1. ComplianceYear(month) = note.year + 1 <=>
             month >= MonthIndex(note.year + 1, February)
               /\ month <= MonthIndex(note.year + 2, January)
      BY <2>1, <2>3
    <3>2. ComplianceYear(month) = note.year <=>
             month >= MonthIndex(note.year, February)
               /\ month <= MonthIndex(note.year + 1, January)
      BY <2>1, <2>3
    <3>3. MonthIndex(note.year + 1, January) + 1 = MonthIndex(note.year + 1, February)
      BY <2>1 DEF MonthIndex, January, February
    <3>4. /\ MonthIndex(note.year, February) \in Int
          /\ MonthIndex(note.year + 1, February) \in Int
          /\ MonthIndex(note.year + 1, January) \in Int
          /\ MonthIndex(note.year + 2, January) \in Int
          /\ MonthIndex(note.year, February) <= MonthIndex(note.year + 1, January)
          /\ MonthIndex(note.year + 1, February) <= MonthIndex(note.year + 2, January)
      BY <2>1 DEF MonthIndex, January, February
    <3>. QED  BY <2>1, <2>2, <2>5, <3>1, <3>2, <3>3, <3>4 DEF AcceptableWithoutAGap
  <2>. QED  BY <2>1, <2>4, <2>5
<1>. QED  BY <1>1, Typing, PTL

\* Only December waste in its window is offered a choice.
LEMMA ChoiceIsInWindow ==
  ASSUME NEW m \in Nat, NEW n, n.year \in Nat \ {NoYear}, HasYearChoice(n, m)
  PROVE  n.decemberWaste /\ InChoiceWindow(n.year, m)
<1>1. /\ AvailableYears(n, m) # {}
      /\ \A y \in AvailableYears(n, m) : AvailableYears(n, m) # {y}
  BY DEF HasYearChoice, CanMultiSelect
<1>2. ASSUME ~InChoiceWindow(n.year, m) PROVE FALSE
  <2>1. \A y \in AvailableYears(n, m) : y = ComplianceYear(m)
    BY <1>2, OfferedYears
  <2>. QED  BY <1>1, <2>1
<1>3. ASSUME ~n.decemberWaste PROVE FALSE
  <2>1. \A y \in AvailableYears(n, m) : y = n.year
    BY <1>3 DEF AvailableYears
  <2>. QED  BY <1>1, <2>1
<1>. QED  BY <1>2, <1>3

\* For every note and month: the flash is shown exactly when a note accredited in
\* its own year has a choice, and never for another accreditation year or none.
THEOREM FlashAgrees == Spec => []FlashFollowsChoice
<1>1. TypeOK => FlashFollowsChoice
  <2> SUFFICES ASSUME TypeOK, HasYearChoice(note, month)
               PROVE  /\ note.decemberWaste
                      /\ IsDecemberWasteWindow(note.accreditationYear, month)
                           <=> note.accreditationYear = note.year
    BY DEF FlashFollowsChoice, ShowsFlash
  <2>1. /\ note.year \in Nat /\ note.year # NoYear /\ note.accreditationYear \in Nat
        /\ month \in Nat
    BY DEF TypeOK
  <2>2. note.decemberWaste /\ InChoiceWindow(note.year, month)
    BY <2>1, ChoiceIsInWindow
  <2>3. /\ ComplianceYear(month) = note.year
        /\ UkMonth(month) = December \/ UkMonth(month) = January
    BY <2>1, <2>2, ChoiceWindow
  <2>4. UkYear(month) \in Nat
    BY <2>1, MonthNumber
  <2>5. CASE UkMonth(month) = December
    <3>1. UkYear(month) = note.year
      BY <2>3, <2>5 DEF ComplianceYear, December, January
    <3>. QED  BY <2>1, <2>2, <2>4, <2>5, <3>1 DEF IsDecemberWasteWindow, December, January
  <2>6. CASE UkMonth(month) = January
    <3>1. UkYear(month) - 1 = note.year
      BY <2>3, <2>6 DEF ComplianceYear
    <3>. QED  BY <2>1, <2>2, <2>4, <2>6, <3>1 DEF IsDecemberWasteWindow, December, January
  <2>. QED  BY <2>3, <2>5, <2>6
<1>. QED  BY <1>1, Typing, PTL

\* The compliance year moves on by one when January ends, and not otherwise.
LEMMA ComplianceYearMoves ==
  ASSUME NEW m \in Nat
  PROVE  /\ ComplianceYear(m) \in Int
         /\ \/ ComplianceYear(m + 1) = ComplianceYear(m)
            \/ /\ ComplianceYear(m + 1) = ComplianceYear(m) + 1
               /\ m = 12 * ComplianceYear(m) + 12
<1>1. /\ UkYear(m) \in Nat /\ UkMonth(m) \in 1 .. 12
      /\ m = 12 * UkYear(m) + UkMonth(m) - 1
  BY MonthNumber
<1>2. m + 1 \in Nat
  OBVIOUS
<1>3. /\ UkYear(m + 1) \in Nat /\ UkMonth(m + 1) \in 1 .. 12
      /\ m + 1 = 12 * UkYear(m + 1) + UkMonth(m + 1) - 1
  BY <1>2, MonthNumber
<1>4. CASE UkMonth(m) = 12
  <2>1. UkMonth(m + 1) = 1 /\ UkYear(m + 1) = UkYear(m) + 1
    BY <1>1, <1>3, <1>4
  <2>. QED  BY <1>1, <1>4, <2>1 DEF ComplianceYear, January
<1>5. CASE UkMonth(m) # 12
  <2>1. UkMonth(m + 1) = UkMonth(m) + 1 /\ UkYear(m + 1) = UkYear(m)
    BY <1>1, <1>3, <1>5
  <2>2. CASE UkMonth(m) = 1
    BY <1>1, <2>1, <2>2 DEF ComplianceYear, January
  <2>3. CASE UkMonth(m) # 1
    BY <1>1, <2>1, <2>3 DEF ComplianceYear, January
  <2>. QED  BY <2>2, <2>3
<1>. QED  BY <1>4, <1>5

\* The single year on offer is the current compliance year.
LEMMA SingleYear ==
  ASSUME NEW m \in Nat, NEW n, n.year \in Nat \ {NoYear}, n.decemberWaste \in BOOLEAN,
         CanMultiSelect(n, m), ~(n.decemberWaste /\ n.year = NoChoiceYear)
  PROVE  /\ AvailableYears(n, m) = {ComplianceYear(m)}
         /\ ~(n.decemberWaste /\ InChoiceWindow(n.year, m))
<1>1. PICK y \in AvailableYears(n, m) : AvailableYears(n, m) = {y}
  BY DEF CanMultiSelect
<1>2. ASSUME n.decemberWaste, InChoiceWindow(n.year, m) PROVE FALSE
  <2>1. ~(n.year > ComplianceYear(m))
    BY <1>2, ChoiceWindow
  <2>2. ~IsNoChoice(n.year, m)
    BY <1>2 DEF IsNoChoice
  <2>3. AvailableYears(n, m) = {n.year, n.year + 1}
    BY <1>2, <2>1, <2>2 DEF AvailableYears, DecemberWasteYears
  <2>4. n.year # n.year + 1
    OBVIOUS
  <2>. QED  BY <1>1, <2>3, <2>4
<1>3. y = ComplianceYear(m)
  <2>1. CASE n.decemberWaste
    BY <1>1, <1>2, <2>1, OfferedYears
  <2>2. CASE ~n.decemberWaste
    BY <1>1, <2>2 DEF AvailableYears
  <2>. QED  BY <2>1, <2>2
<1>. QED  BY <1>1, <1>2, <1>3

\* For every note and calendar: the year recorded without asking does not move
\* between two months in which it is the only one, 2025 December waste apart.
THEOREM YearStays == Spec => SingleYearNeverMoves
<1>1. TypeOK /\ TypeOK' /\ [Next]_vars =>
        ((/\ CanMultiSelect(note, month)
          /\ CanMultiSelect(note, month')
          /\ ~(note.decemberWaste /\ note.year = NoChoiceYear))
           => AvailableYears(note, month') = AvailableYears(note, month))
          \/ UNCHANGED vars
  <2> SUFFICES ASSUME TypeOK, NextMonth,
                      CanMultiSelect(note, month), CanMultiSelect(note, month'),
                      ~(note.decemberWaste /\ note.year = NoChoiceYear)
               PROVE  AvailableYears(note, month') = AvailableYears(note, month)
    BY DEF Next
  <2>1. /\ note.year \in Nat \ {NoYear} /\ note.decemberWaste \in BOOLEAN
        /\ month \in Nat /\ month' = month + 1 /\ month' \in Nat
    BY DEF TypeOK, NextMonth
  <2>2. /\ AvailableYears(note, month) = {ComplianceYear(month)}
        /\ ~(note.decemberWaste /\ InChoiceWindow(note.year, month))
    BY <2>1, SingleYear
  <2>3. AvailableYears(note, month') = {ComplianceYear(month')}
    BY <2>1, SingleYear
  <2>4. ASSUME ComplianceYear(month') = ComplianceYear(month) + 1,
               month = 12 * ComplianceYear(month) + 12
        PROVE  FALSE
    <3>1. /\ \/ ComplianceYear(month) = note.year
             \/ note.decemberWaste /\ ComplianceYear(month) = note.year + 1
          /\ \/ ComplianceYear(month') = note.year
             \/ note.decemberWaste /\ ComplianceYear(month') = note.year + 1
      <4>1. AvailableYears(note, month) # {} /\ AvailableYears(note, month') # {}
        BY <2>2, <2>3
      <4>. QED  BY <2>1, <4>1, Acceptable
    <3>2. note.decemberWaste /\ ComplianceYear(month) = note.year
      BY <2>1, <2>4, <3>1
    <3>3. InChoiceWindow(note.year, month)
      BY <2>1, <2>4, <3>2 DEF InChoiceWindow, MonthIndex, December, February
    <3>. QED  BY <2>2, <3>2, <3>3
  <2>. QED  BY <2>1, <2>2, <2>3, <2>4, ComplianceYearMoves
<1>. QED  BY <1>1, Typing, PTL DEF Spec, SingleYearNeverMoves
===============================================================================
