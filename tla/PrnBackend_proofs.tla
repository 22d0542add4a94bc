--------------------------- MODULE PrnBackend_proofs ---------------------------
(***************************************************************************)
(* Facts of the notes and the years on offer that the proofs of both       *)
(* journeys use.                                                           *)
(***************************************************************************)
EXTENDS PrnBackend, TLAPS

-------------------------------------------------------------------------------
(* The years of a note and of a selection.                                   *)

LEMMA YearsTyping ==
  ASSUME NEW m \in Int, NEW n \in Note
  PROVE  AvailableYears(n, m) \subseteq Nat
<1>1. n.year \in Nat /\ ComplianceYear(m) \in Int
  BY DEF Note, ComplianceYear, UkYear
<1>2. CASE n.year = NoYear \/ n.year > ComplianceYear(m)
  BY <1>2 DEF AvailableYears
<1>3. CASE ~(n.year = NoYear \/ n.year > ComplianceYear(m))
  <2>1. ComplianceYear(m) \in Nat
    BY <1>1, <1>3
  <2>2. AvailableYears(n, m) \subseteq {n.year, n.year + 1, ComplianceYear(m)}
    BY <1>3 DEF AvailableYears, DecemberWasteYears
  <2>. QED  BY <1>1, <2>1, <2>2
<1>. QED  BY <1>2, <1>3

\* When a selection has a year, it is the only year of each of its notes, and so
\* also the year of each note by itself.
LEMMA SelectionYearShared ==
  ASSUME NEW m, NEW notes, SelectionYear(notes, m) # NoYear, NEW n \in notes
  PROVE  /\ AvailableYears(n, m) = {SelectionYear(notes, m)}
         /\ SelectionYear({n}, m) = SelectionYear(notes, m)
<1>1. PICK y \in SelectionYears(notes, m) : SelectionYears(notes, m) = {y}
  BY DEF SelectionYear
<1>2. CanMultiSelect(n, m)
  BY DEF SelectionYear
<1>3. SelectionYear(notes, m) = y
  <2>1. SelectionYear(notes, m) = CHOOSE z \in SelectionYears(notes, m) : TRUE
    BY DEF SelectionYear
  <2>2. (CHOOSE z \in SelectionYears(notes, m) : TRUE) \in {y}
    BY <1>1
  <2>. QED  BY <2>1, <2>2
<1>4. AvailableYears(n, m) = {y}
  <2>1. PICK z : AvailableYears(n, m) = {z}
    BY <1>2 DEF CanMultiSelect
  <2>2. z \in SelectionYears(notes, m)
    BY <2>1 DEF SelectionYears
  <2>. QED  BY <1>1, <2>1, <2>2
<1>5. SelectionYears({n}, m) = {y}
  BY <1>4 DEF SelectionYears
<1>6. SelectionYear({n}, m) = y
  <2>1. SelectionYear({n}, m) = CHOOSE z \in SelectionYears({n}, m) : TRUE
    BY <1>2, <1>5 DEF SelectionYear
  <2>2. (CHOOSE z \in SelectionYears({n}, m) : TRUE) \in {y}
    BY <1>5
  <2>. QED  BY <2>1, <2>2
<1>. QED  BY <1>3, <1>4, <1>6

LEMMA SelectionYearTyping ==
  ASSUME NEW m \in Nat, NEW notes \in SUBSET Note
  PROVE  SelectionYear(notes, m) \in Nat
<1>1. CASE SelectionYear(notes, m) = NoYear
  BY <1>1 DEF NoYear
<1>2. CASE SelectionYear(notes, m) # NoYear
  <2>1. PICK y \in SelectionYears(notes, m) : SelectionYears(notes, m) = {y}
    BY <1>2 DEF SelectionYear
  <2>2. PICK n \in notes : y \in AvailableYears(n, m)
    BY <2>1 DEF SelectionYears
  <2>3. n \in Note /\ m \in Int
    OBVIOUS
  <2>4. AvailableYears(n, m) \subseteq Nat
    BY <2>3, YearsTyping
  <2>. QED  BY <1>2, <2>2, <2>4, SelectionYearShared
<1>. QED  BY <1>1, <1>2

-------------------------------------------------------------------------------
(* What the API and the others do to the notes keeps them notes.             *)

LEMMA AcceptAllTyping ==
  ASSUME BackendTypeOK, NEW S, NEW y \in Nat, AcceptAll(S, y), clock' = clock
  PROVE  BackendTypeOK'
<1>1. ASSUME NEW p \in Prn PROVE prn'[p] \in Note /\ prn'[p].id = p
  <2>1. prn[p] \in Note /\ prn[p].id = p
    BY DEF BackendTypeOK
  <2>2. CASE p \in S
    <3>1. prn'[p] = [prn[p] EXCEPT !.status = "Accepted", !.year = y]
      BY <2>2 DEF AcceptAll
    <3>. QED  BY <2>1, <3>1 DEF Note, Status
  <2>3. CASE p \notin S
    BY <2>1, <2>3 DEF AcceptAll
  <2>. QED  BY <2>2, <2>3
<1>2. prn' \in [Prn -> Note]
  BY <1>1 DEF AcceptAll
<1>. QED  BY <1>1, <1>2 DEF BackendTypeOK

LEMMA BackendInitTyping == BackendInit => BackendTypeOK
<1>. SUFFICES ASSUME BackendInit PROVE BackendTypeOK
  OBVIOUS
<1>1. ASSUME NEW p \in Prn PROVE prn[p] \in Note /\ prn[p].id = p
  BY BackendAssumption DEF BackendInit, Note, Status
<1>2. prn \in [Prn -> Note]
  BY <1>1 DEF BackendInit
<1>3. clock \in Moment
  <2>1. clock \in [now : {0}, month : StartMonths, from : StartMonths]
    BY DEF BackendInit
  <2>2. /\ clock = [now |-> clock.now, month |-> clock.month, from |-> clock.from]
        /\ clock.now = 0 /\ clock.month \in StartMonths /\ clock.from \in StartMonths
    BY <2>1
  <2>3. clock.now \in Nat /\ clock.month \in Nat /\ clock.from \in Nat
    BY <2>2, BackendAssumption
  <2>. QED  BY <2>2, <2>3 DEF Moment
<1>4. clock.from <= clock.month
  <2>1. clock.from = clock.month /\ clock.month \in Nat
    BY <1>3 DEF BackendInit, Moment
  <2>. QED  BY <2>1
<1>. QED  BY <1>1, <1>2, <1>3, <1>4 DEF BackendTypeOK

LEMMA BackendEnvironmentTyping ==
  ASSUME BackendTypeOK, Environment
  PROVE  BackendTypeOK'
<1>1. CASE Tick
  <2>1. PICK step \in {0, 1} : clock' = [clock EXCEPT !.now = @ + 1, !.month = @ + step]
    BY <1>1, BackendAssumption DEF Tick
  <2>2. prn' = prn
    BY <1>1 DEF Tick
  <2>3. /\ clock.now \in Nat /\ clock.month \in Nat /\ clock.from \in Nat
        /\ clock.from <= clock.month
        /\ clock = [now |-> clock.now, month |-> clock.month, from |-> clock.from]
    BY DEF BackendTypeOK, Moment
  <2>4. clock' = [now |-> clock.now + 1, month |-> clock.month + step, from |-> clock.from]
    BY <2>1, <2>3
  <2>5. clock' \in Moment /\ clock'.from <= clock'.month
    BY <2>3, <2>4 DEF Moment
  <2>. QED  BY <2>2, <2>5 DEF BackendTypeOK
<1>2. ASSUME NEW p \in Prn, OthersAccept(p) PROVE BackendTypeOK'
  <2>1. PICK y \in AvailableYears(prn[p], clock.month) : AcceptAll({p}, y)
    BY <1>2 DEF OthersAccept
  <2>2. y \in Nat
    BY YearsTyping DEF BackendTypeOK, Moment
  <2>. QED  BY <1>2, <2>1, <2>2, AcceptAllTyping DEF OthersAccept
<1>3. ASSUME NEW p \in Prn, OthersWithdraw(p) PROVE BackendTypeOK'
  BY <1>3 DEF OthersWithdraw, BackendTypeOK, Note, Status, Withdrawn
<1>. QED  BY <1>1, <1>2, <1>3, BackendAssumption DEF Environment
===============================================================================
