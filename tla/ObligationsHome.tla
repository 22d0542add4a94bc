---------------------------- MODULE ObligationsHome ----------------------------
(***************************************************************************)
(* The obligations home page of one organisation and year: routes/         *)
(* producer/obligations and routes/cso/obligations over routes/_shared/    *)
(* obligations.                                                            *)
(*                                                                         *)
(* The page reads the obligations, then the declarations, and is drawn at  *)
(* the time of its handler.  Declarations are made and regulated, and      *)
(* months pass, between any two of these.  The obligations move as well: a *)
(* read may return any list.                                               *)
(***************************************************************************)
EXTENDS ObligationTable, Sequences, FiniteSets

CONSTANTS
    Year,        \* the year of the page
    Months,      \* the months that pass, counted from January of that year
    Figures,     \* what the API may report of a material
    Named,       \* the materials it may report
    MaxDeclared  \* bound: the declarations made

ASSUME HomeAssumption ==
    /\ Year \in Nat
    /\ Months \subseteq Nat \ {0}
    /\ Figures \subseteq [status : {"Met", "NotMet", "NoDataYet"}, due : Nat \cup {Dash},
                          got : Nat, reported : BOOLEAN]
    /\ IsFiniteSet(Named) /\ {"GlassAggregate", "glass"} \cap Named = {}
    /\ MaxDeclared \in Nat

VARIABLES
    month,    \* the month it is
    declared, \* the declarations, newest first
    home      \* the page

homeVars == <<month, declared, home>>

Lists == UNION {[s -> Figures] : s \in SUBSET Named}
Statuses == {"Submitted", "Accepted", "Cancelled"}
Declarations == [year : {Year - 1, Year}, status : Statuses]
Tiles == {"none", "submitted", "resubmit", "cancelledMissed", "missed", "submit"}

\* No tile drawn, no page.
NoTile == "none"
NoHome == [phase |-> "away", obligations |-> <<>>, declarations |-> <<>>, tile |-> NoTile,
           button |-> FALSE, month |-> 1]

HomeTypeOK ==
    /\ month \in Months
    /\ declared \in Seq(Declarations) /\ Len(declared) <= MaxDeclared
    /\ home.phase \in {"away", "obligations", "declarations", "handler", "drawn"}
    /\ home.declarations \in Seq(Declarations)
    /\ home.tile \in Tiles /\ home.button \in BOOLEAN /\ home.month \in Months \cup {1}

HomeInit ==
    /\ month \in Months
    /\ declared = <<>>
    /\ home = NoHome

-------------------------------------------------------------------------------
(* The calendar, in the UK's time zone                                       *)

CalendarYear(m) == Year + ((m - 1) \div 12)
CalendarMonth(m) == 1 + ((m - 1) % 12)

\* getComplianceYear
ComplianceYearOf(m) == IF CalendarMonth(m) = 1 THEN CalendarYear(m) - 1 ELSE CalendarYear(m)

\* Slip: the deadline is the end of the calendar year.
BugAfterDeadline(deadlineYear, m) == CalendarYear(m) >= deadlineYear

\* isAfterSubmissionDeadline: 31 January of the deadline year.
AfterDeadline(deadlineYear, m) ==
    \/ CalendarYear(m) > deadlineYear
    \/ CalendarYear(m) = deadlineYear /\ CalendarMonth(m) > 1

-------------------------------------------------------------------------------
(* What the page shows                                                       *)

\* pickLatestSubmittedDeclarationForYear, pickCancelledDeclarationForYear
SubmittedFor(ds, year) ==
    \E i \in DOMAIN ds : ds[i].year = year /\ ds[i].status \in {"Submitted", "Accepted"}
CancelledFor(ds, year) ==
    \E i \in DOMAIN ds : ds[i].year = year /\ ds[i].status = "Cancelled"

\* hasObligationData
HasObligationData(list) == \E m \in DOMAIN list : list[m].status # "NoDataYet"

\* buildSubmittedDeclaration: the link to what is submitted takes every other card's place.
HasSubmittedCard(ds) == SubmittedFor(ds, Year)

\* buildDeadlineStatus; without data there is no card.
Tile(list, ds, m) ==
    CASE ~HasObligationData(list)                          -> NoTile
      [] HasObligationData(list) /\ HasSubmittedCard(ds) -> "submitted"
      [] OTHER ->
            IF AfterDeadline(Year + 1, m)
            THEN IF CancelledFor(ds, Year) THEN "cancelledMissed" ELSE "missed"
            ELSE IF CancelledFor(ds, Year) THEN "resubmit" ELSE "submit"

Invites(tile) == tile \in {"submit", "resubmit"}

-------------------------------------------------------------------------------

OpenHome ==
    /\ home.phase \in {"away", "drawn"}
    /\ home' = [NoHome EXCEPT !.phase = "obligations"]
    /\ UNCHANGED <<month, declared>>

ReadObligationsOf ==
    /\ home.phase = "obligations"
    /\ \E list \in Lists : home' = [home EXCEPT !.obligations = list, !.phase = "declarations"]
    /\ UNCHANGED <<month, declared>>

ReadDeclarationsOf ==
    /\ home.phase = "declarations"
    /\ home' = [home EXCEPT !.declarations = declared, !.phase = "handler"]
    /\ UNCHANGED <<month, declared>>

\* A read fails, the notes awaiting acceptance among them: an error page.
HomeFails ==
    /\ home.phase \in {"obligations", "declarations", "handler"}
    /\ home' = NoHome
    /\ UNCHANGED <<month, declared>>

\* buildManageObligationsViewModel; only approved and delegated users get a button.
DrawHome ==
    /\ home.phase = "handler"
    /\ \E approved \in BOOLEAN :
         LET tile == Tile(home.obligations, home.declarations, month)
         IN home' = [home EXCEPT !.phase = "drawn", !.tile = tile, !.month = month,
                                 !.button = approved /\ Invites(tile)]
    /\ UNCHANGED <<month, declared>>

Declare ==
    /\ Len(declared) < MaxDeclared
    /\ \E year \in {Year - 1, Year} :
          declared' = <<[year |-> year, status |-> "Submitted"]>> \o declared
    /\ UNCHANGED <<month, home>>

RegulatorDecides ==
    /\ \E i \in DOMAIN declared, s \in {"Accepted", "Cancelled"} :
          /\ declared[i].status \notin {s, "Cancelled"}
          /\ declared' = [declared EXCEPT ![i].status = s]
    /\ UNCHANGED <<month, home>>

MonthPasses ==
    /\ \E m \in Months : m > month /\ month' = m
    /\ UNCHANGED <<declared, home>>

HomeNext ==
    \/ OpenHome \/ ReadObligationsOf \/ ReadDeclarationsOf \/ HomeFails \/ DrawHome
    \/ Declare \/ RegulatorDecides \/ MonthPasses

HomeSpec == HomeInit /\ [][HomeNext]_homeVars

-------------------------------------------------------------------------------

\* The card keeps the deadline the rest of the service keeps: it invites to submit,
\* or to submit again, only while notes can still be accepted into the year and with
\* no declaration that stands, and calls the deadline missed only when they cannot.
TilesKeepTheDeadline ==
    home.phase = "drawn" =>
        /\ Invites(home.tile) =>
              /\ ComplianceYearOf(home.month) <= Year
              /\ ~SubmittedFor(home.declarations, Year)
        /\ home.tile \in {"missed", "cancelledMissed"} => ComplianceYearOf(home.month) > Year

\* The tables agree with the figures and with each other, with dashes and without:
\* the totals count every material once, glass in its two kinds included; the year is
\* not met just when some material is not; a page that shows the card shows a status;
\* and what a material's page explains adds up to what its row asks for.  Glass
\* without figures is the exception: it counts as met, so a year with nothing but
\* missing figures is called met as well.
TablesAddUp ==
    home.phase = "drawn" =>
        LET list   == home.obligations
            met(s) == \E m \in DOMAIN list : list[m].status = s
        IN /\ \A dashes \in BOOLEAN :
                LET t == Totals(list, dashes)
                IN /\ t.got = Added([m \in DOMAIN list |-> list[m].got])
                   /\ Amount(t.due) = Added([m \in DOMAIN list |-> Amount(ToRow(list[m]).due)])
                   /\ (t.status = "NotMet") = met("NotMet")
                   /\ Glassy \subseteq DOMAIN list =>
                         (t.status = "NoDataYet") = ~HasObligationData(list)
                   /\ home.tile # NoTile => t.status # "NoDataYet"
           /\ \A m \in DOMAIN list \ Glassy :
                 Calculation(list, m) # Dash /\ list[m].status # "NoDataYet"
                     => Calculation(list, m) = Amount(HomeTables(list).main[m].due)
           /\ (Calculation(list, "glass") # Dash
                 /\ \A m \in Glassy \cap DOMAIN list : list[m].status # "NoDataYet")
                     => Calculation(list, "glass") = Amount(GlassTotals(list, TRUE).due)
===============================================================================
