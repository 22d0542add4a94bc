------------------------------ MODULE PrnBackend ------------------------------
(***************************************************************************)
(* The Waste Obligations API's notes (PRNs) and the clock, as the frontend *)
(* uses them (external: services/waste-obligations-api.service.js and the  *)
(* answers routes/_shared/prns/prn-status-update.js tells apart).          *)
(*                                                                         *)
(* The API applies a bulk update to every note or to none.  An accept that *)
(* names a year is applied only while every note awaits acceptance, and    *)
(* records the year as sent; without a year the bulk update skips that     *)
(* check and records no year.                                              *)
(***************************************************************************)
EXTENDS AcceptanceYears

CONSTANTS
    Prn,            \* the notes of the organisation or scheme
    DecemberWaste,  \* those that are December waste
    IssuedYear,     \* the obligation year each note is issued for
    Contested,      \* bound: the notes others change while the journey is open
    StartMonths,    \* the months a journey may open in
    MonthSteps,     \* the months one moment may move on by: 0, 1 or both
    MaxTicks        \* bound: the moments that pass while it is open

ASSUME BackendAssumption ==
    /\ DecemberWaste \subseteq Prn
    /\ Contested \subseteq Prn
    /\ IssuedYear \in [Prn -> Nat \ {NoYear}]
    /\ StartMonths \subseteq Nat
    /\ MonthSteps \subseteq {0, 1}
    /\ MaxTicks \in Nat

VARIABLES
    prn,    \* the API's record of each note
    clock   \* the moment, its month, and the month the journey opened in

backendVars == <<prn, clock>>

\* "Cancelled" stands for every other status; "Gone" for a note the API answers
\* 404 to.
Status == {"AwaitingAcceptance", "Accepted", "Rejected", "Cancelled", "Gone"}

Withdrawn == {"Rejected", "Cancelled", "Gone"}

Note == [id : Prn, status : Status, year : Nat, decemberWaste : BOOLEAN]

Moment == [now : Nat, month : Nat, from : Nat]

BackendTypeOK ==
    /\ prn \in [Prn -> Note]
    /\ \A p \in Prn : prn[p].id = p
    /\ clock \in Moment
    /\ clock.from <= clock.month

BackendInit ==
    /\ prn = [p \in Prn |-> [id |-> p, status |-> "AwaitingAcceptance",
                             year |-> IssuedYear[p],
                             decemberWaste |-> p \in DecemberWaste]]
    /\ clock \in [now : {0}, month : StartMonths, from : StartMonths]
    /\ clock.from = clock.month

\* Time passes: longer than the confirmation is kept for, or over a month's end.
Tick ==
    /\ clock.now < MaxTicks
    /\ \E step \in MonthSteps : clock' = [clock EXCEPT !.now = @ + 1, !.month = @ + step]
    /\ UNCHANGED prn

IsEditable(n) == n.status = "AwaitingAcceptance"

\* The notes of a listing of what can be accepted into a year now.
ListedFor(y) == {n \in {prn[p] : p \in Prn} :
                    IsEditable(n) /\ y \in AvailableYears(n, clock.month)}

\* The bulk update's effect and its refusals.
AllAwaiting(S) == \A p \in S : prn[p].status = "AwaitingAcceptance"
SomeGone(S)    == \E p \in S : prn[p].status = "Gone"

MayUpdate(S, y) == ~SomeGone(S) /\ (AllAwaiting(S) \/ y = NoYear)

AcceptAll(S, y) ==
    prn' = [p \in Prn |-> IF p \in S THEN [prn[p] EXCEPT !.status = "Accepted",
                                                        !.year = y]
                                    ELSE prn[p]]

\* Someone else changes a note: another user of the organisation, in a session of
\* their own, or the note's issuer.
OthersAccept(p) ==
    /\ IsEditable(prn[p])
    /\ \E y \in AvailableYears(prn[p], clock.month) : AcceptAll({p}, y)
    /\ UNCHANGED clock

OthersWithdraw(p) ==
    /\ IsEditable(prn[p])
    /\ \E s \in Withdrawn : prn' = [prn EXCEPT ![p].status = s]
    /\ UNCHANGED clock

Environment == Tick \/ \E p \in Contested : OthersAccept(p) \/ OthersWithdraw(p)
===============================================================================
