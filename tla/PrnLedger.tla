------------------------------- MODULE PrnLedger -------------------------------
(***************************************************************************)
(* What the acceptance journeys promise about the notes they are trusted   *)
(* with, whatever pages, sessions and requests produced it: a note leaves  *)
(* AwaitingAcceptance at most once; an acceptance covers its whole set of  *)
(* notes in one step; and the one year it records was offered for every    *)
(* note of the set, at some moment since the user's journey opened.        *)
(***************************************************************************)
EXTENDS PrnBackend

\* The months the journey has been open for.
MonthsOpen == clock.from .. clock.month

OfferedToAll(S, m) ==
    {y \in UNION {AvailableYears(prn[p], m) : p \in S} :
        \A p \in S : y \in AvailableYears(prn[p], m)}

\* Every note of S is accepted into one year, offered to all of them at once.
LedgerAccept(S) ==
    /\ S # {}
    /\ \A p \in S : prn[p].status = "AwaitingAcceptance"
    /\ \E m \in MonthsOpen : \E y \in OfferedToAll(S, m) :
          prn' = [p \in Prn |-> IF p \in S THEN [prn[p] EXCEPT !.status = "Accepted",
                                                               !.year = y]
                                           ELSE prn[p]]
    /\ UNCHANGED clock

\* A note is rejected, cancelled or deleted instead.
LedgerWithdraw(p) ==
    /\ prn[p].status = "AwaitingAcceptance"
    /\ \E s \in Withdrawn : prn' = [prn EXCEPT ![p].status = s]
    /\ UNCHANGED clock

LedgerNext ==
    \/ \E S \in SUBSET Prn : LedgerAccept(S)
    \/ \E p \in Prn : LedgerWithdraw(p)
    \/ Tick

LedgerSpec == BackendInit /\ [][LedgerNext]_backendVars
===============================================================================
