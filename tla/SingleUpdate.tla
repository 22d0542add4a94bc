----------------------------- MODULE SingleUpdate -----------------------------
(***************************************************************************)
(* Accepting or rejecting one note: its page, the choose-year page and the *)
(* two confirmation pages of routes/_shared/prns, producer and scheme      *)
(* alike, with several tabs open.                                          *)
(*                                                                         *)
(* Nothing is kept in the session: a page's address carries the year that  *)
(* was chosen, and every request reads the note again.  What the user was  *)
(* shown can therefore differ from what a submit finds: between the two    *)
(* the note may have changed and a month may have ended, and they may      *)
(* change once more between the handler's read, its decision and the       *)
(* moment the API takes the update.                                        *)
(***************************************************************************)
EXTENDS PrnBackend

CONSTANTS
    Tab,        \* the tabs (or double submits) of one user
    NoteOf      \* the note each tab is about

ASSUME SingleAssumption == NoteOf \in [Tab -> Prn]

VARIABLES
    shown,      \* shown[t]: the page tab t shows
    pc,         \* pc[t]: where tab t's request stands
    req,        \* req[t]: what was requested
    loaded,     \* loaded[t]: the note as the request's pre-handler read it
    sent,       \* sent[t]: the update the handler decided on, and in which month
    kept        \* kept[t]: the years of the ?acceptYear addresses in the tab's history

vars == <<prn, clock, shown, pc, req, loaded, sent, kept>>

-------------------------------------------------------------------------------
(* The year an acceptance is recorded against.                               *)

\* Slip: the year of the address is used whether or not it is on offer.
BugTakeAnyYear(n, chosen, m) == chosen

\* NoYear leaves the note its own year.
AcceptYear(n, chosen, m) ==
    IF chosen \in AvailableYears(n, m)
    THEN chosen
    ELSE IF n.decemberWaste /\ CanMultiSelect(n, m)
         THEN CHOOSE y \in AvailableYears(n, m) : TRUE
         ELSE NoYear

\* Slip: a missing choice is not asked for.
BugNeverAsk(n, chosen, m) == FALSE

ChoiceRequired(n, chosen, m) == chosen \notin AvailableYears(n, m) /\ HasYearChoice(n, m)

\* Slip: a year that is no longer on offer is not noticed.
BugNothingStale(n, chosen, m) == FALSE

StaleChoice(n, chosen, m) ==
    /\ chosen # NoYear /\ chosen \notin AvailableYears(n, m)
    /\ n.decemberWaste /\ CanMultiSelect(n, m)

RecordedYear(n, year) == IF year = NoYear THEN n.year ELSE year

-------------------------------------------------------------------------------
(* Pages, with the years a page asks for, asserts or names, and the chosen   *)
(* year of its address.  "away" stands for every page without a form: a      *)
(* redirect not yet followed and the error page among them.                  *)

Pages == {"away", "note", "acceptedNote", "rejectedNote", "choose", "confirmAccept",
          "confirmReject"}

Shown == [page : Pages, years : SUBSET Nat, chosen : Nat]

Page(name, years, chosen) == [page |-> name, years |-> years, chosen |-> chosen]

Away == Page("away", {}, NoYear)

Kinds == {"none", "noteGet", "confirmedGet", "chooseGet", "choosePost", "acceptGet",
          "acceptPost", "rejectGet", "rejectPost"}

Request(kind, chosen) == [kind |-> kind, chosen |-> chosen]

NoRequest == Request("none", NoYear)

\* Addresses a user may open at any time, by a link, a redirect or the history.
Links(t) ==
    {Request(k, NoYear) : k \in {"noteGet", "confirmedGet", "chooseGet", "rejectGet"}}
      \cup {Request("acceptGet", y) : y \in kept[t] \cup {NoYear}}

\* The forms a page holds; the confirmation posts to its own address.
FormsOf(page) ==
    CASE page.page = "choose"        -> {Request("choosePost", y) : y \in page.years \cup {NoYear}}
      [] page.page = "confirmAccept" -> {Request("acceptPost", page.chosen)}
      [] page.page = "confirmReject" -> {Request("rejectPost", NoYear)}
      [] OTHER                       -> {}

NothingLoaded(t) == [id |-> NoteOf[t], status |-> "Gone", year |-> NoYear,
                     decemberWaste |-> FALSE]

Sent == [status : {"none", "Accepted", "Rejected"}, year : Nat, month : Nat]

NothingSent == [status |-> "none", year |-> NoYear, month |-> 0]

TypeOK ==
    /\ BackendTypeOK
    /\ shown \in [Tab -> Shown]
    /\ pc \in [Tab -> {"idle", "loading", "handler", "sending", "applied", "conflict",
                       "failed"}]
    /\ req \in [Tab -> [kind : Kinds, chosen : Nat]]
    /\ loaded \in [Tab -> Note]
    /\ sent \in [Tab -> Sent]
    /\ kept \in [Tab -> SUBSET Nat]

\* An earlier journey of up to two months ago may have left its addresses behind.
EarlierYears(p) ==
    UNION {AvailableYears(prn[p], m) :
              m \in {k \in clock.month - 2 .. clock.month : HasYearChoice(prn[p], k)}}

Init ==
    /\ BackendInit
    /\ shown = [t \in Tab |-> Away]
    /\ pc = [t \in Tab |-> "idle"]
    /\ req = [t \in Tab |-> NoRequest]
    /\ loaded = [t \in Tab |-> NothingLoaded(t)]
    /\ sent = [t \in Tab |-> NothingSent]
    /\ kept \in [Tab -> SUBSET UNION {EarlierYears(NoteOf[t]) : t \in Tab}]
    /\ \A t \in Tab : kept[t] \subseteq EarlierYears(NoteOf[t])

Begin(t) ==
    /\ pc[t] = "idle"
    /\ \E q \in Links(t) \cup FormsOf(shown[t]) : req' = [req EXCEPT ![t] = q]
    /\ pc' = [pc EXCEPT ![t] = "loading"]
    /\ UNCHANGED <<prn, clock, shown, loaded, sent, kept>>

Respond(t, page) ==
    /\ shown' = [shown EXCEPT ![t] = page]
    /\ pc' = [pc EXCEPT ![t] = "idle"]
    /\ req' = [req EXCEPT ![t] = NoRequest]
    /\ loaded' = [loaded EXCEPT ![t] = NothingLoaded(t)]
    /\ sent' = [sent EXCEPT ![t] = NothingSent]
    /\ UNCHANGED <<prn, clock>>

Show(t, page) == Respond(t, page) /\ UNCHANGED kept

\* The pre-handler reads the note.
Load(t) ==
    /\ pc[t] = "loading"
    /\ prn[NoteOf[t]].status # "Gone"
    /\ loaded' = [loaded EXCEPT ![t] = prn[NoteOf[t]]]
    /\ pc' = [pc EXCEPT ![t] = "handler"]
    /\ UNCHANGED <<prn, clock, shown, req, sent, kept>>

\* A note that is not found and a failed read both end in the error page.
LoadFails(t) ==
    /\ pc[t] = "loading"
    /\ Show(t, Away)

Handling(t, kind) == pc[t] = "handler" /\ req[t].kind = kind

\* Slip: the banner is shown because the address asks for it.
BugBannerOnRequest(n, confirmed) == IF confirmed THEN "acceptedNote" ELSE "note"

\* Slip: the banner is named by the note's status.
BugBannerByStatus(n, confirmed) == n.status

\* The banner of a note's page: the green one for every accepted note, whether or
\* not the address has ?confirmed=1 (which only adds a download link to it), and
\* the one of a rejection for a confirmed address alone.
BannerPage(n, confirmed) ==
    CASE n.status = "Accepted"              -> "acceptedNote"
      [] n.status = "Rejected" /\ confirmed -> "rejectedNote"
      [] OTHER                              -> "note"

\* The note's page, with the year it and its banner give.
NotePage(n, confirmed) == Page(BannerPage(n, confirmed), {n.year}, NoYear)

NoteGet(t) ==
    /\ Handling(t, "noteGet")
    /\ Show(t, NotePage(loaded[t], FALSE))

ConfirmedGet(t) ==
    /\ Handling(t, "confirmedGet")
    /\ Show(t, NotePage(loaded[t], TRUE))

Offers(t) == AvailableYears(loaded[t], clock.month)

ChooseApplies(t) == IsEditable(loaded[t]) /\ HasYearChoice(loaded[t], clock.month)

\* Choosing changes nothing: a year that is on offer redirects to the confirmation
\* that names it, anything else asks again.
ChooseYear(t) ==
    /\ Handling(t, "chooseGet") \/ Handling(t, "choosePost")
    /\ IF ChooseApplies(t) /\ req[t].chosen \notin Offers(t)
       THEN Show(t, Page("choose", Offers(t), NoYear))
       ELSE /\ Respond(t, Away)
            /\ kept' = IF ChooseApplies(t) THEN [kept EXCEPT ![t] = @ \cup {req[t].chosen}]
                                          ELSE kept

\* The confirmation can be asked for and posted: awaiting, and no choice is owed.
AcceptApplies(t) ==
    /\ IsEditable(loaded[t])
    /\ ~ChoiceRequired(loaded[t], req[t].chosen, clock.month)

ConfirmAcceptGet(t) ==
    /\ Handling(t, "acceptGet")
    /\ LET year == AcceptYear(loaded[t], req[t].chosen, clock.month)
       IN Show(t, IF AcceptApplies(t)
                     THEN Page("confirmAccept", {RecordedYear(loaded[t], year)},
                               req[t].chosen)
                     ELSE Away)

ConfirmRejectGet(t) ==
    /\ Handling(t, "rejectGet")
    /\ Show(t, IF IsEditable(loaded[t]) THEN Page("confirmReject", {}, NoYear) ELSE Away)

Send(t, status, year) ==
    /\ sent' = [sent EXCEPT ![t] = [status |-> status, year |-> year,
                                    month |-> clock.month]]
    /\ pc' = [pc EXCEPT ![t] = "sending"]
    /\ UNCHANGED <<prn, clock, shown, req, loaded, kept>>

\* A year that was chosen and is no longer on offer goes back to the confirmation.
ConfirmAcceptPost(t) ==
    /\ Handling(t, "acceptPost")
    /\ IF AcceptApplies(t) /\ ~StaleChoice(loaded[t], req[t].chosen, clock.month)
       THEN Send(t, "Accepted", AcceptYear(loaded[t], req[t].chosen, clock.month))
       ELSE Show(t, Away)

ConfirmRejectPost(t) ==
    /\ Handling(t, "rejectPost")
    /\ IF IsEditable(loaded[t]) THEN Send(t, "Rejected", NoYear) ELSE Show(t, Away)

-------------------------------------------------------------------------------
(* The API updates a note that still awaits acceptance, and may apply an     *)
(* update whose answer is lost.                                              *)

Recorded(t) == RecordedYear(prn[NoteOf[t]], sent[t].year)

ApiApplies(t) ==
    /\ pc[t] = "sending"
    /\ IsEditable(prn[NoteOf[t]])
    /\ IF sent[t].status = "Accepted"
       THEN AcceptAll({NoteOf[t]}, Recorded(t))
       ELSE prn' = [prn EXCEPT ![NoteOf[t]].status = "Rejected"]
    /\ \E a \in {"applied", "failed"} : pc' = [pc EXCEPT ![t] = a]
    /\ UNCHANGED <<clock, shown, req, loaded, sent, kept>>

ApiRefuses(t) ==
    /\ pc[t] = "sending"
    /\ \E a \in {"conflict", "failed"} :
          /\ a = "conflict" => ~IsEditable(prn[NoteOf[t]])
          /\ pc' = [pc EXCEPT ![t] = a]
    /\ UNCHANGED <<prn, clock, shown, req, loaded, sent, kept>>

\* Applied or in conflict, the user is sent to the note's page, with the banner in
\* the first case; any other failure is an error page.
Answered(t) ==
    /\ pc[t] \in {"applied", "conflict", "failed"}
    /\ Show(t, Away)

Step(t) ==
    \/ Begin(t) \/ Load(t) \/ LoadFails(t)
    \/ NoteGet(t) \/ ConfirmedGet(t) \/ ChooseYear(t)
    \/ ConfirmAcceptGet(t) \/ ConfirmAcceptPost(t)
    \/ ConfirmRejectGet(t) \/ ConfirmRejectPost(t)
    \/ ApiApplies(t) \/ ApiRefuses(t) \/ Answered(t)

Others == Environment /\ UNCHANGED <<shown, pc, req, loaded, sent, kept>>

Next == Others \/ \E t \in Tab : Step(t)

Spec == Init /\ [][Next]_vars

-------------------------------------------------------------------------------

Accepting(t) == pc[t] = "sending" /\ sent[t].status = "Accepted"

\* The year an update records is the year the confirmation page in front of the
\* user names, whatever month has ended since the page was drawn: "a POST must not
\* record it: the user confirmed a different year".  (A note that no year is left
\* for is NeverSendsUnacceptable's.)
RecordsTheYearNamed ==
    \A t \in Tab : Accepting(t) /\ AvailableYears(loaded[t], sent[t].month) # {} =>
        shown[t].years = {RecordedYear(loaded[t], sent[t].year)}

\* A note with two years open is accepted into the one the user's address carries,
\* never into a default.
YearChosenByUser ==
    \A t \in Tab : Accepting(t) /\ HasYearChoice(loaded[t], sent[t].month) =>
        sent[t].year = shown[t].chosen /\ sent[t].year # NoYear

\* Neither banner is ever shown for an update that did not happen, on whatever
\* address and however the note changed since it was asked for, and the year the
\* green one gives is the year recorded.
BannerTruthful ==
    \A t \in Tab :
        /\ shown[t].page = "acceptedNote" =>
              /\ prn[NoteOf[t]].status = "Accepted"
              /\ shown[t].years = {prn[NoteOf[t]].year}
        /\ shown[t].page = "rejectedNote" => prn[NoteOf[t]].status = "Rejected"

\* A note that cannot be accepted into any year is not accepted: "an empty array
\* when the PRN can't be accepted into any year".
NeverSendsUnacceptable ==
    \A t \in Tab : Accepting(t) => AvailableYears(loaded[t], sent[t].month) # {}

\* Each update is a step of the ledger: once, while the note awaits acceptance, and
\* into a year offered while the journey was open.
Ledger == INSTANCE PrnLedger

LedgerKept == Ledger!LedgerSpec
===============================================================================
