------------------------------ MODULE BulkAccept ------------------------------
(***************************************************************************)
(* Accepting several notes at once: the list, check-selection and          *)
(* accepted-selection pages of routes/_shared/prns, for one signed-in user *)
(* with several tabs open on the same organisation or scheme.              *)
(*                                                                         *)
(* The selection, the cached notes and the confirmation live in the user's *)
(* session.  A request works on its own copy of the session, read before   *)
(* the handler runs and written back whole with the response (external:    *)
(* @hapi/yar over Redis), so what two requests of one session write can    *)
(* overwrite each other.  Between those two points the accept handler      *)
(* waits for the API: once for each note it re-reads and once for the bulk *)
(* update, and anything can happen meanwhile.                              *)
(***************************************************************************)
EXTENDS PrnBackend

CONSTANTS
    Tab,            \* the tabs (or double submits) of the user's one session
    QueryYears,     \* the ?year of the list
    AcceptedMaxAge  \* how many moments the confirmation is kept

ASSUME BulkAssumption ==
    /\ QueryYears \subseteq Nat \ {NoYear}
    /\ AcceptedMaxAge \in Nat

VARIABLES
    session,    \* the stored session
    shown,      \* shown[t]: the page tab t shows
    pc,         \* pc[t]: where tab t's request stands
    local,      \* local[t]: the request's copy of the session
    req,        \* req[t]: what was requested
    work        \* work[t]: the accept handler's local variables

tabVars == <<shown, pc, local, req, work>>
vars    == <<prn, clock, session, shown, pc, local, req, work>>

-------------------------------------------------------------------------------
(* The session keys of one organisation or scheme. `accepted` keeps the id  *)
(* of each note, which the code drops, beside the year it was accepted into. *)

EmptySession == [ids |-> {}, data |-> {}, query |-> NoYear,
                 accepted |-> {}, acceptedAt |-> 0]

AcceptedEntry == [id : Prn, year : Nat]

Session == [ids : SUBSET Prn, data : SUBSET Note, query : QueryYears \cup {NoYear},
            accepted : SUBSET AcceptedEntry, acceptedAt : Nat]

ClearSelected(s) == [s EXCEPT !.ids = {}, !.data = {}, !.query = NoYear]

ClearAccepted(s) == [s EXCEPT !.accepted = {}, !.acceptedAt = 0]

Ids(notes) == {n.id : n \in notes}

\* Slip: the notes are stored where their ids belong.
BugKeepNotesAsIds(s, notes) == [s EXCEPT !.ids = notes, !.data = notes]

KeepSelected(s, notes) == [s EXCEPT !.ids = Ids(notes), !.data = notes]

\* The year recorded for the confirmation is the single year each note offers.
SetAccepted(s, notes, at) ==
    [s EXCEPT !.accepted = {[id |-> n.id, year |-> SelectionYear({n}, at.month)] : n \in notes},
              !.acceptedAt = at.now]

\* The selected notes as the list cached them; an id without data is dropped.
Reviewed(s) == {n \in s.data : n.id \in s.ids}

IsSelectable(n, m) == IsEditable(n) /\ CanMultiSelect(n, m)

Selectable(notes, m) == {n \in notes : IsSelectable(n, m)}

-------------------------------------------------------------------------------
(* What a tab shows.  The last three stand for a redirect not yet followed,  *)
(* the not-found page and every other error page.                            *)

Pages == {"blank", "list", "review", "confirmation", "redirect", "notFound", "error"}

Shown == [page : Pages, prns : SUBSET Prn, year : Int]

Page(name) == [page |-> name, prns |-> {}, year |-> NoYear]

\* The list offers a box for each listed note that can be multi-selected.
ListPage(y) == [page |-> "list", year |-> y,
                prns |-> Ids({n \in ListedFor(y) : CanMultiSelect(n, clock.month)})]

ReviewPage(notes) == [page |-> "review", prns |-> Ids(notes), year |-> NoYear]

\* The year the confirmation names: the one all its notes share.  (Otherwise the
\* code prefers a ?year of the address, which this address is opened without.)
ConfirmationPage(entries) ==
    [page |-> "confirmation", prns |-> Ids(entries),
     year |-> IF \E y \in {e.year : e \in entries} : {e.year : e \in entries} = {y}
              THEN CHOOSE y \in {e.year : e \in entries} : TRUE
              ELSE ComplianceYear(clock.month)]

-------------------------------------------------------------------------------

Kinds == {"none", "listGet", "listPost", "reviewGet", "remove", "goBack", "accept",
          "acceptedGet"}

Request == [kind : Kinds, prns : SUBSET Prn, year : QueryYears \cup {NoYear}]

NoRequest == [kind |-> "none", prns |-> {}, year |-> NoYear]

\* The pages are addresses a user can open at any time; a form is posted from the
\* page that shows it.
Links == {[kind |-> k, prns |-> {}, year |-> NoYear] : k \in {"reviewGet", "acceptedGet"}}
           \cup {[kind |-> "listGet", prns |-> {}, year |-> y] : y \in QueryYears}

FormsOf(page) ==
    CASE page.page = "list" ->
           {[kind |-> "listPost", prns |-> S, year |-> page.year] : S \in SUBSET page.prns}
      [] page.page = "review" ->
           {[kind |-> k, prns |-> {}, year |-> NoYear] : k \in {"accept", "goBack"}}
             \cup {[kind |-> "remove", prns |-> {p}, year |-> NoYear] : p \in page.prns}
      [] OTHER -> {}

NoWork == [at |-> [now |-> 0, month |-> 0, from |-> 0], selected |-> {}, read |-> {},
           current |-> {}, answer |-> "none"]

Answers == {"none", "applied", "conflict", "notFound", "failed"}

Work == [at : Moment, selected : SUBSET Prn, read : SUBSET Prn,
         current : SUBSET Note, answer : Answers]

TypeOK ==
    /\ BackendTypeOK
    /\ session \in Session
    /\ shown \in [Tab -> Shown]
    /\ pc \in [Tab -> {"idle", "handler", "reading", "sending", "answered"}]
    /\ local \in [Tab -> Session]
    /\ req \in [Tab -> Request]
    /\ work \in [Tab -> Work]

Init ==
    /\ BackendInit
    /\ session = EmptySession
    /\ shown = [t \in Tab |-> Page("blank")]
    /\ pc = [t \in Tab |-> "idle"]
    /\ local = [t \in Tab |-> EmptySession]
    /\ req = [t \in Tab |-> NoRequest]
    /\ work = [t \in Tab |-> NoWork]

\* The session is read before the handler; the middleware in between waits for the
\* account service.
Begin(t) ==
    /\ pc[t] = "idle"
    /\ \E q \in Links \cup FormsOf(shown[t]) : req' = [req EXCEPT ![t] = q]
    /\ local' = [local EXCEPT ![t] = session]
    /\ pc' = [pc EXCEPT ![t] = "handler"]
    /\ UNCHANGED <<prn, clock, session, shown, work>>

\* The response: the request's copy of the session is written back whole, whether
\* the page is a view, a redirect or an error.
Respond(t, s, page) ==
    /\ session' = s
    /\ shown' = [shown EXCEPT ![t] = page]
    /\ pc' = [pc EXCEPT ![t] = "idle"]
    /\ local' = [local EXCEPT ![t] = EmptySession]
    /\ req' = [req EXCEPT ![t] = NoRequest]
    /\ work' = [work EXCEPT ![t] = NoWork]
    /\ UNCHANGED <<prn, clock>>

Handling(t, kind) == pc[t] = "handler" /\ req[t].kind = kind

\* Opening the list drops any earlier selection and confirmation.
ListGet(t) ==
    /\ Handling(t, "listGet")
    /\ Respond(t, ClearAccepted(ClearSelected(local[t])), ListPage(req[t].year))

StoreSelection(s, ids, y) ==
    [s EXCEPT !.ids = ids, !.data = {n \in ListedFor(y) : n.id \in ids}, !.query = y]

ListPost(t) ==
    /\ Handling(t, "listPost")
    /\ IF req[t].prns = {}
       THEN Respond(t, local[t], ListPage(req[t].year))
       ELSE Respond(t, StoreSelection(local[t], req[t].prns, req[t].year), Page("redirect"))

\* The review page is drawn from the session alone; what can no longer be selected
\* leaves the session too.
ReviewGet(t) ==
    /\ Handling(t, "reviewGet")
    /\ LET kept == Selectable(Reviewed(local[t]), clock.month)
           s    == KeepSelected(local[t], kept)
       IN IF kept = {} THEN Respond(t, ClearSelected(s), Page("redirect"))
                       ELSE Respond(t, s, ReviewPage(kept))

Remove(t) ==
    /\ Handling(t, "remove")
    /\ Respond(t, [local[t] EXCEPT !.ids = @ \ req[t].prns], Page("redirect"))

GoBack(t) ==
    /\ Handling(t, "goBack")
    /\ Respond(t, ClearSelected(local[t]), Page("redirect"))

Fresh(s) == clock.now - s.acceptedAt <= AcceptedMaxAge

\* Slip: the confirmation is dropped once it has been shown.
BugShowOnce(t) ==
    /\ Handling(t, "acceptedGet")
    /\ Respond(t, ClearAccepted(local[t]),
               IF local[t].accepted # {} /\ Fresh(local[t])
               THEN ConfirmationPage(local[t].accepted)
               ELSE Page("redirect"))

\* The confirmation survives a reload until it is too old.
AcceptedGet(t) ==
    /\ Handling(t, "acceptedGet")
    /\ IF local[t].accepted = {}
       THEN Respond(t, local[t], Page("redirect"))
       ELSE IF Fresh(local[t])
            THEN Respond(t, local[t], ConfirmationPage(local[t].accepted))
            ELSE Respond(t, ClearAccepted(local[t]), Page("redirect"))

-------------------------------------------------------------------------------
(* Accepting. One clock reading serves the whole request.                    *)

AcceptStart(t) ==
    /\ Handling(t, "accept")
    /\ work' = [work EXCEPT ![t] = [NoWork EXCEPT !.at = clock, !.selected = local[t].ids]]
    /\ pc' = [pc EXCEPT ![t] = "reading"]
    /\ UNCHANGED <<prn, clock, session, shown, local, req>>

ToRead(t) == Ids(Reviewed(local[t])) \ work[t].read

\* One selected note is read again; one that no longer exists yields nothing.
ReadCurrent(t, p) ==
    /\ pc[t] = "reading"
    /\ p \in ToRead(t)
    /\ work' = [work EXCEPT ![t].read = @ \cup {p},
                            ![t].current = IF prn[p].status = "Gone" THEN @
                                                                     ELSE @ \cup {prn[p]}]
    /\ UNCHANGED <<prn, clock, session, shown, pc, local, req>>

\* Any other failed read ends the request before the session is touched.
ReadFails(t) ==
    /\ pc[t] = "reading"
    /\ ToRead(t) # {}
    /\ Respond(t, local[t], Page("error"))

ReadsDone(t) == pc[t] = "reading" /\ ToRead(t) = {}

\* Slip: the re-read notes are not filtered by whether they can still be accepted.
BugKeepEveryNoteRead(t) == work[t].current

\* What the re-read leaves of the selection.
StillSelectable(t) == Selectable(work[t].current, work[t].at.month)

Pruned(t) == KeepSelected(local[t], StillSelectable(t))

Missing(t) == work[t].read # Ids(work[t].current)

WholeSelection(t) == Ids(StillSelectable(t)) = work[t].selected

\* Slip: accepted into any year will do.
BugAcceptedForAnyYear(t) ==
    /\ \A n \in Reviewed(local[t]) : IsEditable(n)
    /\ Ids(work[t].current) = work[t].selected
    /\ \A n \in work[t].current : n.status = "Accepted"

\* An earlier request already accepted this selection into the year this one
\* would use, worked out from the notes as they were reviewed.
IsAcceptedForYear(t) ==
    LET reviewed == Reviewed(local[t])
        year     == SelectionYear(reviewed, work[t].at.month)
    IN /\ year # NoYear
       /\ \A n \in reviewed : IsEditable(n)
       /\ Ids(work[t].current) = work[t].selected
       /\ \A n \in work[t].current : n.status = "Accepted" /\ n.year = year

Confirmed(s, notes, at) == ClearSelected(SetAccepted(s, notes, at))

SentYear(t) == SelectionYear(StillSelectable(t), work[t].at.month)

\* Slip: what is still selectable is accepted, though it is less than was reviewed.
BugAcceptTheRest(t) == StillSelectable(t) # {} /\ SentYear(t) # NoYear

\* The whole reviewed selection can still be accepted into one year.
MaySend(t) == WholeSelection(t) /\ SentYear(t) # NoYear

AcceptNothingSelected(t) ==
    /\ ReadsDone(t)
    /\ work[t].selected = {}
    /\ Respond(t, ClearSelected(Pruned(t)), Page("redirect"))

AcceptMissing(t) ==
    /\ ReadsDone(t)
    /\ work[t].selected # {} /\ Missing(t)
    /\ Respond(t, ClearSelected(Pruned(t)), Page("notFound"))

AcceptAlreadyDone(t) ==
    /\ ReadsDone(t)
    /\ work[t].selected # {} /\ ~Missing(t) /\ ~WholeSelection(t)
    /\ IsAcceptedForYear(t)
    /\ Respond(t, Confirmed(Pruned(t), Reviewed(local[t]), work[t].at), Page("redirect"))

\* Refused: the selection changed since it was reviewed, or has no single year.
AcceptRefused(t) ==
    /\ ReadsDone(t)
    /\ work[t].selected # {} /\ ~Missing(t)
    /\ ~MaySend(t) /\ ~(~WholeSelection(t) /\ IsAcceptedForYear(t))
    /\ Respond(t, Pruned(t), Page("error"))

AcceptSend(t) ==
    /\ ReadsDone(t)
    /\ work[t].selected # {} /\ ~Missing(t)
    /\ MaySend(t)
    /\ local' = [local EXCEPT ![t] = Pruned(t)]
    /\ pc' = [pc EXCEPT ![t] = "sending"]
    /\ UNCHANGED <<prn, clock, session, shown, req, work>>

\* The API takes the update: it applies it and says so, refuses it, or the answer
\* is an error or is lost, whether or not the update was applied.
BulkYear(t) == SelectionYear(local[t].data, work[t].at.month)

Answer(t, a) ==
    /\ work' = [work EXCEPT ![t].answer = a]
    /\ pc' = [pc EXCEPT ![t] = "answered"]
    /\ UNCHANGED <<clock, session, shown, local, req>>

ApiApplies(t) ==
    /\ pc[t] = "sending"
    /\ MayUpdate(local[t].ids, BulkYear(t))
    /\ AcceptAll(local[t].ids, BulkYear(t))
    /\ \E a \in {"applied", "failed"} : Answer(t, a)

ApiRefuses(t) ==
    /\ pc[t] = "sending"
    /\ UNCHANGED prn
    /\ \E a \in {"conflict", "notFound", "failed"} :
          /\ a = "conflict" => ~AllAwaiting(local[t].ids) /\ BulkYear(t) # NoYear
          /\ a = "notFound" => SomeGone(local[t].ids)
          /\ Answer(t, a)

\* A refusal that means the selection no longer matches the notes clears it; any
\* other failure keeps it for another try.
AcceptAnswered(t) ==
    /\ pc[t] = "answered"
    /\ CASE work[t].answer = "applied" ->
              Respond(t, Confirmed(local[t], local[t].data, work[t].at), Page("redirect"))
         [] work[t].answer = "conflict" ->
              Respond(t, ClearSelected(local[t]), Page("error"))
         [] work[t].answer = "notFound" ->
              Respond(t, ClearSelected(local[t]), Page("notFound"))
         [] OTHER -> Respond(t, local[t], Page("error"))

Handle(t) ==
    \/ ListGet(t) \/ ListPost(t) \/ ReviewGet(t) \/ Remove(t) \/ GoBack(t)
    \/ AcceptedGet(t) \/ AcceptStart(t)

AcceptStep(t) ==
    \/ \E p \in Prn : ReadCurrent(t, p)
    \/ ReadFails(t)
    \/ AcceptNothingSelected(t) \/ AcceptMissing(t) \/ AcceptAlreadyDone(t)
    \/ AcceptRefused(t) \/ AcceptSend(t)
    \/ ApiApplies(t) \/ ApiRefuses(t)
    \/ AcceptAnswered(t)

ServerStep(t) == Handle(t) \/ AcceptStep(t)

Others == Environment /\ UNCHANGED <<session, shown, pc, local, req, work>>

Next == Others \/ \E t \in Tab : Begin(t) \/ ServerStep(t)

Spec == Init /\ [][Next]_vars

-------------------------------------------------------------------------------

\* The confirmation can be trusted: every note it lists, in the session or on a
\* page, is accepted, and into the year it names.
EntriesTrue(entries) ==
    \A e \in entries : prn[e.id].status = "Accepted" /\ prn[e.id].year = e.year

ConfirmationTruthful ==
    /\ EntriesTrue(session.accepted)
    /\ \A t \in Tab : shown[t].page = "confirmation" =>
          \A p \in shown[t].prns : prn[p].status = "Accepted" /\ prn[p].year = shown[t].year

\* All or nothing: what is sent is the whole selection the handler found when it
\* started, every note of it re-read as awaiting acceptance since, and the year
\* sent is the only one each of them offered at the request's clock reading.
SendsWholeReviewedSelection ==
    \A t \in Tab : pc[t] = "sending" =>
        /\ local[t].ids = work[t].selected /\ work[t].selected # {}
        /\ Ids(local[t].data) = work[t].selected
        /\ \A n \in local[t].data :
              IsEditable(n) /\ AvailableYears(n, work[t].at.month) = {BulkYear(t)}

\* "accept nothing rather than a different set from the one the user checked":
\* what is sent is what the review page in front of the user lists.
AcceptsWhatWasChecked ==
    \A t \in Tab : pc[t] = "sending" => local[t].ids = shown[t].prns

\* A confirmation stays "until older than ACCEPTED_PRNS_MAX_AGE_MS", until "the
\* PRNs list is opened", or until "replaced by the next bulk accept".
OnlyListOrAgeDropsConfirmation ==
    [][(session.accepted # {} /\ session'.accepted = {})
         => (~Fresh(session) \/ \E t \in Tab : ListGet(t))]_vars

\* The journey's steps are steps of the ledger or leave it alone.
Ledger == INSTANCE PrnLedger

LedgerKept == Ledger!LedgerSpec
===============================================================================
