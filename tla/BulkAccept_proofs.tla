--------------------------- MODULE BulkAccept_proofs ---------------------------
(***************************************************************************)
(* What the bulk journey guarantees for any set of notes, issued for any   *)
(* year, any number of tabs, and any calendar: its types, that what is     *)
(* sent is one whole re-read selection, that no confirmation lies, and     *)
(* that every step is a step of the ledger; and, for a single tab, that it *)
(* is what the user checked and that the confirmation stays.               *)
(***************************************************************************)
EXTENDS BulkAccept, PrnBackend_proofs

-------------------------------------------------------------------------------
(* Types.                                                                    *)

\* The requests a tab may make are requests.
LEMMA RequestTyping ==
  ASSUME NEW page \in Shown, page.year \in QueryYears \cup {NoYear} \/ page.page # "list",
         NEW q \in Links \cup FormsOf(page)
  PROVE  q \in Request
<1>1. CASE q \in Links
  BY <1>1, BulkAssumption DEF Links, Request, Kinds
<1>2. CASE q \in FormsOf(page)
  <2>1. CASE page.page = "list"
    BY <1>2, <2>1 DEF FormsOf, Shown, Request, Kinds
  <2>2. CASE page.page = "review"
    BY <1>2, <2>2 DEF FormsOf, Shown, Request, Kinds
  <2>3. CASE page.page \notin {"list", "review"}
    BY <1>2, <2>3 DEF FormsOf
  <2>. QED  BY <2>1, <2>2, <2>3
<1>. QED  BY <1>1, <1>2

LEMMA SessionTyping ==
  ASSUME NEW s \in Session, NEW notes \in SUBSET Note, NEW at \in Moment
  PROVE  /\ EmptySession \in Session
         /\ ClearSelected(s) \in Session /\ ClearAccepted(s) \in Session
         /\ Ids(notes) \in SUBSET Prn /\ KeepSelected(s, notes) \in Session
         /\ SetAccepted(s, notes, at) \in Session
         /\ Reviewed(s) \in SUBSET Note
<1>1. EmptySession \in Session /\ ClearSelected(s) \in Session /\ ClearAccepted(s) \in Session
  BY DEF EmptySession, ClearSelected, ClearAccepted, Session
<1>2. Ids(notes) \in SUBSET Prn
  BY DEF Ids, Note
<1>3. KeepSelected(s, notes) \in Session
  BY <1>2 DEF KeepSelected, Session
<1>4. SetAccepted(s, notes, at) \in Session
  <2>1. \A n \in notes : SelectionYear({n}, at.month) \in Nat
    BY SelectionYearTyping DEF Moment
  <2>2. {[id |-> n.id, year |-> SelectionYear({n}, at.month)] : n \in notes}
          \in SUBSET AcceptedEntry
    <3>1. ASSUME NEW n \in notes
          PROVE  [id |-> n.id, year |-> SelectionYear({n}, at.month)] \in AcceptedEntry
      <4>1. n.id \in Prn
        BY DEF Note
      <4>2. SelectionYear({n}, at.month) \in Nat
        BY <2>1
      <4>. QED  BY <4>1, <4>2 DEF AcceptedEntry
    <3>. QED  BY <3>1
  <2>. QED  BY <2>2 DEF SetAccepted, Session, Moment
<1>5. Reviewed(s) \in SUBSET Note
  BY DEF Reviewed, Session
<1>. QED  BY <1>1, <1>2, <1>3, <1>4, <1>5

\* TypeOK is inductive once the list, shown or asked for, is for a year that can be
\* asked for.
ListYears ==
    \A t \in Tab :
        /\ shown[t].page = "list" => shown[t].year \in QueryYears
        /\ req[t].kind \in {"listGet", "listPost"} => req[t].year \in QueryYears

Types == TypeOK /\ ListYears

PageShown(page) == page \in Shown /\ (page.page = "list" => page.year \in QueryYears)

LEMMA PageTyping ==
  ASSUME Types
  PROVE  /\ \A name \in Pages \ {"list"} : PageShown(Page(name))
         /\ \A y \in QueryYears : PageShown(ListPage(y))
         /\ \A notes \in SUBSET Note : PageShown(ReviewPage(notes))
         /\ \A entries \in SUBSET AcceptedEntry : PageShown(ConfirmationPage(entries))
<1>1. ComplianceYear(clock.month) \in Int
  <2>1. clock.month \in Nat
    BY DEF Types, TypeOK, BackendTypeOK, Moment
  <2>. QED  BY <2>1 DEF ComplianceYear, UkYear
<1>2. \A name \in Pages \ {"list"} : PageShown(Page(name))
  BY DEF PageShown, Page, Shown, NoYear
<1>3. ASSUME NEW y \in QueryYears PROVE PageShown(ListPage(y))
  <2>1. ListedFor(y) \in SUBSET Note
    BY DEF ListedFor, Types, TypeOK, BackendTypeOK
  <2>2. ListPage(y).prns \in SUBSET Prn
    BY <2>1 DEF ListPage, Ids, Note
  <2>. QED  BY <2>2, BulkAssumption DEF ListPage, PageShown, Shown, Pages
<1>4. ASSUME NEW notes \in SUBSET Note PROVE PageShown(ReviewPage(notes))
  BY DEF ReviewPage, PageShown, Shown, Pages, Ids, Note, NoYear
<1>5. ASSUME NEW entries \in SUBSET AcceptedEntry PROVE PageShown(ConfirmationPage(entries))
  <2>1. ConfirmationPage(entries).year \in Int
    BY <1>1 DEF ConfirmationPage, AcceptedEntry
  <2>. QED  BY <2>1 DEF ConfirmationPage, PageShown, Shown, Pages, Ids, AcceptedEntry
<1>. QED  BY <1>2, <1>3, <1>4, <1>5

LEMMA RespondTyping ==
  ASSUME Types, NEW t \in Tab, NEW s \in Session, NEW page, PageShown(page),
         Respond(t, s, page)
  PROVE  Types'
<1>1. EmptySession \in Session
  BY DEF EmptySession, Session
<1>2. NoRequest \in Request
  BY DEF NoRequest, Request, Kinds
<1>3. NoWork \in Work
  BY DEF NoWork, Work, Moment, Answers
<1>4. BackendTypeOK'
  BY DEF Respond, Types, TypeOK, BackendTypeOK
<1>5. TypeOK'
  BY <1>1, <1>2, <1>3, <1>4 DEF Respond, Types, TypeOK, PageShown
<1>6. ListYears'
  BY DEF Respond, Types, TypeOK, ListYears, PageShown, NoRequest
<1>. QED  BY <1>5, <1>6 DEF Types

LEMMA EnvironmentTyping ==
  ASSUME Types, Others
  PROVE  Types'
<1>1. BackendTypeOK'
  BY BackendEnvironmentTyping DEF Others, Types, TypeOK
<1>2. TypeOK'
  BY <1>1 DEF Others, Types, TypeOK
<1>3. ListYears'
  BY DEF Others, Types, ListYears
<1>. QED  BY <1>2, <1>3 DEF Types

\* Every request keeps the types, whatever it answers.
LEMMA HandleTyping ==
  ASSUME Types, NEW t \in Tab, Handle(t)
  PROVE  Types'
<1>. DEFINE s == local[t]
<1>0. /\ s \in Session /\ req[t] \in Request /\ clock \in Moment
  BY DEF Types, TypeOK, BackendTypeOK
<1>1. \A q \in {"listGet", "listPost"} : req[t].kind = q => PageShown(ListPage(req[t].year))
  BY PageTyping DEF Types, ListYears
<1>2. CASE ListGet(t)
  <2>1. ClearAccepted(ClearSelected(s)) \in Session
    BY <1>0, SessionTyping
  <2>. QED  BY <1>1, <1>2, <2>1, RespondTyping DEF ListGet, Handling
<1>3. CASE ListPost(t)
  <2>1. CASE req[t].prns = {}
    BY <1>0, <1>1, <1>3, <2>1, RespondTyping DEF ListPost, Handling
  <2>2. CASE req[t].prns # {}
    <3>1. ListedFor(req[t].year) \in SUBSET Note
      BY DEF ListedFor, Types, TypeOK, BackendTypeOK
    <3>2. StoreSelection(s, req[t].prns, req[t].year) \in Session
      BY <1>0, <3>1 DEF StoreSelection, Session, Request
    <3>3. PageShown(Page("redirect"))
      BY PageTyping DEF Pages
    <3>. QED  BY <1>3, <2>2, <3>2, <3>3, RespondTyping DEF ListPost
  <2>. QED  BY <2>1, <2>2
<1>4. CASE ReviewGet(t)
  <2>. DEFINE kept == Selectable(Reviewed(s), clock.month)
  <2>1. kept \in SUBSET Note
    BY <1>0, SessionTyping DEF Selectable
  <2>2. KeepSelected(s, kept) \in Session /\ ClearSelected(KeepSelected(s, kept)) \in Session
    BY <1>0, <2>1, SessionTyping
  <2>3. PageShown(ReviewPage(kept)) /\ PageShown(Page("redirect"))
    BY <2>1, PageTyping DEF Pages
  <2>4. CASE kept = {}
    BY <1>4, <2>2, <2>3, <2>4, RespondTyping DEF ReviewGet
  <2>5. CASE kept # {}
    BY <1>4, <2>2, <2>3, <2>5, RespondTyping DEF ReviewGet
  <2>. QED  BY <2>4, <2>5
<1>5. CASE Remove(t)
  <2>1. [s EXCEPT !.ids = @ \ req[t].prns] \in Session
    BY <1>0 DEF Session
  <2>2. PageShown(Page("redirect"))
    BY PageTyping DEF Pages
  <2>. QED  BY <1>5, <2>1, <2>2, RespondTyping DEF Remove
<1>6. CASE GoBack(t)
  <2>1. PageShown(Page("redirect"))
    BY PageTyping DEF Pages
  <2>. QED  BY <1>0, <1>6, <2>1, SessionTyping, RespondTyping DEF GoBack
<1>7. CASE AcceptedGet(t)
  <2>1. PageShown(Page("redirect")) /\ PageShown(ConfirmationPage(s.accepted))
    BY <1>0, PageTyping DEF Pages, Session
  <2>2. ClearAccepted(s) \in Session
    BY <1>0, SessionTyping
  <2>3. CASE s.accepted = {}
    BY <1>0, <1>7, <2>1, <2>3, RespondTyping DEF AcceptedGet
  <2>4. CASE s.accepted # {} /\ Fresh(s)
    BY <1>0, <1>7, <2>1, <2>4, RespondTyping DEF AcceptedGet
  <2>5. CASE s.accepted # {} /\ ~Fresh(s)
    BY <1>7, <2>1, <2>2, <2>5, RespondTyping DEF AcceptedGet
  <2>. QED  BY <2>3, <2>4, <2>5
<1>8. CASE AcceptStart(t)
  <2>1. work'[t] = [NoWork EXCEPT !.at = clock, !.selected = s.ids]
    BY <1>8 DEF AcceptStart, Types, TypeOK
  <2>2. work'[t] \in Work
    BY <1>0, <2>1 DEF NoWork, Work, Session, Answers
  <2>3. TypeOK'
    BY <1>8, <2>1, <2>2 DEF AcceptStart, Types, TypeOK, BackendTypeOK
  <2>4. ListYears'
    BY <1>8 DEF AcceptStart, Types, ListYears
  <2>. QED  BY <2>3, <2>4 DEF Types
<1>. QED  BY <1>2, <1>3, <1>4, <1>5, <1>6, <1>7, <1>8 DEF Handle

LEMMA BeginTyping ==
  ASSUME Types, NEW t \in Tab, Begin(t)
  PROVE  Types'
<1>1. PICK q \in Links \cup FormsOf(shown[t]) : req' = [req EXCEPT ![t] = q]
  BY DEF Begin
<1>2. shown[t] \in Shown /\ (shown[t].page = "list" => shown[t].year \in QueryYears)
  BY DEF Types, TypeOK, ListYears
<1>3. q \in Request
  BY <1>2, RequestTyping
<1>4. q.kind \in {"listGet", "listPost"} => q.year \in QueryYears
  <2>1. CASE q \in Links
    BY <2>1 DEF Links
  <2>2. CASE q \in FormsOf(shown[t])
    <3>1. CASE shown[t].page = "list"
      BY <1>2, <2>2, <3>1 DEF FormsOf
    <3>2. CASE shown[t].page = "review"
      BY <2>2, <3>2 DEF FormsOf
    <3>3. CASE shown[t].page \notin {"list", "review"}
      BY <2>2, <3>3 DEF FormsOf
    <3>. QED  BY <3>1, <3>2, <3>3
  <2>. QED  BY <2>1, <2>2
<1>5. TypeOK'
  BY <1>1, <1>3 DEF Begin, Types, TypeOK, BackendTypeOK
<1>6. ListYears'
  BY <1>1, <1>4 DEF Begin, Types, TypeOK, ListYears
<1>. QED  BY <1>5, <1>6 DEF Types

LEMMA PrunedTyping ==
  ASSUME Types, NEW t \in Tab
  PROVE  /\ local[t] \in Session /\ work[t] \in Work
         /\ StillSelectable(t) \in SUBSET Note
         /\ Pruned(t) \in Session
         /\ ClearSelected(Pruned(t)) \in Session
         /\ ClearSelected(local[t]) \in Session
         /\ Confirmed(Pruned(t), Reviewed(local[t]), work[t].at) \in Session
         /\ Confirmed(local[t], local[t].data, work[t].at) \in Session
<1>1. local[t] \in Session /\ work[t] \in Work
  BY DEF Types, TypeOK
<1>2. work[t].at \in Moment /\ work[t].current \in SUBSET Note /\ local[t].data \in SUBSET Note
  BY <1>1 DEF Work, Session
<1>3. StillSelectable(t) \in SUBSET Note
  BY <1>2 DEF StillSelectable, Selectable
<1>4. Reviewed(local[t]) \in SUBSET Note
  BY <1>1 DEF Reviewed, Session
<1>5. Pruned(t) \in Session
  BY <1>1, <1>2, <1>3, SessionTyping DEF Pruned
<1>6. ClearSelected(Pruned(t)) \in Session /\ ClearSelected(local[t]) \in Session
  BY <1>1, <1>2, <1>3, <1>5, SessionTyping
<1>7. /\ SetAccepted(Pruned(t), Reviewed(local[t]), work[t].at) \in Session
      /\ SetAccepted(local[t], local[t].data, work[t].at) \in Session
  BY <1>1, <1>2, <1>4, <1>5, SessionTyping
<1>8. /\ ClearSelected(SetAccepted(Pruned(t), Reviewed(local[t]), work[t].at)) \in Session
      /\ ClearSelected(SetAccepted(local[t], local[t].data, work[t].at)) \in Session
  BY <1>2, <1>7, SessionTyping
<1>. QED  BY <1>1, <1>3, <1>5, <1>6, <1>8 DEF Confirmed

LEMMA AnswerTyping ==
  ASSUME Types, NEW t \in Tab, NEW a \in Answers, Answer(t, a), BackendTypeOK'
  PROVE  Types'
<1>1. [work[t] EXCEPT !.answer = a] \in Work
  BY DEF Types, TypeOK, Work
<1>2. work' \in [Tab -> Work]
  BY <1>1 DEF Answer, Types, TypeOK
<1>3. TypeOK'
  BY <1>2 DEF Answer, Types, TypeOK
<1>4. ListYears'
  BY DEF Answer, Types, ListYears
<1>. QED  BY <1>3, <1>4 DEF Types

LEMMA AcceptTyping ==
  ASSUME Types, NEW t \in Tab, AcceptStep(t)
  PROVE  Types'
<1>0. /\ PageShown(Page("redirect")) /\ PageShown(Page("error"))
      /\ PageShown(Page("notFound"))
  BY PageTyping DEF Pages
<1>1. ASSUME NEW p \in Prn, ReadCurrent(t, p) PROVE Types'
  <2>. DEFINE now == IF prn[p].status = "Gone" THEN work[t].current
                                              ELSE work[t].current \cup {prn[p]}
  <2>1. work[t] \in Work /\ prn[p] \in Note
    BY DEF Types, TypeOK, BackendTypeOK
  <2>2. work'[t] = [work[t] EXCEPT !.read = work[t].read \cup {p}, !.current = now]
    BY <1>1 DEF ReadCurrent, Types, TypeOK
  <2>3. now \in SUBSET Note
    BY <2>1 DEF Work
  <2>4. work'[t] \in Work
    <3>. HIDE DEF now
    <3>1. work[t].read \cup {p} \in SUBSET Prn
      BY <2>1 DEF Work
    <3>. QED  BY <2>1, <2>2, <2>3, <3>1 DEF Work
  <2>5. TypeOK'
    BY <1>1, <2>4 DEF ReadCurrent, Types, TypeOK, BackendTypeOK
  <2>6. ListYears'
    BY <1>1 DEF ReadCurrent, Types, ListYears
  <2>. QED  BY <2>5, <2>6 DEF Types
<1>2. CASE ReadFails(t)
  BY <1>0, <1>2, PrunedTyping, RespondTyping DEF ReadFails
<1>3. CASE AcceptNothingSelected(t)
  BY <1>0, <1>3, PrunedTyping, RespondTyping DEF AcceptNothingSelected
<1>4. CASE AcceptMissing(t)
  BY <1>0, <1>4, PrunedTyping, RespondTyping DEF AcceptMissing
<1>5. CASE AcceptAlreadyDone(t)
  BY <1>0, <1>5, PrunedTyping, RespondTyping DEF AcceptAlreadyDone
<1>6. CASE AcceptRefused(t)
  BY <1>0, <1>6, PrunedTyping, RespondTyping DEF AcceptRefused
<1>7. CASE AcceptSend(t)
  <2>1. TypeOK'
    BY <1>7, PrunedTyping DEF AcceptSend, Types, TypeOK, BackendTypeOK
  <2>2. ListYears'
    BY <1>7 DEF AcceptSend, Types, ListYears
  <2>. QED  BY <2>1, <2>2 DEF Types
<1>8. CASE ApiApplies(t)
  <2>1. BulkYear(t) \in Nat
    BY SelectionYearTyping DEF BulkYear, Types, TypeOK, Session, Work, Moment
  <2>2. PICK a \in {"applied", "failed"} : Answer(t, a)
    BY <1>8 DEF ApiApplies
  <2>3. BackendTypeOK'
    BY <1>8, <2>1, <2>2, AcceptAllTyping DEF ApiApplies, Answer, Types, TypeOK
  <2>. QED  BY <2>2, <2>3, AnswerTyping DEF Answers
<1>9. CASE ApiRefuses(t)
  <2>1. PICK a \in {"conflict", "notFound", "failed"} : Answer(t, a)
    BY <1>9 DEF ApiRefuses
  <2>2. BackendTypeOK'
    BY <1>9, <2>1 DEF ApiRefuses, Answer, Types, TypeOK, BackendTypeOK
  <2>. QED  BY <2>1, <2>2, AnswerTyping DEF Answers
<1>10. CASE AcceptAnswered(t)
  <2>1. CASE work[t].answer = "applied"
    BY <1>0, <1>10, <2>1, PrunedTyping, RespondTyping DEF AcceptAnswered
  <2>2. CASE work[t].answer = "conflict"
    BY <1>0, <1>10, <2>2, PrunedTyping, RespondTyping DEF AcceptAnswered
  <2>3. CASE work[t].answer = "notFound"
    BY <1>0, <1>10, <2>3, PrunedTyping, RespondTyping DEF AcceptAnswered
  <2>4. CASE work[t].answer \notin {"applied", "conflict", "notFound"}
    BY <1>0, <1>10, <2>4, PrunedTyping, RespondTyping DEF AcceptAnswered
  <2>. QED  BY <2>1, <2>2, <2>3, <2>4
<1>. QED
  BY <1>1, <1>2, <1>3, <1>4, <1>5, <1>6, <1>7, <1>8, <1>9, <1>10 DEF AcceptStep

LEMMA InitTyping == Init => Types
<1>. SUFFICES ASSUME Init PROVE Types
  OBVIOUS
<1>1. BackendTypeOK
  BY BackendInitTyping DEF Init
<1>3. EmptySession \in Session
  BY DEF EmptySession, Session
<1>4. Page("blank") \in Shown
  BY DEF Page, Shown, Pages, NoYear
<1>5. NoRequest \in Request /\ NoWork \in Work
  BY DEF NoRequest, Request, Kinds, NoWork, Work, Moment, Answers
<1>6. TypeOK
  BY <1>1, <1>3, <1>4, <1>5 DEF Init, TypeOK
<1>7. ListYears
  BY DEF Init, ListYears, Page, NoRequest
<1>. QED  BY <1>6, <1>7 DEF Types

\* The types hold, whatever the notes, tabs and calendar are.
THEOREM Typing == Spec => []TypeOK
<1>1. Init => Types
  BY InitTyping
<1>2. Types /\ [Next]_vars => Types'
  <2>. SUFFICES ASSUME Types, [Next]_vars PROVE Types'
    OBVIOUS
  <2>1. CASE Others
    BY <2>1, EnvironmentTyping
  <2>2. ASSUME NEW t \in Tab, Begin(t) PROVE Types'
    BY <2>2, BeginTyping
  <2>3. ASSUME NEW t \in Tab, ServerStep(t) PROVE Types'
    BY <2>3, HandleTyping, AcceptTyping DEF ServerStep
  <2>4. CASE UNCHANGED vars
    BY <2>4 DEF vars, Types, TypeOK, BackendTypeOK, ListYears
  <2>. QED  BY <2>1, <2>2, <2>3, <2>4 DEF Next
<1>3. Types => TypeOK
  BY DEF Types
<1>. QED  BY <1>1, <1>2, <1>3, PTL DEF Spec

-------------------------------------------------------------------------------
(* The invariant.  What has been accepted stays as it is (Onward), so what a *)
(* request, a session or a page knows of it stays true; a note that awaits   *)
(* acceptance is as it was issued, so a cached copy of it is too.            *)

Issued(p) == [id |-> p, status |-> "AwaitingAcceptance", year |-> IssuedYear[p],
              decemberWaste |-> p \in DecemberWaste]

AsIssued(n) == IsEditable(n) => n = Issued(n.id)

Settled(p, y) == prn[p].status = "Accepted" /\ prn[p].year = y

\* The notes a session keeps are as issued, and those it confirms are accepted
\* into one year.
SessionTrue(s) ==
    /\ \A n \in s.data : AsIssued(n)
    /\ \A e \in s.accepted : Settled(e.id, e.year)
    /\ \A d, e \in s.accepted : d.year = e.year

PageTrue(page) ==
    page.page = "confirmation" => \A p \in page.prns : Settled(p, page.year)

\* The accept handler works at a moment since the journey opened.
AtOpen(t) == clock.from <= work[t].at.month /\ work[t].at.month <= clock.month

Reading(t) ==
    pc[t] = "reading" =>
        /\ work[t].selected = local[t].ids
        /\ \A n \in work[t].current :
              AsIssued(n) /\ (n.status = "Accepted" => prn[n.id] = n)
        /\ AtOpen(t)

Sending(t) ==
    pc[t] \in {"sending", "answered"} =>
        /\ local[t].ids = work[t].selected /\ work[t].selected # {}
        /\ Ids(local[t].data) = work[t].selected
        /\ \A n \in local[t].data : IsEditable(n)
        /\ BulkYear(t) # NoYear
        /\ AtOpen(t)

Applied(t) ==
    (pc[t] = "answered" /\ work[t].answer = "applied")
      => \A p \in local[t].ids : Settled(p, BulkYear(t))

RequestTrue(t) ==
    /\ SessionTrue(local[t])
    /\ PageTrue(shown[t])
    /\ Reading(t) /\ Sending(t) /\ Applied(t)

IInv ==
    /\ Types
    /\ \A p \in Prn : AsIssued(prn[p])
    /\ SessionTrue(session)
    /\ \A t \in Tab : RequestTrue(t)

-------------------------------------------------------------------------------
(* What every step leaves true of the requests it is not about.              *)

\* Accepted notes stay as they are, and the calendar does not turn back.
Onward ==
    /\ \A p \in Prn : prn[p].status = "Accepted" => prn'[p] = prn[p]
    /\ clock'.from = clock.from /\ clock.month <= clock'.month

LEMMA SettledStays ==
  ASSUME Onward, NEW p \in Prn, NEW y, Settled(p, y)
  PROVE  Settled(p, y)'
BY DEF Onward, Settled

LEMMA SessionStays ==
  ASSUME Onward, NEW s \in Session, SessionTrue(s)
  PROVE  SessionTrue(s)'
<1>1. \A e \in s.accepted : e.id \in Prn
  BY DEF Session, AcceptedEntry
<1>2. \A e \in s.accepted : Settled(e.id, e.year)'
  BY <1>1, SettledStays DEF SessionTrue
<1>. QED  BY <1>2 DEF SessionTrue

LEMMA PageStays ==
  ASSUME Onward, NEW page \in Shown, PageTrue(page)
  PROVE  PageTrue(page)'
<1>1. page.prns \subseteq Prn
  BY DEF Shown
<1>. QED  BY <1>1, SettledStays DEF PageTrue

LEMMA RequestStays ==
  ASSUME IInv, Onward, NEW t \in Tab, Types',
         shown'[t] = shown[t], pc'[t] = pc[t], local'[t] = local[t], work'[t] = work[t]
  PROVE  RequestTrue(t)'
<1>0. /\ local[t] \in Session /\ shown[t] \in Shown /\ work[t] \in Work
      /\ clock \in Moment /\ clock' \in Moment
  BY DEF IInv, Types, TypeOK, BackendTypeOK
<1>1. SessionTrue(local[t])'
  BY <1>0, SessionStays DEF IInv, RequestTrue, SessionTrue
<1>2. PageTrue(shown[t])'
  BY <1>0, PageStays DEF IInv, RequestTrue, PageTrue
<1>3. AtOpen(t) => AtOpen(t)'
  <2>1. clock'.from = clock.from /\ clock.month <= clock'.month
    BY DEF Onward
  <2>2. work[t].at.month \in Nat /\ clock.month \in Nat /\ clock'.month \in Nat
    BY <1>0 DEF Work, Moment
  <2>. QED  BY <2>1, <2>2 DEF AtOpen
<1>4. BulkYear(t)' = BulkYear(t)
  BY DEF BulkYear
<1>5. Reading(t)'
  <2>. SUFFICES ASSUME pc[t] = "reading"
                PROVE  /\ work[t].selected = local[t].ids
                       /\ \A n \in work[t].current :
                             AsIssued(n) /\ (n.status = "Accepted" => prn'[n.id] = n)
                       /\ AtOpen(t)'
    BY DEF Reading
  <2>1. Reading(t)
    BY DEF IInv, RequestTrue
  <2>2. \A n \in work[t].current : n.id \in Prn
    BY <1>0 DEF Work, Note
  <2>. QED  BY <1>3, <2>1, <2>2 DEF Reading, Onward
<1>6. Sending(t)'
  BY <1>3, <1>4 DEF IInv, RequestTrue, Sending
<1>7. Applied(t)'
  <2>1. local[t].ids \subseteq Prn
    BY <1>0 DEF Session
  <2>2. Applied(t)
    BY DEF IInv, RequestTrue
  <2>. SUFFICES ASSUME pc[t] = "answered", work[t].answer = "applied", NEW p \in local[t].ids
                PROVE  Settled(p, BulkYear(t))'
    BY DEF Applied
  <2>3. Settled(p, BulkYear(t))
    BY <2>2 DEF Applied
  <2>. QED  BY <1>4, <2>1, <2>3 DEF Onward, Settled
<1>. QED  BY <1>1, <1>2, <1>5, <1>6, <1>7 DEF RequestTrue

\* A response is sound when its session and its page are.
LEMMA RespondTrue ==
  ASSUME IInv, NEW t \in Tab, NEW s \in Session, NEW page, PageShown(page),
         Respond(t, s, page), SessionTrue(s), PageTrue(page)
  PROVE  IInv'
<1>1. Types'
  BY RespondTyping DEF IInv
<1>2. Onward
  <2>1. clock.month \in Nat
    BY DEF IInv, Types, TypeOK, BackendTypeOK, Moment
  <2>. QED  BY <2>1 DEF Respond, Onward
<1>3. \A p \in Prn : AsIssued(prn[p])'
  BY DEF IInv, Respond, AsIssued
<1>4. SessionTrue(session)'
  BY <1>2, SessionStays DEF Respond, SessionTrue
<1>5. ASSUME NEW u \in Tab PROVE RequestTrue(u)'
  <2>1. CASE u # t
    BY <1>1, <1>2, <2>1, RequestStays DEF Respond, IInv, Types, TypeOK
  <2>2. CASE u = t
    <3>1. /\ shown'[t] = page /\ pc'[t] = "idle" /\ local'[t] = EmptySession
          /\ work'[t] = NoWork
      BY DEF Respond, IInv, Types, TypeOK
    <3>2. SessionTrue(local[t])'
      BY <3>1 DEF SessionTrue, EmptySession
    <3>3. PageTrue(shown[t])'
      BY <1>2, <3>1, PageStays DEF PageTrue, PageShown
    <3>. QED  BY <2>2, <3>1, <3>2, <3>3 DEF RequestTrue, Reading, Sending, Applied
  <2>. QED  BY <2>1, <2>2
<1>. QED  BY <1>1, <1>3, <1>4, <1>5 DEF IInv

-------------------------------------------------------------------------------
(* The steps.                                                                *)

LEMMA OthersTrue ==
  ASSUME IInv, Others
  PROVE  IInv'
<1>1. Types'
  BY EnvironmentTyping DEF IInv
<1>2. /\ clock \in Moment /\ \A p \in Prn : prn[p] \in Note /\ prn[p].id = p
      /\ prn \in [Prn -> Note]
  BY DEF IInv, Types, TypeOK, BackendTypeOK
<1>3. Onward /\ \A p \in Prn : AsIssued(prn[p])'
  <2>1. CASE Tick
    <3>1. PICK step \in {0, 1} : clock' = [clock EXCEPT !.now = @ + 1, !.month = @ + step]
      BY <2>1, BackendAssumption DEF Tick
    <3>2. clock'.from = clock.from /\ clock'.month = clock.month + step
      BY <1>2, <3>1 DEF Moment
    <3>3. clock.month \in Nat
      BY <1>2 DEF Moment
    <3>4. clock.month <= clock'.month
      BY <3>2, <3>3
    <3>. QED  BY <2>1, <3>2, <3>4 DEF Tick, Onward, IInv, AsIssued
  <2>2. ASSUME NEW p \in Prn, OthersAccept(p)
        PROVE  Onward /\ \A q \in Prn : AsIssued(prn[q])'
    <3>1. PICK y : AcceptAll({p}, y)
      BY <2>2 DEF OthersAccept
    <3>2. prn[p].status = "AwaitingAcceptance" /\ clock' = clock
      BY <2>2 DEF OthersAccept, IsEditable
    <3>3. ASSUME NEW q \in Prn, q # p PROVE prn'[q] = prn[q]
      BY <3>1, <3>3 DEF AcceptAll
    <3>4. prn'[p] = [prn[p] EXCEPT !.status = "Accepted", !.year = y]
      BY <3>1 DEF AcceptAll
    <3>5. prn'[p].status = "Accepted"
      BY <1>2, <3>4 DEF Note
    <3>6. Onward
      BY <1>2, <3>2, <3>3 DEF Onward, Moment
    <3>7. ASSUME NEW q \in Prn PROVE AsIssued(prn[q])'
      BY <3>3, <3>5 DEF IInv, AsIssued, IsEditable
    <3>. QED  BY <3>6, <3>7
  <2>3. ASSUME NEW p \in Prn, OthersWithdraw(p)
        PROVE  Onward /\ \A q \in Prn : AsIssued(prn[q])'
    <3>1. PICK w \in Withdrawn : prn' = [prn EXCEPT ![p].status = w]
      BY <2>3 DEF OthersWithdraw
    <3>2. prn[p].status = "AwaitingAcceptance" /\ clock' = clock
      BY <2>3 DEF OthersWithdraw, IsEditable
    <3>3. ASSUME NEW q \in Prn, q # p PROVE prn'[q] = prn[q]
      BY <1>2, <3>1, <3>3
    <3>4. prn'[p].status = w
      BY <1>2, <3>1 DEF Note
    <3>5. prn'[p].status # "AwaitingAcceptance"
      BY <3>4 DEF Withdrawn
    <3>6. Onward
      BY <1>2, <3>2, <3>3 DEF Onward, Moment
    <3>7. ASSUME NEW q \in Prn PROVE AsIssued(prn[q])'
      BY <3>3, <3>5 DEF IInv, AsIssued, IsEditable
    <3>. QED  BY <3>6, <3>7
  <2>. QED  BY <2>1, <2>2, <2>3, BackendAssumption DEF Others, Environment
<1>4. SessionTrue(session)'
  <2>1. session \in Session
    BY DEF IInv, Types, TypeOK
  <2>. QED  BY <1>3, <2>1, SessionStays DEF IInv, Others, SessionTrue
<1>5. ASSUME NEW t \in Tab PROVE RequestTrue(t)'
  BY <1>1, <1>3, RequestStays DEF Others
<1>. QED  BY <1>1, <1>3, <1>4, <1>5 DEF IInv

\* A step that leaves the notes and the clock alone is a step onward.
LEMMA StillOnward ==
  ASSUME IInv, UNCHANGED <<prn, clock>>
  PROVE  Onward /\ \A p \in Prn : AsIssued(prn[p])'
<1>1. clock.month \in Nat
  BY DEF IInv, Types, TypeOK, BackendTypeOK, Moment
<1>. QED  BY <1>1 DEF IInv, Onward, AsIssued

LEMMA BeginTrue ==
  ASSUME IInv, NEW t \in Tab, Begin(t)
  PROVE  IInv'
<1>1. Types'
  BY BeginTyping DEF IInv
<1>2. Onward /\ \A p \in Prn : AsIssued(prn[p])'
  BY StillOnward DEF Begin
<1>3. session \in Session /\ SessionTrue(session)
  BY DEF IInv, Types, TypeOK
<1>4. SessionTrue(session)'
  BY <1>2, <1>3, SessionStays DEF Begin, SessionTrue
<1>5. ASSUME NEW u \in Tab PROVE RequestTrue(u)'
  <2>1. CASE u # t
    BY <1>1, <1>2, <2>1, RequestStays DEF Begin, IInv, Types, TypeOK
  <2>2. CASE u = t
    <3>1. pc'[t] = "handler" /\ local'[t] = session /\ shown' = shown
      BY DEF Begin, IInv, Types, TypeOK
    <3>2. SessionTrue(local[t])'
      BY <1>2, <1>3, <3>1, SessionStays DEF SessionTrue
    <3>3. PageTrue(shown[t])'
      <4>1. shown[t] \in Shown /\ PageTrue(shown[t])
        BY DEF IInv, Types, TypeOK, RequestTrue
      <4>. QED  BY <1>2, <3>1, <4>1, PageStays DEF PageTrue
    <3>. QED  BY <2>2, <3>1, <3>2, <3>3 DEF RequestTrue, Reading, Sending, Applied
  <2>. QED  BY <2>1, <2>2
<1>. QED  BY <1>1, <1>2, <1>4, <1>5 DEF IInv

\* The confirmation page names the year each of its notes was accepted into.
LEMMA ConfirmationTrue ==
  ASSUME NEW s \in Session, SessionTrue(s)
  PROVE  PageTrue(ConfirmationPage(s.accepted))
<1>. DEFINE years == {e.year : e \in s.accepted}
            page  == ConfirmationPage(s.accepted)
<1>. SUFFICES ASSUME NEW p \in page.prns PROVE Settled(p, page.year)
  BY DEF PageTrue
<1>1. PICK e \in s.accepted : p = e.id
  BY DEF ConfirmationPage, Ids
<1>2. years = {e.year}
  BY DEF SessionTrue
<1>3. page.year = CHOOSE y \in years : TRUE
  BY <1>2 DEF ConfirmationPage
<1>4. page.year = e.year
  <2>1. (CHOOSE y \in years : TRUE) \in {e.year}
    BY <1>2
  <2>. QED  BY <1>3, <2>1
<1>. QED  BY <1>1, <1>4 DEF SessionTrue

LEMMA ListedIssued ==
  ASSUME IInv, NEW y
  PROVE  \A n \in ListedFor(y) : AsIssued(n)
BY DEF IInv, ListedFor

LEMMA SessionKeepsTrue ==
  ASSUME NEW s \in Session, SessionTrue(s)
  PROVE  /\ SessionTrue(ClearSelected(s)) /\ SessionTrue(ClearAccepted(s))
         /\ \A notes : (\A n \in notes : AsIssued(n)) => SessionTrue(KeepSelected(s, notes))
         /\ \A n \in Reviewed(s) : AsIssued(n)
<1>1. SessionTrue(ClearSelected(s))
  <2>1. ClearSelected(s).data = {} /\ ClearSelected(s).accepted = s.accepted
    BY DEF ClearSelected, Session
  <2>. QED  BY <2>1 DEF SessionTrue
<1>2. SessionTrue(ClearAccepted(s))
  <2>1. ClearAccepted(s).data = s.data /\ ClearAccepted(s).accepted = {}
    BY DEF ClearAccepted, Session
  <2>. QED  BY <2>1 DEF SessionTrue
<1>3. ASSUME NEW notes, \A n \in notes : AsIssued(n)
      PROVE  SessionTrue(KeepSelected(s, notes))
  <2>1. KeepSelected(s, notes).data = notes /\ KeepSelected(s, notes).accepted = s.accepted
    BY DEF KeepSelected, Session
  <2>. QED  BY <1>3, <2>1 DEF SessionTrue
<1>4. \A n \in Reviewed(s) : AsIssued(n)
  BY DEF Reviewed, SessionTrue
<1>. QED  BY <1>1, <1>2, <1>3, <1>4

LEMMA HandleTrue ==
  ASSUME IInv, NEW t \in Tab, Handle(t)
  PROVE  IInv'
<1>. DEFINE s == local[t]
<1>0. /\ s \in Session /\ SessionTrue(s) /\ req[t] \in Request
      /\ Types /\ clock \in Moment
  BY DEF IInv, RequestTrue, Types, TypeOK, BackendTypeOK
<1>1. /\ \A q \in {"listGet", "listPost"} :
             req[t].kind = q => PageShown(ListPage(req[t].year))
      /\ PageTrue(ListPage(req[t].year))
  BY <1>0, PageTyping DEF Types, ListYears, PageTrue, ListPage
<1>2. /\ PageShown(Page("redirect")) /\ PageTrue(Page("redirect"))
  BY <1>0, PageTyping DEF Pages, PageTrue, Page
<1>3. /\ SessionTrue(ClearSelected(s)) /\ SessionTrue(ClearAccepted(s))
      /\ \A notes : (\A n \in notes : AsIssued(n)) => SessionTrue(KeepSelected(s, notes))
      /\ \A n \in Reviewed(s) : AsIssued(n)
      /\ ClearSelected(s) \in Session /\ ClearAccepted(s) \in Session
  BY <1>0, SessionKeepsTrue, SessionTyping
<1>4. CASE ListGet(t)
  <2>1. ClearAccepted(ClearSelected(s)) \in Session
    BY <1>0, <1>3, SessionTyping
  <2>2. SessionTrue(ClearAccepted(ClearSelected(s)))
    BY <1>3, SessionKeepsTrue
  <2>. QED  BY <1>1, <1>4, <2>1, <2>2, RespondTrue DEF ListGet, Handling
<1>5. CASE ListPost(t)
  <2>1. CASE req[t].prns = {}
    BY <1>0, <1>1, <1>5, <2>1, RespondTrue DEF ListPost, Handling
  <2>2. CASE req[t].prns # {}
    <3>. DEFINE stored == StoreSelection(s, req[t].prns, req[t].year)
    <3>1. ListedFor(req[t].year) \in SUBSET Note
      BY <1>0 DEF ListedFor, Types, TypeOK, BackendTypeOK
    <3>2. stored \in Session
      BY <1>0, <3>1 DEF StoreSelection, Session, Request
    <3>3. stored.data \subseteq ListedFor(req[t].year) /\ stored.accepted = s.accepted
      BY <1>0 DEF StoreSelection, Session
    <3>4. SessionTrue(stored)
      BY <1>0, <3>3, ListedIssued DEF SessionTrue
    <3>5. Respond(t, stored, Page("redirect"))
      BY <1>5, <2>2 DEF ListPost
    <3>. QED  BY <1>2, <3>2, <3>4, <3>5, RespondTrue
  <2>. QED  BY <2>1, <2>2
<1>6. CASE ReviewGet(t)
  <2>. DEFINE kept == Selectable(Reviewed(s), clock.month)
              next == KeepSelected(s, kept)
  <2>1. kept \in SUBSET Note /\ \A n \in kept : AsIssued(n)
    BY <1>0, <1>3 DEF Selectable, Reviewed, Session
  <2>2. next \in Session /\ ClearSelected(next) \in Session
    BY <1>0, <2>1, SessionTyping
  <2>3. SessionTrue(next)
    BY <1>3, <2>1
  <2>4. SessionTrue(ClearSelected(next))
    BY <2>2, <2>3, SessionKeepsTrue
  <2>5. PageShown(ReviewPage(kept)) /\ PageTrue(ReviewPage(kept))
    BY <1>0, <2>1, PageTyping DEF PageTrue, ReviewPage
  <2>6. CASE kept = {}
    <3>1. Respond(t, ClearSelected(next), Page("redirect"))
      BY <1>6, <2>6 DEF ReviewGet
    <3>. QED  BY <1>2, <2>2, <2>4, <3>1, RespondTrue
  <2>7. CASE kept # {}
    <3>1. Respond(t, next, ReviewPage(kept))
      BY <1>6, <2>7 DEF ReviewGet
    <3>. QED  BY <2>2, <2>3, <2>5, <3>1, RespondTrue
  <2>. QED  BY <2>6, <2>7
<1>7. CASE Remove(t)
  <2>. DEFINE next == [s EXCEPT !.ids = @ \ req[t].prns]
  <2>1. next \in Session /\ next.data = s.data /\ next.accepted = s.accepted
    BY <1>0 DEF Session
  <2>2. SessionTrue(next)
    BY <1>0, <2>1 DEF SessionTrue
  <2>3. Respond(t, next, Page("redirect"))
    BY <1>7 DEF Remove
  <2>. QED  BY <1>2, <2>1, <2>2, <2>3, RespondTrue
<1>8. CASE GoBack(t)
  BY <1>2, <1>3, <1>8, RespondTrue DEF GoBack
<1>9. CASE AcceptedGet(t)
  <2>1. PageShown(ConfirmationPage(s.accepted))
    BY <1>0, PageTyping DEF Session
  <2>2. PageTrue(ConfirmationPage(s.accepted))
    BY <1>0, ConfirmationTrue
  <2>3. CASE s.accepted = {}
    BY <1>0, <1>2, <1>9, <2>3, RespondTrue DEF AcceptedGet
  <2>4. CASE s.accepted # {} /\ Fresh(s)
    BY <1>0, <1>9, <2>1, <2>2, <2>4, RespondTrue DEF AcceptedGet
  <2>5. CASE s.accepted # {} /\ ~Fresh(s)
    BY <1>2, <1>3, <1>9, <2>5, RespondTrue DEF AcceptedGet
  <2>. QED  BY <2>3, <2>4, <2>5
<1>10. CASE AcceptStart(t)
  <2>1. Types'
    BY <1>0, <1>10, HandleTyping
  <2>2. Onward /\ \A p \in Prn : AsIssued(prn[p])'
    BY <1>10, StillOnward DEF AcceptStart
  <2>3. SessionTrue(session)'
    <3>1. session \in Session /\ SessionTrue(session)
      BY DEF IInv, Types, TypeOK
    <3>. QED  BY <1>10, <2>2, <3>1, SessionStays DEF AcceptStart, SessionTrue
  <2>4. ASSUME NEW u \in Tab PROVE RequestTrue(u)'
    <3>1. CASE u # t
      BY <1>0, <1>10, <2>1, <2>2, <3>1, RequestStays DEF AcceptStart, Types, TypeOK
    <3>2. CASE u = t
      <4>1. /\ pc'[t] = "reading" /\ local' = local /\ shown' = shown
            /\ work'[t] = [NoWork EXCEPT !.at = clock, !.selected = s.ids]
        BY <1>0, <1>10 DEF AcceptStart, Types, TypeOK
      <4>2. /\ work'[t].selected = s.ids /\ work'[t].current = {}
            /\ work'[t].at = clock
        BY <4>1 DEF NoWork
      <4>3. SessionTrue(local[t])'
        BY <1>0, <2>2, <4>1, SessionStays DEF SessionTrue
      <4>4. PageTrue(shown[t])'
        <5>1. shown[t] \in Shown /\ PageTrue(shown[t])
          BY <1>0 DEF IInv, Types, TypeOK, RequestTrue
        <5>. QED  BY <2>2, <4>1, <5>1, PageStays DEF PageTrue
      <4>5. AtOpen(t)'
        <5>1. clock' = clock /\ clock.from <= clock.month /\ clock \in Moment
          BY <1>0, <1>10 DEF AcceptStart, Types, TypeOK, BackendTypeOK
        <5>. QED  BY <4>2, <5>1 DEF AtOpen, Moment
      <4>6. Reading(t)'
        BY <4>1, <4>2, <4>5 DEF Reading
      <4>. QED  BY <3>2, <4>1, <4>3, <4>4, <4>6 DEF RequestTrue, Sending, Applied
    <3>. QED  BY <3>1, <3>2
  <2>. QED  BY <2>1, <2>2, <2>3, <2>4 DEF IInv
<1>. QED  BY <1>4, <1>5, <1>6, <1>7, <1>8, <1>9, <1>10 DEF Handle

\* A confirmation of notes that are accepted, into the one year they share, is true.
LEMMA ConfirmedTrue ==
  ASSUME NEW s \in Session, NEW notes \in SUBSET Note, NEW at \in Moment,
         SelectionYear(notes, at.month) # NoYear,
         \A n \in notes : Settled(n.id, SelectionYear(notes, at.month))
  PROVE  SessionTrue(Confirmed(s, notes, at))
<1>. DEFINE y == SelectionYear(notes, at.month)
            c == Confirmed(s, notes, at)
<1>1. c.data = {}
  BY DEF Confirmed, ClearSelected, SetAccepted, Session
<1>2. c.accepted = {[id |-> n.id, year |-> SelectionYear({n}, at.month)] : n \in notes}
  BY DEF Confirmed, ClearSelected, SetAccepted, Session
<1>3. ASSUME NEW e \in c.accepted PROVE e.year = y /\ Settled(e.id, e.year)
  <2>1. PICK n \in notes : e = [id |-> n.id, year |-> SelectionYear({n}, at.month)]
    BY <1>2
  <2>2. SelectionYear({n}, at.month) = y
    BY SelectionYearShared
  <2>. QED  BY <2>1, <2>2
<1>. QED  BY <1>1, <1>3 DEF SessionTrue

LEMMA PrunedTrue ==
  ASSUME IInv, NEW t \in Tab, pc[t] = "reading"
  PROVE  /\ SessionTrue(Pruned(t)) /\ SessionTrue(ClearSelected(Pruned(t)))
         /\ \A n \in StillSelectable(t) : IsEditable(n) /\ AsIssued(n)
<1>1. /\ local[t] \in Session /\ SessionTrue(local[t]) /\ Pruned(t) \in Session
      /\ \A n \in work[t].current : AsIssued(n)
  BY PrunedTyping DEF IInv, RequestTrue, Reading
<1>2. \A n \in StillSelectable(t) : IsEditable(n) /\ AsIssued(n)
  BY <1>1 DEF StillSelectable, Selectable, IsSelectable
<1>3. SessionTrue(Pruned(t))
  BY <1>1, <1>2, SessionKeepsTrue DEF Pruned
<1>4. SessionTrue(ClearSelected(Pruned(t)))
  BY <1>1, <1>3, SessionKeepsTrue
<1>. QED  BY <1>2, <1>3, <1>4

\* A step of the accept handler that is not its response leaves what is stored and
\* shown, and the other requests, true.
LEMMA AcceptFrame ==
  ASSUME IInv, NEW t \in Tab, AcceptStep(t), Onward, UNCHANGED <<session, shown>>,
         \A u \in Tab : u # t => pc'[u] = pc[u] /\ local'[u] = local[u] /\ work'[u] = work[u],
         \A p \in Prn : AsIssued(prn[p])',
         SessionTrue(local[t])', Reading(t)', Sending(t)', Applied(t)'
  PROVE  IInv'
<1>1. Types'
  BY AcceptTyping DEF IInv
<1>2. SessionTrue(session)'
  <2>1. session \in Session /\ SessionTrue(session)
    BY DEF IInv, Types, TypeOK
  <2>. QED  BY <2>1, SessionStays DEF SessionTrue
<1>3. PageTrue(shown[t])'
  <2>1. shown[t] \in Shown /\ PageTrue(shown[t])
    BY DEF IInv, Types, TypeOK, RequestTrue
  <2>. QED  BY <2>1, PageStays DEF PageTrue
<1>4. ASSUME NEW u \in Tab PROVE RequestTrue(u)'
  <2>1. CASE u # t
    BY <1>1, <2>1, RequestStays
  <2>2. CASE u = t
    BY <1>3, <2>2 DEF RequestTrue
  <2>. QED  BY <2>1, <2>2
<1>. QED  BY <1>1, <1>2, <1>4 DEF IInv

LEMMA ReadTrue ==
  ASSUME IInv, NEW t \in Tab, NEW p \in Prn, ReadCurrent(t, p)
  PROVE  IInv'
<1>0. /\ local[t] \in Session /\ work[t] \in Work /\ work \in [Tab -> Work]
      /\ prn[p] \in Note /\ prn[p].id = p
  BY DEF IInv, Types, TypeOK, BackendTypeOK
<1>1. AcceptStep(t)
  BY DEF AcceptStep
<1>2. Onward /\ \A q \in Prn : AsIssued(prn[q])'
  BY StillOnward DEF ReadCurrent
<1>3. SessionTrue(local[t])'
  BY <1>0, <1>2, SessionStays DEF ReadCurrent, IInv, RequestTrue, SessionTrue
<1>4. /\ work'[t].selected = work[t].selected /\ work'[t].at = work[t].at
      /\ work'[t].current \subseteq work[t].current \cup {prn[p]}
  BY <1>0 DEF ReadCurrent, Work
<1>5. Reading(t)'
  <2>1. Reading(t) /\ pc[t] = "reading"
    BY DEF IInv, RequestTrue, ReadCurrent
  <2>2. AtOpen(t)'
    BY <1>4, <2>1 DEF ReadCurrent, Reading, AtOpen
  <2>3. \A n \in work'[t].current :
           AsIssued(n) /\ (n.status = "Accepted" => prn[n.id] = n)
    BY <1>0, <1>4, <2>1 DEF Reading, IInv
  <2>. QED  BY <1>4, <2>1, <2>2, <2>3 DEF Reading, ReadCurrent
<1>6. pc'[t] = "reading"
  BY DEF ReadCurrent
<1>7. Sending(t)' /\ Applied(t)'
  BY <1>6 DEF Sending, Applied
<1>. QED  BY <1>0, <1>1, <1>2, <1>3, <1>5, <1>7, AcceptFrame DEF ReadCurrent

LEMMA SendTrue ==
  ASSUME IInv, NEW t \in Tab, AcceptSend(t)
  PROVE  IInv'
<1>0. /\ Pruned(t) \in Session /\ work[t] \in Work /\ pc[t] = "reading"
      /\ SessionTrue(Pruned(t)) /\ \A n \in StillSelectable(t) : IsEditable(n)
  BY PrunedTyping, PrunedTrue DEF IInv, AcceptSend, ReadsDone
<1>1. AcceptStep(t)
  BY DEF AcceptStep
<1>2. Onward /\ \A q \in Prn : AsIssued(prn[q])'
  BY StillOnward DEF AcceptSend
<1>3. pc'[t] = "sending" /\ local'[t] = Pruned(t) /\ work' = work /\ clock' = clock
  BY DEF AcceptSend, IInv, Types, TypeOK
<1>4. SessionTrue(local[t])'
  BY <1>0, <1>2, <1>3, SessionStays DEF SessionTrue
<1>5. Pruned(t).ids = Ids(StillSelectable(t)) /\ Pruned(t).data = StillSelectable(t)
  <2>1. local[t] \in Session
    BY DEF IInv, Types, TypeOK
  <2>. QED  BY <2>1 DEF Pruned, KeepSelected, Session
<1>6. BulkYear(t)' = SentYear(t)
  BY <1>3, <1>5 DEF BulkYear, SentYear
<1>7. /\ work[t].selected # {} /\ Ids(StillSelectable(t)) = work[t].selected
      /\ SentYear(t) # NoYear
  BY DEF AcceptSend, MaySend, WholeSelection
<1>8. AtOpen(t)'
  BY <1>0, <1>3 DEF IInv, RequestTrue, Reading, AtOpen
<1>9. Sending(t)'
  BY <1>0, <1>3, <1>5, <1>6, <1>7, <1>8 DEF Sending
<1>10. Reading(t)' /\ Applied(t)'
  BY <1>3 DEF Reading, Applied
<1>. QED
  BY <1>1, <1>2, <1>4, <1>9, <1>10, AcceptFrame DEF AcceptSend, IInv, Types, TypeOK

\* The bulk update names a year, so it is applied only to notes that await
\* acceptance, and then all of them are accepted into that year.
LEMMA ApiTrue ==
  ASSUME IInv, NEW t \in Tab, ApiApplies(t)
  PROVE  /\ Onward
         /\ \A p \in Prn : AsIssued(prn[p])'
         /\ \A p \in local[t].ids : prn[p].status = "AwaitingAcceptance"
         /\ \A p \in local[t].ids : Settled(p, BulkYear(t))'
<1>. DEFINE S == local[t].ids
            y == BulkYear(t)
<1>0. /\ S \subseteq Prn /\ prn \in [Prn -> Note] /\ clock \in Moment
  BY DEF IInv, Types, TypeOK, BackendTypeOK, Session
<1>1. y # NoYear
  BY DEF IInv, RequestTrue, Sending, ApiApplies
<1>2. \A p \in S : prn[p].status = "AwaitingAcceptance"
  BY <1>1 DEF ApiApplies, MayUpdate, AllAwaiting
<1>3. ASSUME NEW p \in Prn, p \notin S PROVE prn'[p] = prn[p]
  BY <1>3 DEF ApiApplies, AcceptAll
<1>4. ASSUME NEW p \in S PROVE prn'[p].status = "Accepted" /\ prn'[p].year = y
  <2>1. prn'[p] = [prn[p] EXCEPT !.status = "Accepted", !.year = y]
    BY <1>0 DEF ApiApplies, AcceptAll
  <2>. QED  BY <1>0, <2>1 DEF Note
<1>5. clock' = clock /\ local' = local /\ work'[t].at = work[t].at
  BY DEF ApiApplies, Answer, IInv, Types, TypeOK, Work
<1>6. Onward
  BY <1>0, <1>2, <1>3, <1>5 DEF Onward, Moment
<1>7. ASSUME NEW p \in Prn PROVE AsIssued(prn[p])'
  BY <1>3, <1>4 DEF IInv, AsIssued, IsEditable
<1>8. BulkYear(t)' = y
  BY <1>5 DEF BulkYear
<1>9. \A p \in S : Settled(p, BulkYear(t))'
  BY <1>4, <1>8 DEF Settled
<1>. QED  BY <1>2, <1>6, <1>7, <1>9

LEMMA AnswerTrue ==
  ASSUME IInv, NEW t \in Tab, AcceptStep(t), Onward, NEW a \in Answers, Answer(t, a),
         pc[t] = "sending",
         \A p \in Prn : AsIssued(prn[p])',
         a = "applied" => \A p \in local[t].ids : Settled(p, BulkYear(t))'
  PROVE  IInv'
<1>0. local[t] \in Session /\ work[t] \in Work /\ clock' = clock
  BY DEF IInv, Types, TypeOK, Answer
<1>1. /\ pc'[t] = "answered" /\ local' = local
      /\ work'[t].at = work[t].at /\ work'[t].selected = work[t].selected
      /\ work'[t].answer = a
  BY <1>0 DEF Answer, IInv, Types, TypeOK, Work
<1>2. SessionTrue(local[t])'
  BY <1>0, <1>1, SessionStays DEF IInv, RequestTrue, SessionTrue
<1>3. Sending(t)'
  <2>1. Sending(t)
    BY DEF IInv, RequestTrue
  <2>2. BulkYear(t)' = BulkYear(t)
    BY <1>1 DEF BulkYear
  <2>. QED  BY <1>0, <1>1, <2>1, <2>2 DEF Sending, AtOpen
<1>4. Reading(t)' /\ Applied(t)'
  BY <1>1 DEF Reading, Applied
<1>. QED  BY <1>2, <1>3, <1>4, AcceptFrame DEF Answer, IInv, Types, TypeOK

LEMMA AcceptTrue ==
  ASSUME IInv, NEW t \in Tab, AcceptStep(t)
  PROVE  IInv'
<1>0. /\ PageShown(Page("redirect")) /\ PageTrue(Page("redirect"))
      /\ PageShown(Page("error")) /\ PageTrue(Page("error"))
      /\ PageShown(Page("notFound")) /\ PageTrue(Page("notFound"))
  BY PageTyping DEF IInv, Pages, PageTrue, Page
<1>1. /\ local[t] \in Session /\ SessionTrue(local[t]) /\ work[t] \in Work
      /\ Pruned(t) \in Session /\ ClearSelected(Pruned(t)) \in Session
      /\ ClearSelected(local[t]) \in Session
      /\ Confirmed(Pruned(t), Reviewed(local[t]), work[t].at) \in Session
      /\ Confirmed(local[t], local[t].data, work[t].at) \in Session
  BY PrunedTyping DEF IInv, RequestTrue
<1>2. SessionTrue(ClearSelected(local[t]))
  BY <1>1, SessionKeepsTrue
<1>3. ASSUME NEW p \in Prn, ReadCurrent(t, p) PROVE IInv'
  BY <1>3, ReadTrue
<1>4. CASE ReadFails(t)
  BY <1>0, <1>1, <1>4, RespondTrue DEF ReadFails
<1>5. CASE AcceptNothingSelected(t)
  BY <1>0, <1>1, <1>5, PrunedTrue, RespondTrue DEF AcceptNothingSelected, ReadsDone
<1>6. CASE AcceptMissing(t)
  BY <1>0, <1>1, <1>6, PrunedTrue, RespondTrue DEF AcceptMissing, ReadsDone
<1>7. CASE AcceptAlreadyDone(t)
  <2>. DEFINE notes == Reviewed(local[t])
              y     == SelectionYear(notes, work[t].at.month)
  <2>1. pc[t] = "reading" /\ IsAcceptedForYear(t)
    BY <1>7 DEF AcceptAlreadyDone, ReadsDone
  <2>2. Reading(t)
    BY DEF IInv, RequestTrue
  <2>3. ASSUME NEW n \in notes PROVE Settled(n.id, y)
    <3>1. n.id \in work[t].selected
      BY <2>1, <2>2 DEF Reading, Reviewed
    <3>2. PICK c \in work[t].current : c.id = n.id
      BY <2>1, <3>1 DEF IsAcceptedForYear, Ids
    <3>3. c.status = "Accepted" /\ c.year = y
      BY <2>1 DEF IsAcceptedForYear
    <3>4. prn[c.id] = c
      BY <2>1, <2>2, <3>3 DEF Reading
    <3>. QED  BY <3>2, <3>3, <3>4 DEF Settled
  <2>4. notes \in SUBSET Note /\ work[t].at \in Moment /\ y # NoYear
    BY <1>1, <2>1 DEF Reviewed, Session, Work, IsAcceptedForYear
  <2>5. SessionTrue(Confirmed(Pruned(t), notes, work[t].at))
    BY <1>1, <2>3, <2>4, ConfirmedTrue
  <2>. QED  BY <1>0, <1>1, <1>7, <2>5, RespondTrue DEF AcceptAlreadyDone
<1>8. CASE AcceptRefused(t)
  BY <1>0, <1>1, <1>8, PrunedTrue, RespondTrue DEF AcceptRefused, ReadsDone
<1>9. CASE AcceptSend(t)
  BY <1>9, SendTrue
<1>10. CASE ApiApplies(t)
  <2>1. PICK a \in {"applied", "failed"} : Answer(t, a)
    BY <1>10 DEF ApiApplies
  <2>. QED  BY <1>10, <2>1, ApiTrue, AnswerTrue DEF ApiApplies, Answers
<1>11. CASE ApiRefuses(t)
  <2>1. PICK a \in {"conflict", "notFound", "failed"} : Answer(t, a)
    BY <1>11 DEF ApiRefuses
  <2>2. Onward /\ \A p \in Prn : AsIssued(prn[p])'
    BY <1>11, <2>1, StillOnward DEF ApiRefuses, Answer
  <2>. QED  BY <1>11, <2>1, <2>2, AnswerTrue DEF ApiRefuses, Answers
<1>12. CASE AcceptAnswered(t)
  <2>1. CASE work[t].answer = "applied"
    <3>. DEFINE notes == local[t].data
    <3>1. Sending(t) /\ Applied(t) /\ pc[t] = "answered"
      BY <1>12 DEF IInv, RequestTrue, AcceptAnswered
    <3>2. BulkYear(t) # NoYear /\ \A p \in local[t].ids : Settled(p, BulkYear(t))
      BY <2>1, <3>1 DEF Sending, Applied
    <3>3. \A n \in notes : n.id \in local[t].ids
      BY <3>1 DEF Sending, Ids
    <3>4. notes \in SUBSET Note /\ work[t].at \in Moment
      BY <1>1 DEF Session, Work
    <3>5. SessionTrue(Confirmed(local[t], notes, work[t].at))
      BY <1>1, <3>2, <3>3, <3>4, ConfirmedTrue DEF BulkYear
    <3>6. Respond(t, Confirmed(local[t], notes, work[t].at), Page("redirect"))
      BY <1>12, <2>1 DEF AcceptAnswered
    <3>. QED  BY <1>0, <1>1, <3>5, <3>6, RespondTrue
  <2>2. CASE work[t].answer = "conflict"
    BY <1>0, <1>1, <1>2, <1>12, <2>2, RespondTrue DEF AcceptAnswered
  <2>3. CASE work[t].answer = "notFound"
    BY <1>0, <1>1, <1>2, <1>12, <2>3, RespondTrue DEF AcceptAnswered
  <2>4. CASE work[t].answer \notin {"applied", "conflict", "notFound"}
    BY <1>0, <1>1, <1>12, <2>4, RespondTrue DEF AcceptAnswered
  <2>. QED  BY <2>1, <2>2, <2>3, <2>4
<1>. QED
  BY <1>3, <1>4, <1>5, <1>6, <1>7, <1>8, <1>9, <1>10, <1>11, <1>12 DEF AcceptStep

LEMMA InitTrue == Init => IInv
<1>. SUFFICES ASSUME Init PROVE IInv
  OBVIOUS
<1>1. Types
  BY InitTyping
<1>2. \A p \in Prn : AsIssued(prn[p])
  BY DEF Init, BackendInit, AsIssued, Issued
<1>3. SessionTrue(EmptySession)
  BY DEF SessionTrue, EmptySession
<1>4. PageTrue(Page("blank"))
  BY DEF PageTrue, Page
<1>. QED
  BY <1>1, <1>2, <1>3, <1>4 DEF Init, IInv, RequestTrue, Reading, Sending, Applied

LEMMA StepTrue == IInv /\ [Next]_vars => IInv'
<1>. SUFFICES ASSUME IInv, [Next]_vars PROVE IInv'
  OBVIOUS
<1>1. CASE Others
  BY <1>1, OthersTrue
<1>2. ASSUME NEW t \in Tab, Begin(t) PROVE IInv'
  BY <1>2, BeginTrue
<1>3. ASSUME NEW t \in Tab, ServerStep(t) PROVE IInv'
  BY <1>3, HandleTrue, AcceptTrue DEF ServerStep
<1>4. CASE UNCHANGED vars
  BY <1>4 DEF vars, IInv, Types, TypeOK, BackendTypeOK, ListYears, AsIssued, Settled,
              SessionTrue, PageTrue, AtOpen, Reading, BulkYear, Sending, Applied, RequestTrue
<1>. QED  BY <1>1, <1>2, <1>3, <1>4 DEF Next

LEMMA Invariant == Spec => []IInv
BY InitTrue, StepTrue, PTL DEF Spec

\* No confirmation lies: every note the session or a page confirms is accepted, into
\* the year it names, for any number of tabs and whatever the others do.
THEOREM Confirmations == Spec => []ConfirmationTruthful
<1>1. IInv => ConfirmationTruthful
  BY DEF IInv, SessionTrue, RequestTrue, PageTrue, Settled, ConfirmationTruthful, EntriesTrue
<1>. QED  BY <1>1, Invariant, PTL

\* All or nothing: only a whole selection, each note of it re-read as awaiting and
\* offering just the year sent, is ever sent.
THEOREM WholeSelections == Spec => []SendsWholeReviewedSelection
<1>1. IInv => SendsWholeReviewedSelection
  <2>. SUFFICES ASSUME IInv, NEW t \in Tab, pc[t] = "sending"
                PROVE  /\ local[t].ids = work[t].selected /\ work[t].selected # {}
                       /\ Ids(local[t].data) = work[t].selected
                       /\ \A n \in local[t].data :
                             /\ IsEditable(n)
                             /\ AvailableYears(n, work[t].at.month) = {BulkYear(t)}
    BY DEF SendsWholeReviewedSelection
  <2>1. Sending(t)
    BY DEF IInv, RequestTrue
  <2>2. \A n \in local[t].data : AvailableYears(n, work[t].at.month) = {BulkYear(t)}
    BY <2>1, SelectionYearShared DEF Sending, BulkYear
  <2>. QED  BY <2>1, <2>2 DEF Sending
<1>. QED  BY <1>1, Invariant, PTL

-------------------------------------------------------------------------------
(* The journey implements the ledger.                                        *)

LEMMA SameYears ==
  ASSUME NEW n, NEW m
  PROVE  Ledger!AvailableYears(n, m) = AvailableYears(n, m)
BY DEF Ledger!AvailableYears, AvailableYears, Ledger!DecemberWasteYears, DecemberWasteYears,
       Ledger!IsNoChoice, IsNoChoice, Ledger!InChoiceWindow, InChoiceWindow,
       Ledger!ComplianceYear, ComplianceYear, Ledger!UkYear, UkYear, Ledger!UkMonth, UkMonth,
       Ledger!MonthIndex, MonthIndex, Ledger!NoYear, NoYear,
       Ledger!NoChoiceYear, NoChoiceYear, Ledger!NoChoiceUntilYear, NoChoiceUntilYear,
       Ledger!January, January, Ledger!February, February, Ledger!December, December

\* Accepting a whole set of awaiting notes into a year offered to all of them, in a
\* month the journey has been open for, is a step of the ledger.
LEMMA AcceptIsLedgerStep ==
  ASSUME IInv, NEW S \in SUBSET Prn, S # {}, NEW y, NEW m \in Nat,
         clock.from <= m, m <= clock.month,
         \A p \in S : prn[p].status = "AwaitingAcceptance" /\ y \in AvailableYears(prn[p], m),
         AcceptAll(S, y), clock' = clock
  PROVE  Ledger!LedgerNext
<1>1. m \in Ledger!MonthsOpen
  <2>1. clock.from \in Nat /\ clock.month \in Nat
    BY DEF IInv, Types, TypeOK, BackendTypeOK, Moment
  <2>. QED  BY <2>1 DEF Ledger!MonthsOpen
<1>2. \A p \in S : y \in Ledger!AvailableYears(prn[p], m)
  BY SameYears
<1>3. y \in Ledger!OfferedToAll(S, m)
  BY <1>2 DEF Ledger!OfferedToAll
<1>4. prn' = [p \in Prn |-> IF p \in S THEN [prn[p] EXCEPT !.status = "Accepted", !.year = y]
                                       ELSE prn[p]]
  BY DEF AcceptAll
<1>5. Ledger!LedgerAccept(S)
  BY <1>1, <1>3, <1>4 DEF Ledger!LedgerAccept
<1>. QED  BY <1>5 DEF Ledger!LedgerNext

LEMMA OthersLedger ==
  ASSUME IInv, Others
  PROVE  Ledger!LedgerNext
<1>1. CASE Tick
  BY <1>1 DEF Tick, Ledger!Tick, Ledger!LedgerNext
<1>2. ASSUME NEW p \in Prn, OthersAccept(p) PROVE Ledger!LedgerNext
  <2>1. PICK y \in AvailableYears(prn[p], clock.month) : AcceptAll({p}, y)
    BY <1>2 DEF OthersAccept
  <2>2. prn[p].status = "AwaitingAcceptance" /\ clock' = clock
    BY <1>2 DEF OthersAccept, IsEditable
  <2>3. clock.month \in Nat /\ clock.from <= clock.month
    BY DEF IInv, Types, TypeOK, BackendTypeOK, Moment
  <2>4. clock.month <= clock.month
    BY <2>3
  <2>. QED  BY <2>1, <2>2, <2>3, <2>4, AcceptIsLedgerStep
<1>3. ASSUME NEW p \in Prn, OthersWithdraw(p) PROVE Ledger!LedgerNext
  BY <1>3 DEF OthersWithdraw, IsEditable, Withdrawn, Ledger!Withdrawn, Ledger!LedgerWithdraw,
              Ledger!LedgerNext
<1>. QED  BY <1>1, <1>2, <1>3, BackendAssumption DEF Others, Environment

LEMMA ApiLedger ==
  ASSUME IInv, NEW t \in Tab, ApiApplies(t)
  PROVE  Ledger!LedgerNext
<1>. DEFINE S == local[t].ids
            y == BulkYear(t)
            m == work[t].at.month
<1>1. /\ S # {} /\ Ids(local[t].data) = S /\ \A n \in local[t].data : IsEditable(n)
      /\ y # NoYear /\ clock.from <= m /\ m <= clock.month
  BY DEF IInv, RequestTrue, Sending, AtOpen, ApiApplies
<1>2. /\ S \in SUBSET Prn /\ m \in Nat /\ clock' = clock
      /\ \A p \in Prn : prn[p].id = p
  BY DEF IInv, Types, TypeOK, BackendTypeOK, Session, Work, Moment, ApiApplies, Answer
<1>3. ASSUME NEW p \in S
      PROVE  prn[p].status = "AwaitingAcceptance" /\ y \in AvailableYears(prn[p], m)
  <2>1. prn[p].status = "AwaitingAcceptance"
    BY ApiTrue
  <2>2. prn[p] = Issued(p)
    BY <1>2, <2>1 DEF IInv, AsIssued, IsEditable
  <2>3. PICK n \in local[t].data : n.id = p
    BY <1>1 DEF Ids
  <2>4. n = Issued(p)
    BY <1>1, <2>3 DEF IInv, RequestTrue, SessionTrue, AsIssued
  <2>5. AvailableYears(n, m) = {y}
    BY <1>1, SelectionYearShared DEF BulkYear
  <2>. QED  BY <2>1, <2>2, <2>4, <2>5
<1>4. AcceptAll(S, y)
  BY DEF ApiApplies
<1>. QED  BY <1>1, <1>2, <1>3, <1>4, AcceptIsLedgerStep

\* Every behaviour of the journey is one of the ledger: a note leaves
\* AwaitingAcceptance at most once, an acceptance covers its whole set of notes in one
\* step, and its one year was offered to all of them while the journey was open.
THEOREM ImplementsLedger == Spec => LedgerKept
<1>1. Init => Ledger!BackendInit
  BY DEF Init, BackendInit, Ledger!BackendInit
<1>2. IInv /\ [Next]_vars => [Ledger!LedgerNext]_(Ledger!backendVars)
  <2>. SUFFICES ASSUME IInv, [Next]_vars
                PROVE  Ledger!LedgerNext \/ UNCHANGED <<prn, clock>>
    BY DEF Ledger!backendVars
  <2>1. CASE Others
    BY <2>1, OthersLedger
  <2>2. ASSUME NEW t \in Tab, Begin(t) PROVE UNCHANGED <<prn, clock>>
    BY <2>2 DEF Begin
  <2>3. ASSUME NEW t \in Tab, Handle(t) PROVE UNCHANGED <<prn, clock>>
    BY <2>3 DEF Handle, ListGet, ListPost, ReviewGet, Remove, GoBack, AcceptedGet,
                AcceptStart, Respond
  <2>4. ASSUME NEW t \in Tab, AcceptStep(t)
        PROVE  Ledger!LedgerNext \/ UNCHANGED <<prn, clock>>
    <3>1. CASE ApiApplies(t)
      BY <3>1, ApiLedger
    <3>2. CASE ~ApiApplies(t)
      BY <2>4, <3>2 DEF AcceptStep, ReadCurrent, ReadFails, AcceptNothingSelected,
           AcceptMissing, AcceptAlreadyDone, AcceptRefused, AcceptSend, ApiRefuses,
           AcceptAnswered, Answer, Respond
    <3>. QED  BY <3>1, <3>2
  <2>5. CASE UNCHANGED vars
    BY <2>5 DEF vars
  <2>. QED  BY <2>1, <2>2, <2>3, <2>4, <2>5 DEF Next, ServerStep
<1>. QED  BY <1>1, <1>2, Invariant, PTL DEF Spec, LedgerKept, Ledger!LedgerSpec

-------------------------------------------------------------------------------
(* One tab at a time.  With a single tab the request's copy of the session is *)
(* the stored one, and a review page still shown is what the session selects. *)

OneTab == \A t, u \in Tab : t = u

InStep(t) ==
    /\ pc[t] = "idle" /\ shown[t].page = "review" => session.ids = shown[t].prns
    /\ pc[t] # "idle" =>
          /\ local[t].accepted = session.accepted
          /\ local[t].acceptedAt = session.acceptedAt
          /\ shown[t].page = "review" => local[t].ids = shown[t].prns
          /\ req[t].kind = "accept" => shown[t].page = "review"
    /\ pc[t] \in {"reading", "sending", "answered"} => req[t].kind = "accept"

Alone == \A t \in Tab : InStep(t)

LEMMA RespondAlone ==
  ASSUME OneTab, Types, NEW t \in Tab, NEW s, NEW page, Respond(t, s, page),
         page.page = "review" => s.ids = page.prns
  PROVE  Alone'
<1>1. pc'[t] = "idle" /\ session' = s /\ shown'[t] = page
  BY DEF Respond, Types, TypeOK
<1>2. InStep(t)'
  BY <1>1 DEF InStep
<1>. QED  BY <1>2 DEF OneTab, Alone

LEMMA HandleAlone ==
  ASSUME OneTab, Types, Alone, NEW t \in Tab, Handle(t)
  PROVE  Alone'
<1>1. /\ \A name : Page(name).page = name
      /\ \A y : ListPage(y).page = "list"
      /\ \A entries : ConfirmationPage(entries).page = "confirmation"
  BY DEF Page, ListPage, ConfirmationPage
<1>2. CASE ListGet(t)
  BY <1>1, <1>2, RespondAlone DEF ListGet
<1>3. CASE ListPost(t)
  BY <1>1, <1>3, RespondAlone DEF ListPost
<1>4. CASE ReviewGet(t)
  <2>. DEFINE kept == Selectable(Reviewed(local[t]), clock.month)
              next == KeepSelected(local[t], kept)
  <2>1. next.ids = Ids(kept)
    BY DEF KeepSelected, Types, TypeOK, Session
  <2>2. ReviewPage(kept).prns = Ids(kept)
    BY DEF ReviewPage
  <2>3. CASE kept = {}
    <3>1. Respond(t, ClearSelected(next), Page("redirect"))
      BY <1>4, <2>3 DEF ReviewGet
    <3>. QED  BY <1>1, <3>1, RespondAlone
  <2>4. CASE kept # {}
    <3>1. Respond(t, next, ReviewPage(kept))
      BY <1>4, <2>4 DEF ReviewGet
    <3>. QED  BY <2>1, <2>2, <3>1, RespondAlone
  <2>. QED  BY <2>3, <2>4
<1>5. CASE Remove(t)
  BY <1>1, <1>5, RespondAlone DEF Remove
<1>6. CASE GoBack(t)
  BY <1>1, <1>6, RespondAlone DEF GoBack
<1>7. CASE AcceptedGet(t)
  BY <1>1, <1>7, RespondAlone DEF AcceptedGet
<1>8. CASE AcceptStart(t)
  <2>1. pc[t] = "handler" /\ req[t].kind = "accept" /\ pc'[t] = "reading"
    BY <1>8 DEF AcceptStart, Handling, Types, TypeOK
  <2>2. UNCHANGED <<session, shown, local, req>>
    BY <1>8 DEF AcceptStart
  <2>3. InStep(t)'
    BY <2>1, <2>2 DEF Alone, InStep
  <2>. QED  BY <2>3 DEF OneTab, Alone
<1>. QED  BY <1>2, <1>3, <1>4, <1>5, <1>6, <1>7, <1>8 DEF Handle

\* An accept is posted from the review page.
LEMMA BeginAlone ==
  ASSUME OneTab, Types, Alone, NEW t \in Tab, Begin(t)
  PROVE  Alone'
<1>1. PICK q \in Links \cup FormsOf(shown[t]) : req' = [req EXCEPT ![t] = q]
  BY DEF Begin
<1>2. /\ pc[t] = "idle" /\ pc'[t] = "handler" /\ local'[t] = session /\ req'[t] = q
      /\ UNCHANGED <<session, shown>>
  BY <1>1 DEF Begin, Types, TypeOK
<1>3. q.kind = "accept" => shown[t].page = "review"
  <2>1. CASE q \in Links
    BY <2>1 DEF Links
  <2>2. CASE q \in FormsOf(shown[t])
    <3>1. CASE shown[t].page = "list"
      BY <2>2, <3>1 DEF FormsOf
    <3>2. CASE shown[t].page \notin {"list", "review"}
      BY <2>2, <3>2 DEF FormsOf
    <3>. QED  BY <3>1, <3>2
  <2>. QED  BY <2>1, <2>2
<1>4. InStep(t)'
  BY <1>2, <1>3 DEF Alone, InStep
<1>. QED  BY <1>4 DEF OneTab, Alone

LEMMA AcceptAlone ==
  ASSUME OneTab, IInv, Alone, NEW t \in Tab, AcceptStep(t)
  PROVE  Alone'
<1>0. Types /\ \A name : Page(name).page = name
  BY DEF IInv, Page
<1>1. ASSUME NEW p \in Prn, ReadCurrent(t, p) PROVE Alone'
  BY <1>1 DEF ReadCurrent, Alone, InStep
<1>2. CASE ReadFails(t)
  BY <1>0, <1>2, RespondAlone DEF ReadFails
<1>3. CASE AcceptNothingSelected(t)
  BY <1>0, <1>3, RespondAlone DEF AcceptNothingSelected
<1>4. CASE AcceptMissing(t)
  BY <1>0, <1>4, RespondAlone DEF AcceptMissing
<1>5. CASE AcceptAlreadyDone(t)
  BY <1>0, <1>5, RespondAlone DEF AcceptAlreadyDone
<1>6. CASE AcceptRefused(t)
  BY <1>0, <1>6, RespondAlone DEF AcceptRefused
<1>7. CASE AcceptSend(t)
  <2>1. /\ pc[t] = "reading" /\ pc'[t] = "sending" /\ local'[t] = Pruned(t)
        /\ UNCHANGED <<session, shown, req>>
    BY <1>0, <1>7 DEF AcceptSend, ReadsDone, Types, TypeOK
  <2>2. Pruned(t).ids = local[t].ids
    <3>1. Ids(StillSelectable(t)) = work[t].selected
      BY <1>7 DEF AcceptSend, MaySend, WholeSelection
    <3>2. work[t].selected = local[t].ids
      BY <2>1 DEF IInv, RequestTrue, Reading
    <3>. QED  BY <1>0, <3>1, <3>2, PrunedTyping DEF Pruned, KeepSelected, Session
  <2>3. Pruned(t).accepted = local[t].accepted /\ Pruned(t).acceptedAt = local[t].acceptedAt
    BY <1>0, PrunedTyping DEF Pruned, KeepSelected, Session
  <2>4. InStep(t)'
    BY <2>1, <2>2, <2>3 DEF Alone, InStep
  <2>. QED  BY <2>4 DEF OneTab, Alone
<1>8. CASE ApiApplies(t) \/ ApiRefuses(t)
  <2>1. pc[t] = "sending" /\ \E a : Answer(t, a)
    BY <1>8 DEF ApiApplies, ApiRefuses
  <2>2. pc'[t] = "answered" /\ UNCHANGED <<session, shown, local, req>>
    BY <1>0, <2>1 DEF Answer, Types, TypeOK
  <2>3. InStep(t)'
    BY <2>1, <2>2 DEF Alone, InStep
  <2>. QED  BY <2>3 DEF OneTab, Alone
<1>9. CASE AcceptAnswered(t)
  BY <1>0, <1>9, RespondAlone DEF AcceptAnswered
<1>. QED  BY <1>1, <1>2, <1>3, <1>4, <1>5, <1>6, <1>7, <1>8, <1>9 DEF AcceptStep

LEMMA StepAlone ==
  ASSUME OneTab, IInv, Alone, [Next]_vars
  PROVE  Alone'
<1>1. CASE Others
  BY <1>1 DEF Others, Alone, InStep
<1>2. ASSUME NEW t \in Tab, Begin(t) PROVE Alone'
  BY <1>2, BeginAlone DEF IInv
<1>3. ASSUME NEW t \in Tab, ServerStep(t) PROVE Alone'
  BY <1>3, HandleAlone, AcceptAlone DEF ServerStep, IInv
<1>4. CASE UNCHANGED vars
  BY <1>4 DEF vars, Alone, InStep
<1>. QED  BY <1>1, <1>2, <1>3, <1>4 DEF Next

LEMMA AlwaysAlone ==
  ASSUME OneTab
  PROVE  Spec => []Alone
<1>1. Init => Alone
  BY DEF Init, Page, Alone, InStep
<1>2. IInv /\ Alone /\ [Next]_vars => Alone'
  BY StepAlone
<1>. QED  BY <1>1, <1>2, Invariant, PTL DEF Spec

\* In a single tab what is sent is what the review page in front of the user lists,
\* whatever else happens to the notes and however the pages were opened.
THEOREM ChecksHold ==
  ASSUME OneTab
  PROVE  Spec => []AcceptsWhatWasChecked
<1>1. Alone => AcceptsWhatWasChecked
  BY DEF Alone, InStep, AcceptsWhatWasChecked
<1>. QED  BY <1>1, AlwaysAlone, PTL

-------------------------------------------------------------------------------

\* A confirmation of at least one note is not empty.
LEMMA ConfirmedSome ==
  ASSUME NEW s \in Session, NEW notes, NEW at, notes # {}
  PROVE  Confirmed(s, notes, at).accepted # {}
<1>1. Confirmed(s, notes, at).accepted
        = {[id |-> n.id, year |-> SelectionYear({n}, at.month)] : n \in notes}
  BY DEF Confirmed, ClearSelected, SetAccepted, Session
<1>. QED  BY <1>1

\* A response that drops the confirmation is the list's, or comes when it is too old.
LEMMA HandleKeeps ==
  ASSUME Types, NEW t \in Tab, Handle(t), local[t].accepted = session.accepted,
         session.accepted # {}, session'.accepted = {}
  PROVE  ListGet(t) \/ ~Fresh(local[t])
<1>. DEFINE s == local[t]
<1>0. /\ s \in Session
      /\ \A x, page : Respond(t, x, page) => session' = x
      /\ \A notes : KeepSelected(s, notes).accepted = s.accepted
      /\ ClearSelected(s).accepted = s.accepted
  BY DEF Types, TypeOK, Respond, KeepSelected, ClearSelected, Session
<1>1. CASE ListPost(t)
  <2>1. \A ids, y : StoreSelection(s, ids, y).accepted = s.accepted
    BY <1>0 DEF StoreSelection, Session
  <2>. QED  BY <1>0, <1>1, <2>1 DEF ListPost
<1>2. CASE ReviewGet(t)
  <2>. DEFINE kept == Selectable(Reviewed(s), clock.month)
              next == KeepSelected(s, kept)
  <2>1. next.accepted = s.accepted /\ ClearSelected(next).accepted = s.accepted
    BY <1>0 DEF KeepSelected, ClearSelected, Session
  <2>2. session' = next \/ session' = ClearSelected(next)
    BY <1>0, <1>2 DEF ReviewGet
  <2>. QED  BY <2>1, <2>2
<1>3. CASE Remove(t)
  <2>1. [s EXCEPT !.ids = s.ids \ req[t].prns].accepted = s.accepted
    BY <1>0 DEF Session
  <2>. QED  BY <1>0, <1>3, <2>1 DEF Remove
<1>4. CASE GoBack(t)
  BY <1>0, <1>4 DEF GoBack
<1>5. CASE AcceptedGet(t)
  <2>1. ~Fresh(s)
    BY <1>0, <1>5 DEF AcceptedGet
  <2>. QED  BY <2>1
<1>6. CASE AcceptStart(t)
  BY <1>6 DEF AcceptStart
<1>. QED  BY <1>1, <1>2, <1>3, <1>4, <1>5, <1>6 DEF Handle

LEMMA AcceptKeeps ==
  ASSUME IInv, NEW t \in Tab, AcceptStep(t), local[t].accepted = session.accepted,
         session.accepted # {}
  PROVE  session'.accepted # {}
<1>. DEFINE s == local[t]
<1>0. /\ s \in Session /\ Pruned(t) \in Session
      /\ \A x, page : Respond(t, x, page) => session' = x
      /\ Pruned(t).accepted = s.accepted
      /\ ClearSelected(Pruned(t)).accepted = s.accepted
      /\ ClearSelected(s).accepted = s.accepted
  BY PrunedTyping DEF IInv, Respond, Pruned, KeepSelected, ClearSelected, Session
<1>1. CASE UNCHANGED session
  BY <1>1
<1>2. CASE ReadFails(t) \/ AcceptNothingSelected(t) \/ AcceptMissing(t) \/ AcceptRefused(t)
  BY <1>0, <1>2 DEF ReadFails, AcceptNothingSelected, AcceptMissing, AcceptRefused
<1>3. CASE AcceptAlreadyDone(t)
  <2>1. Reviewed(s) # {}
    <3>1. SelectionYear(Reviewed(s), work[t].at.month) # NoYear
      BY <1>3 DEF AcceptAlreadyDone, IsAcceptedForYear
    <3>. QED  BY <3>1 DEF SelectionYear, SelectionYears
  <2>2. Confirmed(Pruned(t), Reviewed(s), work[t].at).accepted # {}
    BY <1>0, <2>1, ConfirmedSome
  <2>. QED  BY <1>0, <1>3, <2>2 DEF AcceptAlreadyDone
<1>4. CASE AcceptAnswered(t)
  <2>1. s.data # {}
    BY <1>4 DEF AcceptAnswered, IInv, RequestTrue, Sending, Ids
  <2>2. Confirmed(s, s.data, work[t].at).accepted # {}
    BY <1>0, <2>1, ConfirmedSome
  <2>3. CASE work[t].answer = "applied"
    BY <1>0, <1>4, <2>2, <2>3 DEF AcceptAnswered
  <2>4. CASE work[t].answer # "applied"
    BY <1>0, <1>4, <2>4 DEF AcceptAnswered
  <2>. QED  BY <2>3, <2>4
<1>. QED
  BY <1>1, <1>2, <1>3, <1>4 DEF AcceptStep, ReadCurrent, AcceptSend, ApiApplies, ApiRefuses,
                                Answer

\* In a single tab a confirmation goes only by its age or with the list: no answer that
\* is written back can take it away.
THEOREM ConfirmationsStay ==
  ASSUME OneTab
  PROVE  Spec => OnlyListOrAgeDropsConfirmation
<1>. DEFINE Kept == (session.accepted # {} /\ session'.accepted = {})
                      => (~Fresh(session) \/ \E t \in Tab : ListGet(t))
<1>1. IInv /\ Alone /\ [Next]_vars => [Kept]_vars
  <2>. SUFFICES ASSUME IInv, Alone, [Next]_vars, session.accepted # {}, session'.accepted = {}
                PROVE  ~Fresh(session) \/ \E t \in Tab : ListGet(t)
    OBVIOUS
  <2>1. PICK t \in Tab : ServerStep(t)
    BY DEF Next, Others, Begin, vars
  <2>2. /\ local[t].accepted = session.accepted
        /\ Fresh(local[t]) <=> Fresh(session)
    BY <2>1 DEF Alone, InStep, Fresh, ServerStep, Handle, ListGet, ListPost, ReviewGet, Remove,
                GoBack, AcceptedGet, AcceptStart, Handling, AcceptStep, ReadCurrent, ReadFails,
                AcceptNothingSelected, AcceptMissing, AcceptAlreadyDone, AcceptRefused,
                AcceptSend, ReadsDone, ApiApplies, ApiRefuses, AcceptAnswered
  <2>3. CASE Handle(t)
    BY <2>2, <2>3, HandleKeeps DEF IInv
  <2>4. CASE AcceptStep(t)
    BY <2>2, <2>4, AcceptKeeps
  <2>. QED  BY <2>1, <2>3, <2>4 DEF ServerStep
<1>. QED  BY <1>1, Invariant, AlwaysAlone, PTL DEF Spec, OnlyListOrAgeDropsConfirmation
===============================================================================
