-------------------------- MODULE SingleUpdate_proofs --------------------------
(***************************************************************************)
(* What the single journey guarantees for any set of notes, any number of  *)
(* tabs and any calendar: its types, that no banner lies, and that a note  *)
(* with two years open goes into the one the user chose.  Then, within the *)
(* limits each names, that the year on the page is the one recorded and    *)
(* that the journey implements the ledger.                                 *)
(***************************************************************************)
EXTENDS SingleUpdate, PrnBackend_proofs

-------------------------------------------------------------------------------
(* Types.                                                                    *)

\* What a request finds and decides is about its tab's note.
Types ==
    /\ TypeOK
    /\ \A t \in Tab : loaded[t].id = NoteOf[t]

LEMMA AcceptYearTyping ==
  ASSUME NEW n \in Note, NEW chosen \in Nat, NEW m \in Nat
  PROVE  /\ AvailableYears(n, m) \subseteq Nat
         /\ AcceptYear(n, chosen, m) \in Nat
<1>1. AvailableYears(n, m) \subseteq Nat
  <2>1. m \in Int
    OBVIOUS
  <2>. QED  BY <2>1, YearsTyping
<1>2. CASE chosen \in AvailableYears(n, m)
  BY <1>1, <1>2 DEF AcceptYear
<1>3. CASE chosen \notin AvailableYears(n, m) /\ n.decemberWaste /\ CanMultiSelect(n, m)
  <2>1. PICK y \in AvailableYears(n, m) : AvailableYears(n, m) = {y}
    BY <1>3 DEF CanMultiSelect
  <2>2. (CHOOSE z \in AvailableYears(n, m) : TRUE) \in {y}
    BY <2>1
  <2>. QED  BY <1>1, <1>3, <2>2 DEF AcceptYear
<1>4. CASE chosen \notin AvailableYears(n, m) /\ ~(n.decemberWaste /\ CanMultiSelect(n, m))
  BY <1>1, <1>4 DEF AcceptYear, NoYear
<1>. QED  BY <1>1, <1>2, <1>3, <1>4

LEMMA ShowTyping ==
  ASSUME Types, NEW t \in Tab, NEW page \in Shown, Show(t, page)
  PROVE  Types'
<1>1. NoRequest \in [kind : Kinds, chosen : Nat]
  BY DEF NoRequest, Request, Kinds, NoYear
<1>2. NothingLoaded(t) \in Note /\ NothingLoaded(t).id = NoteOf[t]
  BY SingleAssumption DEF NothingLoaded, Note, Status, NoYear
<1>3. NothingSent \in Sent
  BY DEF NothingSent, Sent, NoYear
<1>4. BackendTypeOK'
  BY DEF Show, Respond, Types, TypeOK, BackendTypeOK
<1>5. TypeOK'
  BY <1>1, <1>2, <1>3, <1>4 DEF Show, Respond, Types, TypeOK
<1>. QED  BY <1>2, <1>5 DEF Show, Respond, Types, TypeOK

LEMMA SendTyping ==
  ASSUME Types, NEW t \in Tab, NEW status \in {"Accepted", "Rejected"}, NEW year \in Nat,
         Send(t, status, year)
  PROVE  Types'
<1>1. clock.month \in Nat
  BY DEF Types, TypeOK, BackendTypeOK, Moment
<1>2. [status |-> status, year |-> year, month |-> clock.month] \in Sent
  BY <1>1 DEF Sent
<1>. QED  BY <1>2 DEF Send, Types, TypeOK, BackendTypeOK

\* The requests a tab may make are requests.
LEMMA RequestTyping ==
  ASSUME Types, NEW t \in Tab, NEW q \in Links(t) \cup FormsOf(shown[t])
  PROVE  q \in [kind : Kinds, chosen : Nat]
<1>1. kept[t] \subseteq Nat /\ shown[t] \in Shown
  BY DEF Types, TypeOK
<1>2. CASE q \in Links(t)
  BY <1>1, <1>2 DEF Links, Request, Kinds, NoYear
<1>3. CASE q \in FormsOf(shown[t])
  <2>1. CASE shown[t].page = "choose"
    BY <1>1, <1>3, <2>1 DEF FormsOf, Request, Kinds, NoYear, Shown
  <2>2. CASE shown[t].page = "confirmAccept"
    BY <1>1, <1>3, <2>2 DEF FormsOf, Request, Kinds, Shown
  <2>3. CASE shown[t].page = "confirmReject"
    BY <1>3, <2>3 DEF FormsOf, Request, Kinds, NoYear
  <2>4. CASE shown[t].page \notin {"choose", "confirmAccept", "confirmReject"}
    BY <1>3, <2>4 DEF FormsOf
  <2>. QED  BY <2>1, <2>2, <2>3, <2>4
<1>. QED  BY <1>2, <1>3

LEMMA StepTyping ==
  ASSUME Types, NEW t \in Tab, Step(t)
  PROVE  Types'
<1>0. /\ loaded[t] \in Note /\ req[t] \in [kind : Kinds, chosen : Nat]
      /\ req[t].chosen \in Nat /\ clock.month \in Nat /\ NoteOf[t] \in Prn
  BY SingleAssumption DEF Types, TypeOK, BackendTypeOK, Moment
<1>1. /\ Offers(t) \subseteq Nat
      /\ AcceptYear(loaded[t], req[t].chosen, clock.month) \in Nat
  BY <1>0, AcceptYearTyping DEF Offers
<1>2. Away \in Shown
  BY DEF Away, Page, Shown, Pages, NoYear
<1>3. CASE Begin(t)
  BY <1>3, RequestTyping DEF Begin, Types, TypeOK, BackendTypeOK
<1>4. CASE Load(t)
  BY <1>0, <1>4 DEF Load, Types, TypeOK, BackendTypeOK
<1>5. CASE LoadFails(t)
  BY <1>2, <1>5, ShowTyping DEF LoadFails
<1>6. ASSUME NEW c \in BOOLEAN PROVE NotePage(loaded[t], c) \in Shown
  BY <1>0 DEF NotePage, Page, Shown, Pages, NoYear, BannerPage, Note
<1>7. CASE NoteGet(t) \/ ConfirmedGet(t)
  BY <1>6, <1>7, ShowTyping DEF NoteGet, ConfirmedGet
<1>8. CASE ChooseYear(t)
  <2>1. Page("choose", Offers(t), NoYear) \in Shown
    BY <1>1 DEF Page, Shown, Pages, NoYear
  <2>2. CASE ChooseApplies(t) /\ req[t].chosen \notin Offers(t)
    BY <1>8, <2>1, <2>2, ShowTyping DEF ChooseYear
  <2>3. CASE ~(ChooseApplies(t) /\ req[t].chosen \notin Offers(t))
    <3>1. Respond(t, Away) /\ (kept' = kept \/ kept' = [kept EXCEPT ![t] = @ \cup {req[t].chosen}])
      BY <1>8, <2>3 DEF ChooseYear
    <3>2. kept' \in [Tab -> SUBSET Nat]
      BY <1>0, <3>1 DEF Types, TypeOK
    <3>3. NoRequest \in [kind : Kinds, chosen : Nat] /\ NothingSent \in Sent
      BY DEF NoRequest, Request, Kinds, NoYear, NothingSent, Sent
    <3>4. NothingLoaded(t) \in Note /\ NothingLoaded(t).id = NoteOf[t]
      BY <1>0 DEF NothingLoaded, Note, Status, NoYear
    <3>5. TypeOK'
      BY <1>2, <3>1, <3>2, <3>3, <3>4 DEF Respond, Types, TypeOK, BackendTypeOK
    <3>. QED  BY <3>1, <3>4, <3>5 DEF Respond, Types, TypeOK
  <2>. QED  BY <2>2, <2>3
<1>9. CASE ConfirmAcceptGet(t)
  <2>. DEFINE year == RecordedYear(loaded[t], AcceptYear(loaded[t], req[t].chosen, clock.month))
  <2>1. year \in Nat
    BY <1>0, <1>1 DEF RecordedYear, Note
  <2>2. Page("confirmAccept", {year}, req[t].chosen) \in Shown
    BY <1>0, <2>1 DEF Page, Shown, Pages
  <2>. QED  BY <1>2, <1>9, <2>2, ShowTyping DEF ConfirmAcceptGet
<1>10. CASE ConfirmAcceptPost(t)
  BY <1>1, <1>2, <1>10, ShowTyping, SendTyping DEF ConfirmAcceptPost
<1>11. CASE ConfirmRejectGet(t)
  <2>1. Page("confirmReject", {}, NoYear) \in Shown
    BY DEF Page, Shown, Pages, NoYear
  <2>. QED  BY <1>2, <1>11, <2>1, ShowTyping DEF ConfirmRejectGet
<1>12. CASE ConfirmRejectPost(t)
  BY <1>2, <1>12, ShowTyping, SendTyping DEF ConfirmRejectPost, NoYear
<1>13. CASE ApiApplies(t)
  <2>1. BackendTypeOK'
    <3>1. CASE sent[t].status = "Accepted"
      <4>1. Recorded(t) \in Nat
        BY <1>0 DEF Recorded, RecordedYear, Types, TypeOK, BackendTypeOK, Note, Sent
      <4>. QED  BY <1>13, <3>1, <4>1, AcceptAllTyping DEF ApiApplies, Types, TypeOK
    <3>2. CASE sent[t].status # "Accepted"
      <4>1. prn' = [prn EXCEPT ![NoteOf[t]].status = "Rejected"] /\ UNCHANGED clock
        BY <1>13, <3>2 DEF ApiApplies
      <4>2. BackendTypeOK
        BY DEF Types, TypeOK
      <4>. QED  BY <1>0, <4>1, <4>2 DEF BackendTypeOK, Note, Status
    <3>. QED  BY <3>1, <3>2
  <2>. QED  BY <1>13, <2>1 DEF ApiApplies, Types, TypeOK
<1>14. CASE ApiRefuses(t)
  BY <1>14 DEF ApiRefuses, Types, TypeOK, BackendTypeOK
<1>15. CASE Answered(t)
  BY <1>2, <1>15, ShowTyping DEF Answered
<1>. QED
  BY <1>3, <1>4, <1>5, <1>6, <1>7, <1>8, <1>9, <1>10, <1>11, <1>12, <1>13, <1>14, <1>15
  DEF Step

LEMMA InitTyping == Init => Types
<1>. SUFFICES ASSUME Init PROVE Types
  OBVIOUS
<1>1. BackendTypeOK
  BY BackendInitTyping DEF Init
<1>2. NoRequest \in [kind : Kinds, chosen : Nat] /\ NothingSent \in Sent
  BY DEF NoRequest, Request, Kinds, NoYear, NothingSent, Sent
<1>3. \A t \in Tab : NothingLoaded(t) \in Note /\ NothingLoaded(t).id = NoteOf[t]
  BY SingleAssumption DEF NothingLoaded, Note, Status, NoYear
<1>4. Away \in Shown
  BY DEF Away, Page, Shown, Pages, NoYear
<1>5. ASSUME NEW p \in Prn PROVE EarlierYears(p) \subseteq Nat
  <2>1. prn[p] \in Note /\ clock.month \in Int
    BY <1>1 DEF BackendTypeOK, Moment
  <2>2. \A m \in Int : AvailableYears(prn[p], m) \subseteq Nat
    BY <2>1, YearsTyping
  <2>3. \A m \in clock.month - 2 .. clock.month : m \in Int
    BY <2>1
  <2>. QED  BY <2>2, <2>3 DEF EarlierYears
<1>6. kept \in [Tab -> SUBSET Nat]
  <2>1. \A t \in Tab : kept[t] \subseteq Nat
    BY <1>5, SingleAssumption DEF Init
  <2>. QED  BY <2>1 DEF Init
<1>7. TypeOK
  BY <1>1, <1>2, <1>3, <1>4, <1>6 DEF Init, TypeOK
<1>. QED  BY <1>3, <1>7 DEF Init, Types

LEMMA NextTyping == Types /\ [Next]_vars => Types'
<1>. SUFFICES ASSUME Types, [Next]_vars PROVE Types'
  OBVIOUS
<1>1. CASE Others
  <2>1. BackendTypeOK'
    BY <1>1, BackendEnvironmentTyping DEF Others, Types, TypeOK
  <2>. QED  BY <1>1, <2>1 DEF Others, Types, TypeOK
<1>2. ASSUME NEW t \in Tab, Step(t) PROVE Types'
  BY <1>2, StepTyping
<1>3. CASE UNCHANGED vars
  BY <1>3 DEF vars, Types, TypeOK, BackendTypeOK
<1>. QED  BY <1>1, <1>2, <1>3 DEF Next

\* The types hold, whatever the notes, tabs and calendar are.
THEOREM Typing == Spec => []TypeOK
<1>1. Types => TypeOK
  BY DEF Types
<1>. QED  BY <1>1, InitTyping, NextTyping, PTL DEF Spec

-------------------------------------------------------------------------------
(* The inductive invariant.  A submit of the confirmation carries the year   *)
(* of the page it was made on, which the tab keeps until the answer; and a   *)
(* note that was found settled is settled still, since no one changes a note *)
(* that does not await acceptance.                                           *)

Settled(n) == n.status \in {"Accepted", "Rejected"}

PostFromPage(t) ==
    pc[t] \in {"loading", "handler"} /\ req[t].kind = "acceptPost" =>
        shown[t].page = "confirmAccept" /\ shown[t].chosen = req[t].chosen

ChosenYear(t) ==
    Accepting(t) /\ HasYearChoice(loaded[t], sent[t].month) =>
        sent[t].year = shown[t].chosen /\ sent[t].year # NoYear

FoundSettled(t) == pc[t] = "handler" /\ Settled(loaded[t]) => prn[NoteOf[t]] = loaded[t]

BannerTrue(t) ==
    /\ shown[t].page = "acceptedNote" =>
          /\ prn[NoteOf[t]].status = "Accepted"
          /\ shown[t].years = {prn[NoteOf[t]].year}
    /\ shown[t].page = "rejectedNote" => prn[NoteOf[t]].status = "Rejected"

TabTrue(t) == PostFromPage(t) /\ ChosenYear(t) /\ FoundSettled(t) /\ BannerTrue(t)

IInv == Types /\ \A t \in Tab : TabTrue(t)

SettledStays == \A p \in Prn : Settled(prn[p]) => prn'[p] = prn[p]

TabStays(t) ==
    /\ shown'[t] = shown[t] /\ pc'[t] = pc[t] /\ req'[t] = req[t]
    /\ loaded'[t] = loaded[t] /\ sent'[t] = sent[t]

\* A year on offer is never NoYear, so a chosen one is not mistaken for none.
LEMMA YearsOffered ==
  ASSUME NEW m \in Nat, NEW n \in Note
  PROVE  NoYear \notin AvailableYears(n, m)
<1>1. n.year \in Nat /\ ComplianceYear(m) \in Int
  BY DEF Note, ComplianceYear, UkYear
<1>2. CASE n.year = NoYear \/ n.year > ComplianceYear(m)
  BY <1>2 DEF AvailableYears
<1>3. CASE ~(n.year = NoYear \/ n.year > ComplianceYear(m))
  <2>1. AvailableYears(n, m) \subseteq {n.year, n.year + 1, ComplianceYear(m)}
    BY <1>3 DEF AvailableYears, DecemberWasteYears
  <2>2. n.year > 0 /\ n.year + 1 > 0 /\ ComplianceYear(m) > 0
    BY <1>1, <1>3 DEF NoYear
  <2>. QED  BY <2>1, <2>2 DEF NoYear
<1>. QED  BY <1>2, <1>3

\* Nothing in the system changes a note that was accepted or rejected.
LEMMA NotesStaySettled ==
  ASSUME Types, [Next]_vars
  PROVE  SettledStays
<1>. DEFINE Editing(q) == /\ IsEditable(prn[q])
                          /\ \A p \in Prn : p # q => prn'[p] = prn[p]
<1>1. ASSUME NEW q \in Prn, Editing(q) PROVE SettledStays
  BY <1>1 DEF SettledStays, Settled, IsEditable
<1>2. CASE UNCHANGED prn
  BY <1>2 DEF SettledStays
<1>3. ASSUME NEW q \in Prn, OthersAccept(q) PROVE SettledStays
  BY <1>1, <1>3 DEF OthersAccept, AcceptAll
<1>4. ASSUME NEW q \in Prn, OthersWithdraw(q) PROVE SettledStays
  <2>1. PICK s \in Withdrawn : prn' = [prn EXCEPT ![q].status = s]
    BY <1>4 DEF OthersWithdraw
  <2>2. prn \in [Prn -> Note]
    BY DEF Types, TypeOK, BackendTypeOK
  <2>3. Editing(q)
    BY <1>4, <2>1, <2>2 DEF OthersWithdraw
  <2>. QED  BY <1>1, <2>3
<1>5. ASSUME NEW t \in Tab, ApiApplies(t) PROVE SettledStays
  <2>1. NoteOf[t] \in Prn /\ prn \in [Prn -> Note]
    BY SingleAssumption DEF Types, TypeOK, BackendTypeOK
  <2>2. CASE sent[t].status = "Accepted"
    <3>1. Editing(NoteOf[t])
      BY <1>5, <2>2 DEF ApiApplies, AcceptAll
    <3>. QED  BY <1>1, <2>1, <3>1
  <2>3. CASE sent[t].status # "Accepted"
    <3>1. Editing(NoteOf[t])
      BY <1>5, <2>1, <2>3 DEF ApiApplies
    <3>. QED  BY <1>1, <2>1, <3>1
  <2>. QED  BY <2>2, <2>3
<1>6. CASE Others
  <2>1. CASE Tick
    BY <1>2, <2>1 DEF Tick
  <2>. QED  BY <1>3, <1>4, <1>6, <2>1, BackendAssumption DEF Others, Environment
<1>7. ASSUME NEW t \in Tab, Step(t) PROVE SettledStays
  BY <1>2, <1>5, <1>7 DEF Step, Begin, Load, LoadFails, NoteGet, ConfirmedGet, ChooseYear,
     ConfirmAcceptGet, ConfirmAcceptPost, ConfirmRejectGet, ConfirmRejectPost, ApiRefuses,
     Answered, Show, Respond, Send
<1>8. CASE UNCHANGED vars
  BY <1>2, <1>8 DEF vars
<1>. QED  BY <1>6, <1>7, <1>8 DEF Next

\* A tab a step leaves alone stays true while settled notes stay.
LEMMA StaysTrue ==
  ASSUME Types, NEW t \in Tab, TabTrue(t), TabStays(t), SettledStays
  PROVE  TabTrue(t)'
<1>1. NoteOf[t] \in Prn
  BY SingleAssumption
<1>2. PostFromPage(t)'
  BY DEF TabTrue, TabStays, PostFromPage
<1>3. ChosenYear(t)'
  BY DEF TabTrue, TabStays, ChosenYear, Accepting
<1>4. FoundSettled(t)'
  BY <1>1 DEF TabTrue, TabStays, FoundSettled, SettledStays
<1>5. BannerTrue(t)'
  BY <1>1 DEF TabTrue, TabStays, BannerTrue, SettledStays, Settled
<1>. QED  BY <1>2, <1>3, <1>4, <1>5 DEF TabTrue

\* A step of one tab leaves the others alone.
LEMMA OtherTabs ==
  ASSUME Types, NEW t \in Tab, Step(t), NEW u \in Tab, u # t
  PROVE  TabStays(u)
<1>1. ASSUME NEW page, Respond(t, page) PROVE TabStays(u)
  BY <1>1 DEF Respond, TabStays, Types, TypeOK
<1>2. ASSUME NEW status, NEW year, Send(t, status, year) PROVE TabStays(u)
  BY <1>2 DEF Send, TabStays, Types, TypeOK
<1>3. CASE LoadFails(t) \/ NoteGet(t) \/ ConfirmedGet(t) \/ ChooseYear(t) \/ ConfirmAcceptGet(t)
  BY <1>1, <1>3 DEF LoadFails, NoteGet, ConfirmedGet, ChooseYear, ConfirmAcceptGet, Show
<1>4. CASE ConfirmAcceptPost(t) \/ ConfirmRejectGet(t) \/ ConfirmRejectPost(t) \/ Answered(t)
  BY <1>1, <1>2, <1>4 DEF ConfirmAcceptPost, ConfirmRejectGet, ConfirmRejectPost, Answered, Show
<1>5. CASE Begin(t) \/ Load(t) \/ ApiApplies(t) \/ ApiRefuses(t)
  BY <1>5 DEF Begin, Load, ApiApplies, ApiRefuses, TabStays, Types, TypeOK
<1>. QED  BY <1>3, <1>4, <1>5 DEF Step

\* A page that lies about no update may be shown.
LEMMA ShowTrue ==
  ASSUME Types, NEW t \in Tab, NEW page, Respond(t, page),
         page.page = "acceptedNote" =>
             prn[NoteOf[t]].status = "Accepted" /\ page.years = {prn[NoteOf[t]].year},
         page.page = "rejectedNote" => prn[NoteOf[t]].status = "Rejected"
  PROVE  TabTrue(t)'
<1>1. shown'[t] = page /\ pc'[t] = "idle" /\ prn' = prn
  BY DEF Respond, Types, TypeOK
<1>. QED  BY <1>1 DEF TabTrue, PostFromPage, ChosenYear, Accepting, FoundSettled, BannerTrue

LEMMA StepTrue ==
  ASSUME IInv, NEW t \in Tab, Step(t), SettledStays
  PROVE  TabTrue(t)'
<1>0. Types /\ TabTrue(t) /\ NoteOf[t] \in Prn
  BY SingleAssumption DEF IInv
<1>1. Away.page = "away"
  BY DEF Away, Page
<1>2. ASSUME Respond(t, Away) PROVE TabTrue(t)'
  BY <1>0, <1>1, <1>2, ShowTrue
<1>3. CASE Begin(t)
  <2>1. PICK q \in Links(t) \cup FormsOf(shown[t]) : req' = [req EXCEPT ![t] = q]
    BY <1>3 DEF Begin
  <2>2. /\ req'[t] = q /\ pc'[t] = "loading"
        /\ shown' = shown /\ prn' = prn
    BY <1>0, <1>3, <2>1 DEF Begin, Types, TypeOK
  <2>3. CASE q \in Links(t)
    <3>1. q.kind # "acceptPost"
      BY <2>3 DEF Links, Request
    <3>2. PostFromPage(t)'
      BY <2>2, <3>1 DEF PostFromPage
    <3>. QED  BY <1>0, <2>2, <3>2 DEF TabTrue, ChosenYear, Accepting, FoundSettled, BannerTrue
  <2>4. CASE q \in FormsOf(shown[t])
    <3>1. CASE shown[t].page = "confirmAccept"
      <4>1. q.chosen = shown[t].chosen
        BY <2>4, <3>1 DEF FormsOf, Request
      <4>. QED  BY <2>2, <3>1, <4>1 DEF PostFromPage, TabTrue, ChosenYear, Accepting, FoundSettled, BannerTrue
    <3>2. CASE shown[t].page # "confirmAccept"
      <4>1. q.kind # "acceptPost"
        BY <2>4, <3>2 DEF FormsOf, Request
      <4>2. PostFromPage(t)'
        BY <2>2, <4>1 DEF PostFromPage
      <4>. QED  BY <1>0, <2>2, <4>2 DEF TabTrue, ChosenYear, Accepting, FoundSettled, BannerTrue
    <3>3. BannerTrue(t)'
      BY <1>0, <2>2 DEF TabTrue, BannerTrue
    <3>. QED  BY <3>1, <3>2, <3>3
  <2>. QED  BY <2>3, <2>4
<1>4. CASE Load(t)
  <2>1. /\ loaded'[t] = prn[NoteOf[t]] /\ pc[t] = "loading" /\ pc'[t] = "handler"
        /\ shown' = shown /\ prn' = prn /\ req' = req
    BY <1>0, <1>4 DEF Load, Types, TypeOK
  <2>. QED  BY <1>0, <2>1 DEF TabTrue, PostFromPage, ChosenYear, Accepting, FoundSettled, BannerTrue
<1>5. CASE LoadFails(t) \/ Answered(t)
  BY <1>2, <1>5 DEF LoadFails, Answered, Show
<1>6. ASSUME NEW c \in BOOLEAN, pc[t] = "handler", Show(t, NotePage(loaded[t], c))
      PROVE  TabTrue(t)'
  <2>. DEFINE page == NotePage(loaded[t], c)
  <2>1. Respond(t, page)
    BY <1>6 DEF Show
  <2>2. page.page = BannerPage(loaded[t], c) /\ page.years = {loaded[t].year}
    BY DEF NotePage, Page
  <2>3. CASE Settled(loaded[t])
    <3>1. prn[NoteOf[t]] = loaded[t]
      BY <1>0, <1>6, <2>3 DEF TabTrue, FoundSettled
    <3>2. page.page = "acceptedNote" => loaded[t].status = "Accepted"
      BY <2>2, <2>3 DEF BannerPage, Settled
    <3>3. page.page = "rejectedNote" => loaded[t].status = "Rejected"
      BY <2>2, <2>3 DEF BannerPage, Settled
    <3>. HIDE DEF page
    <3>. QED  BY <1>0, <2>1, <2>2, <3>1, <3>2, <3>3, ShowTrue
  <2>4. CASE ~Settled(loaded[t])
    <3>1. page.page = "note"
      BY <2>2, <2>4 DEF BannerPage, Settled
    <3>. HIDE DEF page
    <3>. QED  BY <1>0, <2>1, <3>1, ShowTrue
  <2>. QED  BY <2>3, <2>4
<1>7. CASE NoteGet(t) \/ ConfirmedGet(t)
  BY <1>6, <1>7 DEF NoteGet, ConfirmedGet, Handling
<1>8. CASE ChooseYear(t)
  BY <1>0, <1>2, <1>8, ShowTrue DEF ChooseYear, Show, Page
<1>9. CASE ConfirmAcceptGet(t)
  BY <1>0, <1>2, <1>9, ShowTrue DEF ConfirmAcceptGet, Show, Page
<1>10. CASE ConfirmRejectGet(t)
  BY <1>0, <1>2, <1>10, ShowTrue DEF ConfirmRejectGet, Show, Page
<1>11. CASE ConfirmAcceptPost(t)
  <2>. DEFINE year == AcceptYear(loaded[t], req[t].chosen, clock.month)
  <2>1. CASE Show(t, Away)
    BY <1>2, <2>1 DEF Show
  <2>2. CASE AcceptApplies(t) /\ Send(t, "Accepted", year)
    <3>1. /\ shown' = shown /\ loaded' = loaded /\ prn' = prn /\ pc'[t] = "sending"
          /\ sent'[t].month = clock.month /\ sent'[t].year = year
      BY <1>0, <2>2 DEF Send, Types, TypeOK
    <3>2. shown[t].chosen = req[t].chosen
      BY <1>0, <1>11 DEF ConfirmAcceptPost, Handling, TabTrue, PostFromPage
    <3>3. loaded[t] \in Note /\ clock.month \in Nat
      BY <1>0 DEF Types, TypeOK, BackendTypeOK, Moment
    <3>4. HasYearChoice(loaded[t], clock.month) => year = req[t].chosen /\ year # NoYear
      BY <2>2, <3>3, YearsOffered DEF AcceptApplies, ChoiceRequired, AcceptYear
    <3>5. ChosenYear(t)'
      BY <3>1, <3>2, <3>4 DEF ChosenYear
    <3>. QED  BY <1>0, <3>1, <3>5 DEF TabTrue, PostFromPage, FoundSettled, BannerTrue
  <2>. QED  BY <1>11, <2>1, <2>2 DEF ConfirmAcceptPost
<1>12. CASE ConfirmRejectPost(t)
  <2>1. CASE Show(t, Away)
    BY <1>2, <2>1 DEF Show
  <2>2. CASE Send(t, "Rejected", NoYear)
    <3>1. shown' = shown /\ prn' = prn /\ pc'[t] = "sending" /\ sent'[t].status = "Rejected"
      BY <1>0, <2>2 DEF Send, Types, TypeOK
    <3>. QED  BY <1>0, <3>1 DEF TabTrue, PostFromPage, ChosenYear, Accepting, FoundSettled, BannerTrue
  <2>. QED  BY <1>12, <2>1, <2>2 DEF ConfirmRejectPost
<1>13. CASE ApiApplies(t) \/ ApiRefuses(t)
  <2>1. shown' = shown /\ pc'[t] \in {"applied", "conflict", "failed"}
    BY <1>0, <1>13 DEF ApiApplies, ApiRefuses, Types, TypeOK
  <2>2. BannerTrue(t)'
    BY <1>0, <2>1 DEF TabTrue, BannerTrue, SettledStays, Settled
  <2>. QED  BY <2>1, <2>2 DEF TabTrue, PostFromPage, ChosenYear, Accepting, FoundSettled
<1>. QED
  BY <1>3, <1>4, <1>5, <1>6, <1>7, <1>8, <1>9, <1>10, <1>11, <1>12, <1>13 DEF Step

LEMMA NextTrue == IInv /\ [Next]_vars => IInv'
<1>. SUFFICES ASSUME IInv, [Next]_vars PROVE IInv'
  OBVIOUS
<1>1. Types'
  BY NextTyping DEF IInv
<1>2. SettledStays
  BY NotesStaySettled DEF IInv
<1>3. ASSUME NEW u \in Tab PROVE TabTrue(u)'
  <2>1. CASE Others \/ UNCHANGED vars
    <3>1. TabStays(u)
      BY <2>1 DEF Others, vars, TabStays
    <3>. QED  BY <1>2, <3>1, StaysTrue DEF IInv
  <2>2. ASSUME NEW t \in Tab, Step(t) PROVE TabTrue(u)'
    <3>1. CASE u = t
      BY <1>2, <2>2, <3>1, StepTrue
    <3>2. CASE u # t
      <4>1. TabStays(u)
        BY <2>2, <3>2, OtherTabs DEF IInv
      <4>. QED  BY <1>2, <4>1, StaysTrue DEF IInv
    <3>. QED  BY <3>1, <3>2
  <2>. QED  BY <2>1, <2>2 DEF Next
<1>. QED  BY <1>1, <1>3 DEF IInv

LEMMA InitTrue == Init => IInv
<1>. SUFFICES ASSUME Init PROVE IInv
  OBVIOUS
<1>1. ASSUME NEW t \in Tab PROVE TabTrue(t)
  <2>1. pc[t] = "idle" /\ shown[t].page = "away"
    BY DEF Init, Away, Page
  <2>. QED  BY <2>1 DEF TabTrue, PostFromPage, ChosenYear, Accepting, FoundSettled, BannerTrue
<1>. QED  BY <1>1, InitTyping DEF IInv

LEMMA Invariant == Spec => []IInv
BY InitTrue, NextTrue, PTL DEF Spec

\* Whatever happens between the submit and the page it ends on, an accepted or
\* rejected banner is about a note that was accepted or rejected, and gives the year
\* that is recorded.
THEOREM Banners == Spec => []BannerTruthful
<1>1. IInv => BannerTruthful
  BY DEF IInv, TabTrue, BannerTrue, BannerTruthful
<1>. QED  BY <1>1, Invariant, PTL

\* No acceptance of a note with two years open falls back to a year the user did not
\* choose on the page the submit was made on.
THEOREM ChosenYears == Spec => []YearChosenByUser
<1>1. IInv => YearChosenByUser
  BY DEF IInv, TabTrue, ChosenYear, YearChosenByUser
<1>. QED  BY <1>1, Invariant, PTL

-------------------------------------------------------------------------------
(* The year that is named is the year that is recorded.                      *)

LEMMA ComplianceYearIs ==
  ASSUME NEW m \in Int, NEW y \in Int
  PROVE  ComplianceYear(m) = y <=> 12 * y + 1 <= m /\ m <= 12 * y + 12
<1>. DEFINE uy == UkYear(m)  um == UkMonth(m)
<1>1. uy \in Int /\ um \in 1 .. 12 /\ m = 12 * uy + um - 1
  BY SMT DEF UkYear, UkMonth
<1>2. ComplianceYear(m) = IF um = 1 THEN uy - 1 ELSE uy
  BY DEF ComplianceYear, January
<1>. HIDE DEF uy, um
<1>3. CASE um = 1
  BY <1>1, <1>2, <1>3
<1>4. CASE um # 1
  BY <1>1, <1>2, <1>4
<1>. QED  BY <1>3, <1>4

\* The years of December waste over the months: none, its own, either, the next one,
\* none.  2025's has rules of its own.
LEMMA DecemberWasteMonths ==
  ASSUME NEW m \in Int, NEW n, NEW y \in Nat \ {NoYear, NoChoiceYear}, n.year = y, n.decemberWaste,
         NEW d \in Int, d = MonthIndex(y, December)
  PROVE  /\ m < d - 10               => AvailableYears(n, m) = {}
         /\ d - 10 <= m /\ m < d     => AvailableYears(n, m) = {y}
         /\ d <= m /\ m < d + 2      => AvailableYears(n, m) = {y, y + 1}
         /\ d + 2 <= m /\ m < d + 14 => AvailableYears(n, m) = {y + 1}
         /\ d + 14 <= m              => AvailableYears(n, m) = {}
<1>1. d = 12 * y + 11 /\ y \in Int /\ y + 1 \in Int
  BY DEF MonthIndex, December
<1>2. ComplianceYear(m) \in Int
  BY SMT DEF ComplianceYear, UkYear
<1>3. ComplianceYear(m) = y <=> d - 10 <= m /\ m < d + 2
  BY <1>1, ComplianceYearIs
<1>4. ComplianceYear(m) = y + 1 <=> d + 2 <= m /\ m < d + 14
  <2>1. ComplianceYear(m) = y + 1 <=> 12 * (y + 1) + 1 <= m /\ m <= 12 * (y + 1) + 12
    BY <1>1, ComplianceYearIs
  <2>. QED  BY <1>1, <2>1
<1>5. y > ComplianceYear(m) <=> m < d - 10
  <2>. DEFINE c == ComplianceYear(m)
  <2>1. c \in Int /\ 12 * c + 1 <= m /\ m <= 12 * c + 12
    BY <1>2, ComplianceYearIs
  <2>. HIDE DEF c
  <2>2. y > c <=> m < d - 10
    BY <1>1, <2>1
  <2>. QED  BY <2>2 DEF c
<1>6. InChoiceWindow(y, m) <=> d <= m /\ m < d + 2
  BY <1>1 DEF InChoiceWindow, MonthIndex, December, February
<1>7. ~IsNoChoice(y, m)
  BY DEF IsNoChoice
<1>8. AvailableYears(n, m) = IF y > ComplianceYear(m) THEN {}
                             ELSE IF InChoiceWindow(y, m) THEN {y, y + 1}
                             ELSE {y, y + 1} \cap {ComplianceYear(m)}
  BY <1>7 DEF AvailableYears, DecemberWasteYears
<1>. DEFINE c == ComplianceYear(m)  a == AvailableYears(n, m)
<1>9. a = IF m < d - 10 THEN {} ELSE IF d <= m /\ m < d + 2 THEN {y, y + 1} ELSE {y, y + 1} \cap {c}
  BY <1>5, <1>6, <1>8
<1>10. c \in Int /\ (c = y <=> d - 10 <= m /\ m < d + 2) /\ (c = y + 1 <=> d + 2 <= m /\ m < d + 14)
  BY <1>2, <1>3, <1>4
<1>. HIDE DEF c, a
<1>11. /\ m < d - 10               => a = {}
       /\ d - 10 <= m /\ m < d     => a = {y}
       /\ d <= m /\ m < d + 2      => a = {y, y + 1}
       /\ d + 2 <= m /\ m < d + 14 => a = {y + 1}
       /\ d + 14 <= m              => a = {}
  <2>1. m < d - 10 => a = {}
    BY <1>9
  <2>2. ASSUME d - 10 <= m, m < d PROVE a = {y}
    <3>1. c = y /\ a = {y, y + 1} \cap {c}
      BY <1>9, <1>10, <2>2
    <3>. QED  BY <3>1
  <2>3. ASSUME d <= m, m < d + 2 PROVE a = {y, y + 1}
    <3>1. ~(m < d - 10)
      BY <2>3
    <3>. QED  BY <1>9, <2>3, <3>1
  <2>4. ASSUME d + 2 <= m, m < d + 14 PROVE a = {y + 1}
    <3>1. ~(m < d - 10) /\ ~(m < d + 2) /\ c = y + 1
      BY <1>10, <2>4
    <3>2. a = {y, y + 1} \cap {c}
      BY <1>9, <3>1
    <3>. QED  BY <3>1, <3>2
  <2>5. ASSUME d + 14 <= m PROVE a = {}
    <3>1. ~(m < d - 10) /\ ~(m < d + 2) /\ c # y + 1 /\ c # y
      BY <1>10, <2>5
    <3>2. a = {y, y + 1} \cap {c}
      BY <1>9, <3>1
    <3>. QED  BY <3>1, <3>2
  <2>. QED  BY <2>1, <2>2, <2>3, <2>4, <2>5
<1>. QED  BY <1>11 DEF a

\* A choice is owed for December waste alone, in December and January.
LEMMA ChoiceMonths ==
  ASSUME NEW m \in Int, NEW n, NEW y \in Nat \ {NoYear}, n.year = y,
         n.decemberWaste => y # NoChoiceYear, HasYearChoice(n, m)
  PROVE  n.decemberWaste /\ MonthIndex(y, December) <= m /\ AvailableYears(n, m) = {y, y + 1}
<1>. DEFINE a == AvailableYears(n, m)
<1>1. a # {} /\ \A z \in a : a # {z}
  BY DEF HasYearChoice, CanMultiSelect
<1>2. ASSUME ~n.decemberWaste PROVE FALSE
  <2>1. a \subseteq {y}
    BY <1>2 DEF AvailableYears
  <2>2. PICK z \in a : TRUE
    BY <1>1
  <2>. HIDE DEF a
  <2>3. z = y /\ a = {z}
    BY <2>1, <2>2
  <2>. QED  BY <1>1, <2>3
<1>3. CASE n.decemberWaste
  <2>. DEFINE d == MonthIndex(y, December)
  <2>1. d \in Int /\ y \in Nat \ {NoYear, NoChoiceYear}
    BY <1>3 DEF MonthIndex, December
  <2>. HIDE DEF d
  <2>2. /\ m < d - 10               => a = {}
        /\ d - 10 <= m /\ m < d     => a = {y}
        /\ d <= m /\ m < d + 2      => a = {y, y + 1}
        /\ d + 2 <= m /\ m < d + 14 => a = {y + 1}
        /\ d + 14 <= m              => a = {}
    BY <1>3, <2>1, DecemberWasteMonths DEF d
  <2>. HIDE DEF a
  <2>3. a # {y} /\ a # {y + 1}
    BY <1>1
  <2>4. d <= m /\ m < d + 2
    BY <1>1, <2>1, <2>2, <2>3
  <2>. QED  BY <1>3, <2>2, <2>4 DEF a, d
<1>. QED  BY <1>2, <1>3

\* The year of a note with a single one.
LEMMA SingleYearTaken ==
  ASSUME NEW m, NEW n, NEW chosen, NEW y, n.decemberWaste, AvailableYears(n, m) = {y}
  PROVE  AcceptYear(n, chosen, m) = y
<1>1. CanMultiSelect(n, m) /\ (CHOOSE z \in AvailableYears(n, m) : TRUE) = y
  <2>1. (CHOOSE z \in AvailableYears(n, m) : TRUE) \in {y}
    OBVIOUS
  <2>. QED  BY <2>1 DEF CanMultiSelect
<1>2. CASE chosen \in AvailableYears(n, m)
  BY <1>2 DEF AcceptYear
<1>3. CASE chosen \notin AvailableYears(n, m)
  BY <1>1, <1>3 DEF AcceptYear
<1>. QED  BY <1>2, <1>3

LEMMA NoYearTaken ==
  ASSUME NEW m, NEW n, NEW chosen, AvailableYears(n, m) = {}
  PROVE  AcceptYear(n, chosen, m) = NoYear
BY DEF AcceptYear, CanMultiSelect

\* What was chosen: a year of December waste, no earlier than the December it is of.
ChosenIn(p, chosen, m) ==
    chosen # NoYear =>
        /\ p \in DecemberWaste /\ chosen \in {IssuedYear[p], IssuedYear[p] + 1}
        /\ MonthIndex(IssuedYear[p], December) <= m

Issued(p) == [id |-> p, status |-> "AwaitingAcceptance", year |-> IssuedYear[p],
              decemberWaste |-> p \in DecemberWaste]

LEMMA IssuedFacts ==
  ASSUME NEW p \in Prn
  PROVE  /\ Issued(p) \in Note /\ Issued(p).year = IssuedYear[p]
         /\ Issued(p).decemberWaste = (p \in DecemberWaste)
         /\ IssuedYear[p] \in Nat \ {NoYear} /\ IsEditable(Issued(p))
BY BackendAssumption DEF Issued, Note, Status, IsEditable

\* No more than two months apart, two decisions that owe no choice name one year,
\* unless what was chosen has gone: for December waste the two months of the choice
\* lie between the two years it may be accepted into alone.
LEMMA SameYear ==
  ASSUME NEW p \in Prn, p \in DecemberWaste => IssuedYear[p] # NoChoiceYear,
         NEW chosen \in Nat, NEW m \in Nat, NEW k \in Nat, m <= k, k <= m + 2,
         ChosenIn(p, chosen, m), ~ChoiceRequired(Issued(p), chosen, m),
         ~ChoiceRequired(Issued(p), chosen, k), ~StaleChoice(Issued(p), chosen, k),
         AvailableYears(Issued(p), k) # {}
  PROVE  RecordedYear(Issued(p), AcceptYear(Issued(p), chosen, m))
           = RecordedYear(Issued(p), AcceptYear(Issued(p), chosen, k))
<1>. DEFINE n == Issued(p)  y == IssuedYear[p]
<1>1. n \in Note /\ n.year = y /\ n.decemberWaste = (p \in DecemberWaste) /\ y \in Nat \ {NoYear}
  BY IssuedFacts
<1>. HIDE DEF n
<1>2. NoYear \notin AvailableYears(n, m) /\ NoYear \notin AvailableYears(n, k)
  BY <1>1, YearsOffered
<1>3. CASE p \notin DecemberWaste
  <2>1. chosen = NoYear
    BY <1>3 DEF ChosenIn
  <2>. QED  BY <1>1, <1>2, <1>3, <2>1 DEF AcceptYear, n
<1>4. CASE p \in DecemberWaste
  <2>. DEFINE d == MonthIndex(y, December)
  <2>1. d \in Int /\ y \in Nat \ {NoYear, NoChoiceYear} /\ y + 1 # y /\ y + 1 # NoYear
    BY <1>1, <1>4 DEF MonthIndex, December, NoYear
  <2>2. \A i \in {m, k} :
           /\ i < d - 10               => AvailableYears(n, i) = {}
           /\ d - 10 <= i /\ i < d     => AvailableYears(n, i) = {y}
           /\ d <= i /\ i < d + 2      => AvailableYears(n, i) = {y, y + 1}
           /\ d + 2 <= i /\ i < d + 14 => AvailableYears(n, i) = {y + 1}
           /\ d + 14 <= i              => AvailableYears(n, i) = {}
    <3>. SUFFICES ASSUME NEW i \in {m, k}
                  PROVE  /\ i < d - 10               => AvailableYears(n, i) = {}
                         /\ d - 10 <= i /\ i < d     => AvailableYears(n, i) = {y}
                         /\ d <= i /\ i < d + 2      => AvailableYears(n, i) = {y, y + 1}
                         /\ d + 2 <= i /\ i < d + 14 => AvailableYears(n, i) = {y + 1}
                         /\ d + 14 <= i              => AvailableYears(n, i) = {}
      OBVIOUS
    <3>1. i \in Int
      OBVIOUS
    <3>. HIDE DEF d, y
    <3>. QED  BY <1>1, <1>4, <2>1, <3>1, DecemberWasteMonths DEF d
  <2>. HIDE DEF d
  <2>3. \A i \in {m, k} : AvailableYears(n, i) = {y} => AcceptYear(n, chosen, i) = y
    BY <1>1, <1>4, SingleYearTaken
  <2>4. \A i \in {m, k} : AvailableYears(n, i) = {y + 1} => AcceptYear(n, chosen, i) = y + 1
    BY <1>1, <1>4, SingleYearTaken
  <2>5. \A i \in {m, k} : AvailableYears(n, i) = {} => AcceptYear(n, chosen, i) = NoYear
    BY NoYearTaken
  <2>6. \A i \in {m, k} : AvailableYears(n, i) = {y, y + 1} =>
           chosen \in {y, y + 1} /\ AcceptYear(n, chosen, i) = chosen
    <3>. SUFFICES ASSUME NEW i \in {m, k}, AvailableYears(n, i) = {y, y + 1}
                  PROVE  chosen \in {y, y + 1} /\ AcceptYear(n, chosen, i) = chosen
      OBVIOUS
    <3>1. ~ChoiceRequired(n, chosen, i)
      BY DEF n
    <3>2. HasYearChoice(n, i)
      <4>1. \A z : {y, y + 1} # {z}
        BY <2>1
      <4>. QED  BY <4>1 DEF HasYearChoice, CanMultiSelect
    <3>3. chosen \in {y, y + 1}
      BY <3>1, <3>2 DEF ChoiceRequired
    <3>. QED  BY <3>3 DEF AcceptYear
  <2>7. CASE chosen # NoYear
    <3>1. chosen \in {y, y + 1} /\ d <= m
      BY <2>7 DEF ChosenIn, d
    <3>2. chosen \in AvailableYears(n, k)
      <4>2. ~StaleChoice(n, chosen, k) /\ ~ChoiceRequired(n, chosen, k)
        BY DEF n
      <4>3. CanMultiSelect(n, k) \/ HasYearChoice(n, k)
        BY DEF HasYearChoice, n
      <4>. QED  BY <1>1, <1>4, <2>7, <4>2, <4>3 DEF StaleChoice, ChoiceRequired
    <3>3. AcceptYear(n, chosen, k) = chosen
      BY <3>2 DEF AcceptYear
    <3>4. k < d + 14
      BY <2>1, <2>2, <3>2
    <3>5. CASE m < d + 2
      <4>1. AcceptYear(n, chosen, m) = chosen
        BY <2>2, <2>6, <3>1, <3>5
      <4>. QED  BY <3>3, <4>1 DEF n
    <3>6. CASE d + 2 <= m
      <4>1. d + 2 <= k /\ m < d + 14
        BY <2>1, <3>4, <3>6
      <4>2. AvailableYears(n, k) = {y + 1} /\ AvailableYears(n, m) = {y + 1}
        BY <2>2, <3>4, <3>6, <4>1
      <4>3. AcceptYear(n, chosen, m) = y + 1 /\ AcceptYear(n, chosen, k) = y + 1
        BY <2>4, <4>2
      <4>. QED  BY <4>3 DEF n
    <3>. QED  BY <2>1, <3>5, <3>6
  <2>8. CASE chosen = NoYear
    <3>1. \A i \in {m, k} : AvailableYears(n, i) # {y, y + 1}
      BY <1>1, <2>1, <2>6, <2>8
    <3>2. CASE k < d
      <4>1. AvailableYears(n, k) = {y}
        <5>1. ~(k < d - 10)
          BY <2>2 DEF n
        <5>. QED  BY <2>1, <2>2, <3>2, <5>1
      <4>2. AvailableYears(n, m) = {y} \/ AvailableYears(n, m) = {}
        <5>1. m < d /\ (m < d - 10 \/ d - 10 <= m)
          BY <2>1, <3>2
        <5>. QED  BY <2>2, <5>1
      <4>3. AcceptYear(n, chosen, k) = y /\ AcceptYear(n, chosen, m) \in {y, NoYear}
        BY <2>3, <2>5, <4>1, <4>2
      <4>. QED  BY <1>1, <4>3 DEF RecordedYear, n
    <3>3. CASE d <= k
      <4>1. ~(k < d + 2) /\ ~(d + 14 <= k)
        BY <2>2, <3>1, <3>3 DEF n
      <4>2. d + 2 <= k /\ k < d + 14
        BY <2>1, <4>1
      <4>3. d <= m /\ m < d + 14
        BY <2>1, <4>2
      <4>4. d + 2 <= m
        <5>1. ~(m < d + 2)
          BY <2>2, <3>1, <4>3
        <5>. QED  BY <2>1, <5>1
      <4>5. AvailableYears(n, k) = {y + 1} /\ AvailableYears(n, m) = {y + 1}
        BY <2>2, <4>2, <4>3, <4>4
      <4>6. AcceptYear(n, chosen, m) = y + 1 /\ AcceptYear(n, chosen, k) = y + 1
        BY <2>4, <4>5
      <4>. QED  BY <4>6 DEF n
    <3>. QED  BY <2>1, <3>2, <3>3
  <2>. QED  BY <2>7, <2>8
<1>. QED  BY <1>3, <1>4

\* The journey is as long as the moments that pass, and a note that awaits acceptance
\* is as it was issued.
Calendar == clock.month <= clock.from + clock.now /\ clock.now <= MaxTicks

AsIssued == \A p \in Prn : IsEditable(prn[p]) => prn[p] = Issued(p)

Found(t) == IsEditable(loaded[t]) => loaded[t] = Issued(NoteOf[t])

\* A confirmation page names what was decided in some month of the journey.
Drawn(t, m) ==
    LET n == Issued(NoteOf[t])
        c == shown[t].chosen
    IN  /\ shown[t].years = {RecordedYear(n, AcceptYear(n, c, m))}
        /\ ~ChoiceRequired(n, c, m) /\ ChosenIn(NoteOf[t], c, m)

Named(t) ==
    shown[t].page = "confirmAccept" => \E m \in clock.from .. clock.month : Drawn(t, m)

\* The addresses carry years that were on offer.
Since(t) ==
    /\ \A y \in kept[t] : ChosenIn(NoteOf[t], y, clock.month)
    /\ req[t].kind = "acceptGet" => ChosenIn(NoteOf[t], req[t].chosen, clock.month)

AsNamed(t) ==
    Accepting(t) /\ AvailableYears(loaded[t], sent[t].month) # {} =>
        shown[t].years = {RecordedYear(loaded[t], sent[t].year)}

YearTrue(t) == Named(t) /\ Since(t) /\ Found(t) /\ AsNamed(t)

YearInv == IInv /\ Calendar /\ AsIssued /\ \A t \in Tab : YearTrue(t)

Later ==
    /\ clock'.from = clock.from /\ clock'.month \in Nat
    /\ clock.month <= clock'.month

LEMMA ClockMoves ==
  ASSUME Types, Calendar, [Next]_vars
  PROVE  Later /\ Calendar'
<1>0. /\ clock.month \in Nat /\ clock.now \in Nat /\ clock.from \in Nat /\ MaxTicks \in Nat
      /\ clock = [now |-> clock.now, month |-> clock.month, from |-> clock.from]
  BY BackendAssumption DEF Types, TypeOK, BackendTypeOK, Moment
<1>1. CASE clock' = clock
  BY <1>0, <1>1 DEF Later, Calendar
<1>2. CASE Tick
  <2>1. PICK step \in {0, 1} : clock' = [clock EXCEPT !.now = @ + 1, !.month = @ + step]
    BY <1>2, BackendAssumption DEF Tick
  <2>2. /\ clock'.now = clock.now + 1 /\ clock'.month = clock.month + step
        /\ clock'.from = clock.from
    BY <1>0, <2>1
  <2>3. clock.now < MaxTicks
    BY <1>2 DEF Tick
  <2>4. clock.month <= clock.from + clock.now
    BY DEF Calendar
  <2>5. Later
    BY <1>0, <2>2 DEF Later
  <2>. QED  BY <1>0, <2>2, <2>3, <2>4, <2>5 DEF Calendar
<1>3. CASE Others
  BY <1>1, <1>2, <1>3 DEF Others, Environment, OthersAccept, OthersWithdraw
<1>4. ASSUME NEW t \in Tab, Step(t) PROVE clock' = clock
  BY <1>4 DEF Step, Begin, Load, LoadFails, NoteGet, ConfirmedGet, ChooseYear,
     ConfirmAcceptGet, ConfirmAcceptPost, ConfirmRejectGet, ConfirmRejectPost, ApiApplies,
     ApiRefuses, Answered, Show, Respond, Send
<1>5. CASE UNCHANGED vars
  BY <1>1, <1>5 DEF vars
<1>. QED  BY <1>1, <1>3, <1>4, <1>5 DEF Next

\* A note that awaits acceptance was not touched.
LEMMA AwaitingUntouched ==
  ASSUME Types, [Next]_vars
  PROVE  \A p \in Prn : IsEditable(prn'[p]) => prn'[p] = prn[p]
<1>. DEFINE Untouched == \A p \in Prn : IsEditable(prn'[p]) => prn'[p] = prn[p]
<1>0. prn \in [Prn -> Note]
  BY DEF Types, TypeOK, BackendTypeOK
<1>1. CASE UNCHANGED prn
  BY <1>1
<1>2. ASSUME NEW q \in Prn, NEW y, AcceptAll({q}, y) PROVE Untouched
  <2>1. ASSUME NEW p \in Prn PROVE p # q => prn'[p] = prn[p]
    BY <1>2 DEF AcceptAll
  <2>2. prn'[q] = [prn[q] EXCEPT !.status = "Accepted", !.year = y]
    BY <1>2 DEF AcceptAll
  <2>3. prn'[q].status = "Accepted"
    BY <1>0, <2>2 DEF Note
  <2>. QED  BY <2>1, <2>3 DEF IsEditable
<1>3. ASSUME NEW q \in Prn, NEW s, s # "AwaitingAcceptance", prn' = [prn EXCEPT ![q].status = s]
      PROVE  Untouched
  <2>1. ASSUME NEW p \in Prn PROVE p # q => prn'[p] = prn[p]
    BY <1>0, <1>3
  <2>2. prn'[q].status = s
    BY <1>0, <1>3 DEF Note
  <2>. QED  BY <1>3, <2>1, <2>2 DEF IsEditable
<1>4. CASE Others
  <2>1. ASSUME NEW q \in Contested, OthersAccept(q) PROVE Untouched
    BY <1>2, <2>1, BackendAssumption DEF OthersAccept
  <2>2. ASSUME NEW q \in Contested, OthersWithdraw(q) PROVE Untouched
    <3>1. PICK s \in Withdrawn : prn' = [prn EXCEPT ![q].status = s]
      BY <2>2 DEF OthersWithdraw
    <3>. QED  BY <1>3, <3>1, BackendAssumption DEF Withdrawn
  <2>3. Tick => UNCHANGED prn
    BY DEF Tick
  <2>. QED  BY <1>1, <1>4, <2>1, <2>2, <2>3 DEF Others, Environment
<1>5. ASSUME NEW t \in Tab, ApiApplies(t) PROVE Untouched
  <2>1. NoteOf[t] \in Prn
    BY SingleAssumption
  <2>. QED  BY <1>2, <1>3, <1>5, <2>1 DEF ApiApplies
<1>6. ASSUME NEW t \in Tab, Step(t) PROVE Untouched
  BY <1>1, <1>5, <1>6 DEF Step, Begin, Load, LoadFails, NoteGet, ConfirmedGet, ChooseYear,
     ConfirmAcceptGet, ConfirmAcceptPost, ConfirmRejectGet, ConfirmRejectPost, ApiRefuses,
     Answered, Show, Respond, Send
<1>7. CASE UNCHANGED vars
  BY <1>1, <1>7 DEF vars
<1>. QED  BY <1>4, <1>6, <1>7 DEF Next

LEMMA ChosenStays ==
  ASSUME NEW p \in Prn, NEW c, NEW m \in Nat, NEW k \in Nat, m <= k, ChosenIn(p, c, m)
  PROVE  ChosenIn(p, c, k)
<1>1. MonthIndex(IssuedYear[p], December) \in Int
  BY BackendAssumption DEF MonthIndex, December
<1>. QED  BY <1>1 DEF ChosenIn

\* What a tab shows and decided stays true of it while time passes.
LEMMA YearStaysTrue ==
  ASSUME YearInv, NEW t \in Tab, TabStays(t), kept'[t] = kept[t], Later
  PROVE  YearTrue(t)'
<1>0. /\ YearTrue(t) /\ NoteOf[t] \in Prn
      /\ clock.month \in Nat /\ clock.from \in Nat /\ clock'.month \in Nat
      /\ clock.month <= clock'.month /\ clock'.from = clock.from
  BY SingleAssumption DEF YearInv, IInv, Types, TypeOK, BackendTypeOK, Moment, Later
<1>1. Named(t)'
  <2>1. \A m : Drawn(t, m)' <=> Drawn(t, m)
    BY DEF Drawn, TabStays
  <2>2. clock.from .. clock.month \subseteq clock'.from .. clock'.month
    BY <1>0
  <2>. QED  BY <1>0, <2>1, <2>2 DEF Named, YearTrue, TabStays
<1>2. Since(t)'
  BY <1>0, ChosenStays DEF Since, YearTrue, TabStays
<1>3. Found(t)' /\ AsNamed(t)'
  BY <1>0 DEF Found, AsNamed, Accepting, YearTrue, TabStays
<1>. QED  BY <1>1, <1>2, <1>3 DEF YearTrue

\* A page other than the confirmation names nothing.
LEMMA YearShowTrue ==
  ASSUME YearInv, NEW t \in Tab, NEW page, Respond(t, page), kept' = kept,
         page.page # "confirmAccept"
  PROVE  YearTrue(t)'
<1>1. /\ shown'[t] = page /\ pc'[t] = "idle" /\ req'[t] = NoRequest /\ clock' = clock
      /\ loaded'[t] = NothingLoaded(t)
  BY DEF Respond, YearInv, IInv, Types, TypeOK
<1>2. req'[t].kind = "none" /\ loaded'[t].status = "Gone"
  BY <1>1 DEF NoRequest, Request, NothingLoaded
<1>3. Since(t)'
  BY <1>1, <1>2 DEF YearInv, YearTrue, Since
<1>. QED  BY <1>1, <1>2, <1>3 DEF YearTrue, Named, Found, AsNamed, Accepting, IsEditable

LEMMA YearStepTrue ==
  ASSUME YearInv, NEW t \in Tab, Step(t), MaxTicks <= 2,
         \A p \in DecemberWaste : IssuedYear[p] # NoChoiceYear
  PROVE  YearTrue(t)'
<1>. DEFINE p == NoteOf[t]
<1>0. /\ Types /\ TabTrue(t) /\ YearTrue(t) /\ p \in Prn
      /\ clock.month \in Nat /\ clock.from \in Nat /\ clock.from <= clock.month
      /\ clock.month <= clock.from + 2
      /\ req[t].chosen \in Nat /\ loaded[t] \in Note
  <2>1. /\ clock.month \in Nat /\ clock.from \in Nat /\ clock.now \in Nat
        /\ clock.from <= clock.month
        /\ clock.month <= clock.from + clock.now /\ clock.now <= MaxTicks
    BY DEF YearInv, IInv, Types, TypeOK, BackendTypeOK, Moment, Calendar
  <2>2. clock.month <= clock.from + 2
    BY <2>1, BackendAssumption
  <2>3. req[t].chosen \in Nat /\ loaded[t] \in Note
    BY DEF YearInv, IInv, Types, TypeOK
  <2>. QED  BY <2>1, <2>2, <2>3, SingleAssumption DEF YearInv, IInv
<1>. HIDE DEF p
<1>1. ASSUME NEW page, Show(t, page), page.page # "confirmAccept" PROVE YearTrue(t)'
  BY <1>1, YearShowTrue DEF Show
<1>2. Away.page # "confirmAccept"
  BY DEF Away, Page
<1>3. CASE Begin(t)
  <2>1. PICK q \in Links(t) \cup FormsOf(shown[t]) : req' = [req EXCEPT ![t] = q]
    BY <1>3 DEF Begin
  <2>2. req'[t] = q /\ pc'[t] = "loading"
    BY <1>0, <1>3, <2>1 DEF Begin, Types, TypeOK
  <2>3. ASSUME q.kind = "acceptGet" PROVE ChosenIn(NoteOf[t], q.chosen, clock.month)
    <3>1. q.chosen \in kept[t] \cup {NoYear}
      BY <2>3 DEF Links, FormsOf, Request
    <3>. QED  BY <1>0, <3>1 DEF YearTrue, Since, ChosenIn
  <2>. QED  BY <1>0, <1>3, <2>2, <2>3 DEF Begin, YearTrue, Named, Drawn, Since, Found, AsNamed, Accepting
<1>4. CASE Load(t)
  <2>1. loaded'[t] = prn[NoteOf[t]] /\ pc'[t] = "handler"
    BY <1>0, <1>4 DEF Load, Types, TypeOK
  <2>2. Found(t)'
    BY <1>0, <1>4, <2>1 DEF Load, Found, YearInv, AsIssued, p
  <2>. QED  BY <1>0, <1>4, <2>1, <2>2 DEF Load, YearTrue, Named, Drawn, Since, AsNamed, Accepting
<1>5. CASE LoadFails(t) \/ Answered(t)
  BY <1>1, <1>2, <1>5 DEF LoadFails, Answered
<1>6. ASSUME NEW c \in BOOLEAN PROVE NotePage(loaded[t], c).page # "confirmAccept"
  BY DEF NotePage, Page, BannerPage
<1>7. CASE NoteGet(t) \/ ConfirmedGet(t)
  BY <1>1, <1>6, <1>7 DEF NoteGet, ConfirmedGet
<1>8. CASE ChooseYear(t)
  <2>1. CASE Show(t, Page("choose", Offers(t), NoYear))
    BY <1>1, <2>1 DEF Page
  <2>2. CASE Respond(t, Away) /\ kept' = kept
    BY <1>2, <2>2, YearShowTrue
  <2>3. CASE /\ Respond(t, Away) /\ ChooseApplies(t) /\ req[t].chosen \in Offers(t)
             /\ kept' = [kept EXCEPT ![t] = @ \cup {req[t].chosen}]
    <3>1. /\ shown'[t] = Away /\ pc'[t] = "idle" /\ req'[t] = NoRequest
          /\ loaded'[t] = NothingLoaded(t) /\ clock' = clock
          /\ kept'[t] = kept[t] \cup {req[t].chosen}
      BY <1>0, <2>3 DEF Respond, Types, TypeOK
    <3>2. loaded[t] = Issued(p)
      BY <1>0, <2>3 DEF ChooseApplies, YearTrue, Found, p
    <3>3. HasYearChoice(Issued(p), clock.month) /\ req[t].chosen \in AvailableYears(Issued(p), clock.month)
      BY <2>3, <3>2 DEF ChooseApplies, Offers
    <3>4. /\ p \in DecemberWaste /\ MonthIndex(IssuedYear[p], December) <= clock.month
          /\ AvailableYears(Issued(p), clock.month) = {IssuedYear[p], IssuedYear[p] + 1}
      <4>1. /\ Issued(p).year = IssuedYear[p] /\ IssuedYear[p] \in Nat \ {NoYear}
            /\ Issued(p).decemberWaste = (p \in DecemberWaste) /\ clock.month \in Int
        BY <1>0, IssuedFacts
      <4>. QED  BY <3>3, <4>1, ChoiceMonths
    <3>5. ChosenIn(p, req[t].chosen, clock.month)
      BY <3>3, <3>4 DEF ChosenIn
    <3>6. Since(t)'
      BY <1>0, <3>1, <3>5 DEF YearTrue, Since, p, NoRequest, Request
    <3>7. loaded'[t].status = "Gone" /\ shown'[t].page # "confirmAccept"
      BY <1>2, <3>1 DEF NothingLoaded
    <3>. QED  BY <3>1, <3>6, <3>7 DEF YearTrue, Named, Found, AsNamed, Accepting, IsEditable
  <2>. QED  BY <1>8, <2>1, <2>2, <2>3 DEF ChooseYear
<1>9. CASE ConfirmAcceptGet(t)
  <2>1. CASE Show(t, Away)
    BY <1>1, <1>2, <2>1
  <2>2. CASE AcceptApplies(t) /\ ~Show(t, Away)
    <3>. DEFINE c    == req[t].chosen
                n    == Issued(p)
                year == RecordedYear(n, AcceptYear(n, c, clock.month))
    <3>1. loaded[t] = n
      BY <1>0, <2>2 DEF AcceptApplies, YearTrue, Found, p
    <3>2. Show(t, Page("confirmAccept", {year}, c)) /\ ~ChoiceRequired(n, c, clock.month)
      BY <1>9, <2>2, <3>1 DEF ConfirmAcceptGet, AcceptApplies
    <3>3. ChosenIn(p, c, clock.month)
      BY <1>0, <1>9 DEF ConfirmAcceptGet, Handling, YearTrue, Since, p
    <3>4. /\ shown'[t] = Page("confirmAccept", {year}, c) /\ pc'[t] = "idle"
          /\ req'[t] = NoRequest /\ loaded'[t] = NothingLoaded(t)
          /\ clock' = clock /\ kept' = kept
      BY <1>0, <3>2 DEF Show, Respond, Types, TypeOK
    <3>5. shown'[t].years = {year} /\ shown'[t].chosen = c
      BY <3>4 DEF Page
    <3>6. Drawn(t, clock.month)'
      BY <3>2, <3>3, <3>4, <3>5 DEF Drawn, p
    <3>7. clock.month \in clock'.from .. clock'.month
      BY <1>0, <3>4
    <3>8. Named(t)'
      BY <3>4, <3>6, <3>7 DEF Named
    <3>9. Since(t)'
      BY <1>0, <3>4 DEF YearTrue, Since, NoRequest, Request
    <3>10. loaded'[t].status = "Gone"
      BY <3>4 DEF NothingLoaded
    <3>. QED  BY <3>4, <3>8, <3>9, <3>10 DEF YearTrue, Found, AsNamed, Accepting, IsEditable
  <2>. QED  BY <1>9, <2>1, <2>2 DEF ConfirmAcceptGet
<1>10. CASE ConfirmRejectGet(t)
  BY <1>1, <1>2, <1>10 DEF ConfirmRejectGet, Page
<1>11. CASE ConfirmAcceptPost(t)
  <2>. DEFINE c == req[t].chosen
              n == Issued(p)
  <2>1. CASE Show(t, Away)
    BY <1>1, <1>2, <2>1
  <2>2. CASE /\ AcceptApplies(t) /\ ~StaleChoice(loaded[t], c, clock.month)
             /\ Send(t, "Accepted", AcceptYear(loaded[t], c, clock.month))
    <3>1. loaded[t] = n /\ ~ChoiceRequired(n, c, clock.month) /\ ~StaleChoice(n, c, clock.month)
      BY <1>0, <2>2 DEF AcceptApplies, YearTrue, Found, p
    <3>2. /\ shown' = shown /\ loaded' = loaded /\ req' = req /\ kept' = kept /\ clock' = clock
          /\ sent'[t].month = clock.month /\ sent'[t].year = AcceptYear(n, c, clock.month)
      BY <1>0, <2>2, <3>1 DEF Send, Types, TypeOK
    <3>3. shown[t].page = "confirmAccept" /\ shown[t].chosen = c
      BY <1>0, <1>11 DEF ConfirmAcceptPost, Handling, TabTrue, PostFromPage
    <3>4. PICK m \in clock.from .. clock.month : Drawn(t, m)
      BY <1>0, <3>3 DEF YearTrue, Named
    <3>5. /\ shown[t].years = {RecordedYear(n, AcceptYear(n, c, m))}
          /\ ~ChoiceRequired(n, c, m) /\ ChosenIn(p, c, m)
      BY <3>3, <3>4 DEF Drawn, p
    <3>6. m \in Nat /\ m <= clock.month /\ clock.month <= m + 2
      BY <1>0
    <3>7. ASSUME AvailableYears(n, clock.month) # {}
          PROVE  shown[t].years = {RecordedYear(n, AcceptYear(n, c, clock.month))}
      BY <1>0, <3>1, <3>5, <3>6, <3>7, SameYear
    <3>. HIDE DEF n, c
    <3>8. AsNamed(t)'
      BY <3>1, <3>2, <3>7 DEF AsNamed
    <3>9. Named(t)' /\ Since(t)' /\ Found(t)'
      BY <1>0, <3>2 DEF YearTrue, Named, Drawn, Since, Found
    <3>. QED  BY <3>8, <3>9 DEF YearTrue
  <2>. QED  BY <1>11, <2>1, <2>2 DEF ConfirmAcceptPost
<1>12. CASE ConfirmRejectPost(t)
  <2>1. CASE Show(t, Away)
    BY <1>1, <1>2, <2>1
  <2>2. CASE Send(t, "Rejected", NoYear)
    <3>1. /\ shown' = shown /\ loaded' = loaded /\ req' = req /\ kept' = kept /\ clock' = clock
          /\ sent'[t].status = "Rejected"
      BY <1>0, <2>2 DEF Send, Types, TypeOK
    <3>. QED  BY <1>0, <3>1 DEF YearTrue, Named, Drawn, Since, Found, AsNamed, Accepting
  <2>. QED  BY <1>12, <2>1, <2>2 DEF ConfirmRejectPost
<1>13. CASE ApiApplies(t) \/ ApiRefuses(t)
  <2>1. /\ pc'[t] \in {"applied", "conflict", "failed"}
        /\ UNCHANGED <<shown, req, loaded, kept, clock>>
    BY <1>0, <1>13 DEF ApiApplies, ApiRefuses, Types, TypeOK
  <2>. QED  BY <1>0, <2>1 DEF YearTrue, Named, Drawn, Since, Found, AsNamed, Accepting
<1>. QED
  BY <1>3, <1>4, <1>5, <1>6, <1>7, <1>8, <1>9, <1>10, <1>11, <1>12, <1>13 DEF Step

\* A step of one tab keeps the addresses of the others.
LEMMA OthersKept ==
  ASSUME Types, NEW t \in Tab, Step(t), NEW u \in Tab, u # t
  PROVE  kept'[u] = kept[u]
BY DEF Step, Begin, Load, LoadFails, NoteGet, ConfirmedGet, ChooseYear, ConfirmAcceptGet,
       ConfirmAcceptPost, ConfirmRejectGet, ConfirmRejectPost, ApiApplies, ApiRefuses,
       Answered, Show, Send, Types, TypeOK

LEMMA YearInitTrue ==
  ASSUME \A p \in DecemberWaste : IssuedYear[p] # NoChoiceYear
  PROVE  Init => YearInv
<1>. SUFFICES ASSUME Init PROVE YearInv
  OBVIOUS
<1>0. IInv /\ clock.month \in Nat /\ clock.from \in Nat /\ clock.from = clock.month /\ clock.now = 0
  BY InitTrue DEF IInv, Types, TypeOK, BackendTypeOK, Moment, Init, BackendInit
<1>1. \A p \in Prn : prn[p] = Issued(p)
  BY DEF Init, BackendInit, Issued
<1>2. Calendar
  BY <1>0, BackendAssumption DEF Calendar
<1>3. ASSUME NEW p \in Prn, NEW y \in EarlierYears(p) PROVE ChosenIn(p, y, clock.month)
  <2>1. PICK m \in clock.month - 2 .. clock.month :
           HasYearChoice(Issued(p), m) /\ y \in AvailableYears(Issued(p), m)
    BY <1>1, <1>3 DEF EarlierYears
  <2>2. /\ Issued(p).year = IssuedYear[p] /\ IssuedYear[p] \in Nat \ {NoYear}
        /\ Issued(p).decemberWaste = (p \in DecemberWaste)
    BY IssuedFacts
  <2>3. m \in Int /\ m <= clock.month
    BY <1>0
  <2>4. /\ p \in DecemberWaste /\ MonthIndex(IssuedYear[p], December) <= m
        /\ AvailableYears(Issued(p), m) = {IssuedYear[p], IssuedYear[p] + 1}
    BY <2>1, <2>2, <2>3, ChoiceMonths
  <2>5. MonthIndex(IssuedYear[p], December) \in Int
    BY <2>2 DEF MonthIndex, December
  <2>6. MonthIndex(IssuedYear[p], December) <= clock.month
    BY <1>0, <2>3, <2>4, <2>5
  <2>. QED  BY <2>1, <2>4, <2>6 DEF ChosenIn
<1>4. ASSUME NEW t \in Tab PROVE YearTrue(t)
  <2>1. /\ shown[t] = Away /\ pc[t] = "idle" /\ req[t] = NoRequest
        /\ loaded[t] = NothingLoaded(t) /\ kept[t] \subseteq EarlierYears(NoteOf[t])
    BY DEF Init
  <2>2. shown[t].page = "away" /\ req[t].kind = "none" /\ loaded[t].status = "Gone"
    BY <2>1 DEF Away, Page, NoRequest, Request, NothingLoaded
  <2>3. Since(t)
    BY <1>3, <2>1, <2>2, SingleAssumption DEF Since
  <2>. QED  BY <2>1, <2>2, <2>3 DEF YearTrue, Named, Found, AsNamed, Accepting, IsEditable
<1>. QED  BY <1>0, <1>1, <1>2, <1>4 DEF YearInv, AsIssued

LEMMA YearNextTrue ==
  ASSUME MaxTicks <= 2, \A p \in DecemberWaste : IssuedYear[p] # NoChoiceYear
  PROVE  YearInv /\ [Next]_vars => YearInv'
<1>. SUFFICES ASSUME YearInv, [Next]_vars PROVE YearInv'
  OBVIOUS
<1>1. IInv' /\ Types
  BY NextTrue DEF YearInv, IInv
<1>2. Later /\ Calendar'
  BY <1>1, ClockMoves DEF YearInv
<1>3. AsIssued'
  BY <1>1, AwaitingUntouched DEF YearInv, AsIssued
<1>4. ASSUME NEW u \in Tab PROVE YearTrue(u)'
  <2>1. CASE Others \/ UNCHANGED vars
    <3>1. TabStays(u) /\ kept'[u] = kept[u]
      BY <2>1 DEF Others, vars, TabStays
    <3>. QED  BY <1>2, <3>1, YearStaysTrue
  <2>2. ASSUME NEW t \in Tab, Step(t) PROVE YearTrue(u)'
    <3>1. CASE u = t
      BY <2>2, <3>1, YearStepTrue
    <3>2. CASE u # t
      <4>1. TabStays(u) /\ kept'[u] = kept[u]
        BY <1>1, <2>2, <3>2, OtherTabs, OthersKept
      <4>. QED  BY <1>2, <4>1, YearStaysTrue
    <3>. QED  BY <3>1, <3>2
  <2>. QED  BY <2>1, <2>2 DEF Next
<1>. QED  BY <1>1, <1>2, <1>3, <1>4 DEF YearInv

\* For any notes, tabs and months: the year an update records is the one the page in
\* front of the user names, as long as no more than two months pass while the journey
\* is open and no note is December waste of 2025.  Neither can be left out: that waste
\* moves on without a choice, and three months lead from before December to February.
THEOREM YearsNamed ==
  ASSUME MaxTicks <= 2, \A p \in DecemberWaste : IssuedYear[p] # NoChoiceYear
  PROVE  Spec => []RecordsTheYearNamed
<1>1. YearInv => RecordsTheYearNamed
  BY DEF YearInv, YearTrue, AsNamed, RecordsTheYearNamed
<1>. QED  BY <1>1, YearInitTrue, YearNextTrue, PTL DEF Spec

-------------------------------------------------------------------------------
(* The journey implements the ledger while its notes can be accepted.        *)

\* Every note can be accepted into some year in every month of the journey.
AlwaysOpen ==
    \A p \in Prn, m \in StartMonths, i \in 0 .. MaxTicks :
        AvailableYears(Issued(p), m + i) # {}

\* What an acceptance records was on offer when it was decided.
OfferedWhenSent(t) ==
    Accepting(t) =>
        /\ loaded[t] = Issued(NoteOf[t])
        /\ clock.from <= sent[t].month /\ sent[t].month <= clock.month
        /\ RecordedYear(loaded[t], sent[t].year) \in AvailableYears(loaded[t], sent[t].month)

LedgerInv ==
    /\ Types /\ Calendar /\ AsIssued /\ clock.from \in StartMonths
    /\ \A t \in Tab : Found(t) /\ OfferedWhenSent(t)

\* Where there is a year and no choice is owed, the one that is recorded is on offer.
LEMMA RecordsAnOffer ==
  ASSUME NEW n \in Note, NEW c \in Nat, NEW m \in Nat,
         AvailableYears(n, m) # {}, ~ChoiceRequired(n, c, m)
  PROVE  RecordedYear(n, AcceptYear(n, c, m)) \in AvailableYears(n, m)
<1>1. NoYear \notin AvailableYears(n, m)
  BY YearsOffered
<1>2. CASE c \in AvailableYears(n, m)
  BY <1>1, <1>2 DEF AcceptYear, RecordedYear
<1>3. CASE c \notin AvailableYears(n, m)
  <2>1. CanMultiSelect(n, m)
    BY <1>3 DEF ChoiceRequired, HasYearChoice
  <2>2. PICK y \in AvailableYears(n, m) : AvailableYears(n, m) = {y}
    BY <2>1 DEF CanMultiSelect
  <2>3. CASE n.decemberWaste
    <3>1. AcceptYear(n, c, m) = y
      BY <2>2, <2>3, SingleYearTaken
    <3>. QED  BY <1>1, <2>2, <3>1 DEF RecordedYear
  <2>4. CASE ~n.decemberWaste
    <3>1. AvailableYears(n, m) \subseteq {n.year}
      BY <2>4 DEF AvailableYears
    <3>2. AcceptYear(n, c, m) = NoYear
      BY <1>3, <2>4 DEF AcceptYear
    <3>. QED  BY <2>2, <3>1, <3>2 DEF RecordedYear
  <2>. QED  BY <2>3, <2>4
<1>. QED  BY <1>2, <1>3

LEMMA OpenNow ==
  ASSUME LedgerInv, AlwaysOpen, NEW p \in Prn
  PROVE  AvailableYears(Issued(p), clock.month) # {}
<1>1. /\ clock.month \in Nat /\ clock.from \in Nat /\ clock.now \in Nat /\ clock.from <= clock.month
      /\ clock.month <= clock.from + clock.now /\ clock.now <= MaxTicks /\ MaxTicks \in Nat
  BY BackendAssumption DEF LedgerInv, Types, TypeOK, BackendTypeOK, Moment, Calendar
<1>. DEFINE i == clock.month - clock.from
<1>2. i \in 0 .. MaxTicks /\ clock.from + i = clock.month
  BY <1>1
<1>. HIDE DEF i
<1>3. AvailableYears(Issued(p), clock.from + i) # {}
  BY <1>2 DEF AlwaysOpen, LedgerInv
<1>. QED  BY <1>2, <1>3

LEMMA OfferStays ==
  ASSUME LedgerInv, NEW t \in Tab, TabStays(t), Later
  PROVE  Found(t)' /\ OfferedWhenSent(t)'
<1>1. /\ clock.month \in Nat /\ clock'.month \in Nat /\ clock.month <= clock'.month
      /\ sent[t].month \in Nat /\ clock'.from = clock.from
  BY DEF LedgerInv, Types, TypeOK, BackendTypeOK, Moment, Sent, Later
<1>. QED  BY <1>1 DEF LedgerInv, TabStays, Found, OfferedWhenSent, Accepting

LEMMA OfferStep ==
  ASSUME LedgerInv, AlwaysOpen, NEW t \in Tab, Step(t)
  PROVE  Found(t)' /\ OfferedWhenSent(t)'
<1>. DEFINE p == NoteOf[t]
<1>0. /\ Types /\ Found(t) /\ OfferedWhenSent(t) /\ p \in Prn
      /\ clock.month \in Nat /\ clock.from <= clock.month
      /\ req[t].chosen \in Nat /\ loaded[t] \in Note
  <2>1. req[t].chosen \in Nat /\ loaded[t] \in Note /\ clock.month \in Nat /\ clock.from <= clock.month
    BY DEF LedgerInv, Types, TypeOK, BackendTypeOK, Moment
  <2>. QED  BY <2>1, SingleAssumption DEF LedgerInv
<1>. HIDE DEF p
<1>1. ASSUME NEW page, Respond(t, page) PROVE Found(t)' /\ OfferedWhenSent(t)'
  <2>1. pc'[t] = "idle" /\ loaded'[t] = NothingLoaded(t)
    BY <1>0, <1>1 DEF Respond, Types, TypeOK
  <2>2. loaded'[t].status = "Gone"
    BY <2>1 DEF NothingLoaded
  <2>. QED  BY <2>1, <2>2 DEF Found, OfferedWhenSent, Accepting, IsEditable
<1>2. CASE Begin(t) \/ ApiApplies(t) \/ ApiRefuses(t)
  <2>1. pc'[t] # "sending" /\ loaded' = loaded
    BY <1>0, <1>2 DEF Begin, ApiApplies, ApiRefuses, Types, TypeOK
  <2>. QED  BY <1>0, <2>1 DEF Found, OfferedWhenSent, Accepting
<1>3. CASE Load(t)
  <2>1. loaded'[t] = prn[p] /\ pc'[t] = "handler"
    BY <1>0, <1>3 DEF Load, Types, TypeOK, p
  <2>. QED  BY <1>0, <2>1 DEF Found, OfferedWhenSent, Accepting, LedgerInv, AsIssued, p
<1>4. CASE LoadFails(t) \/ NoteGet(t) \/ ConfirmedGet(t) \/ ChooseYear(t) \/ ConfirmAcceptGet(t)
           \/ ConfirmRejectGet(t) \/ Answered(t)
  BY <1>1, <1>4 DEF LoadFails, NoteGet, ConfirmedGet, ChooseYear, ConfirmAcceptGet,
                    ConfirmRejectGet, Answered, Show
<1>5. CASE ConfirmAcceptPost(t)
  <2>. DEFINE n    == loaded[t]
              year == AcceptYear(n, req[t].chosen, clock.month)
  <2>1. CASE Show(t, Away)
    BY <1>1, <2>1 DEF Show
  <2>2. CASE AcceptApplies(t) /\ Send(t, "Accepted", year)
    <3>1. n = Issued(p) /\ ~ChoiceRequired(n, req[t].chosen, clock.month)
      BY <1>0, <2>2 DEF AcceptApplies, Found, p
    <3>2. AvailableYears(n, clock.month) # {}
      BY <1>0, <3>1, OpenNow
    <3>3. RecordedYear(n, year) \in AvailableYears(n, clock.month)
      BY <1>0, <3>1, <3>2, RecordsAnOffer
    <3>4. /\ loaded' = loaded /\ clock' = clock
          /\ sent'[t].month = clock.month /\ sent'[t].year = year
      BY <1>0, <2>2 DEF Send, Types, TypeOK
    <3>. HIDE DEF year
    <3>5. clock.month <= clock.month
      BY <1>0
    <3>. QED  BY <1>0, <3>1, <3>3, <3>4, <3>5 DEF Found, OfferedWhenSent, p
  <2>. QED  BY <1>5, <2>1, <2>2 DEF ConfirmAcceptPost
<1>6. CASE ConfirmRejectPost(t)
  <2>1. CASE Show(t, Away)
    BY <1>1, <2>1 DEF Show
  <2>2. CASE Send(t, "Rejected", NoYear)
    <3>1. loaded' = loaded /\ sent'[t].status = "Rejected"
      BY <1>0, <2>2 DEF Send, Types, TypeOK
    <3>. QED  BY <1>0, <3>1 DEF Found, OfferedWhenSent, Accepting
  <2>. QED  BY <1>6, <2>1, <2>2 DEF ConfirmRejectPost
<1>. QED  BY <1>2, <1>3, <1>4, <1>5, <1>6 DEF Step

LEMMA LedgerInitTrue == Init => LedgerInv
<1>. SUFFICES ASSUME Init PROVE LedgerInv
  OBVIOUS
<1>0. Types /\ clock.month \in Nat /\ clock.from \in StartMonths /\ clock.from = clock.month /\ clock.now = 0
  BY InitTyping DEF Types, TypeOK, BackendTypeOK, Moment, Init, BackendInit
<1>1. AsIssued
  BY DEF Init, BackendInit, Issued, AsIssued
<1>2. Calendar
  BY <1>0, BackendAssumption DEF Calendar
<1>3. ASSUME NEW t \in Tab PROVE Found(t) /\ OfferedWhenSent(t)
  <2>1. pc[t] = "idle" /\ loaded[t].status = "Gone"
    BY DEF Init, NothingLoaded
  <2>. QED  BY <2>1 DEF Found, OfferedWhenSent, Accepting, IsEditable
<1>. QED  BY <1>0, <1>1, <1>2, <1>3 DEF LedgerInv

LEMMA LedgerNextTrue ==
  ASSUME AlwaysOpen
  PROVE  LedgerInv /\ [Next]_vars => LedgerInv'
<1>. SUFFICES ASSUME LedgerInv, [Next]_vars PROVE LedgerInv'
  OBVIOUS
<1>1. Types' /\ Types
  BY NextTyping DEF LedgerInv
<1>2. Later /\ Calendar'
  BY <1>1, ClockMoves DEF LedgerInv
<1>3. AsIssued' /\ clock'.from \in StartMonths
  BY <1>1, <1>2, AwaitingUntouched DEF LedgerInv, AsIssued, Later
<1>4. ASSUME NEW u \in Tab PROVE Found(u)' /\ OfferedWhenSent(u)'
  <2>1. CASE Others \/ UNCHANGED vars
    <3>1. TabStays(u)
      BY <2>1 DEF Others, vars, TabStays
    <3>. QED  BY <1>2, <3>1, OfferStays
  <2>2. ASSUME NEW t \in Tab, Step(t) PROVE Found(u)' /\ OfferedWhenSent(u)'
    <3>1. CASE u = t
      BY <2>2, <3>1, OfferStep
    <3>2. CASE u # t
      <4>1. TabStays(u)
        BY <1>1, <2>2, <3>2, OtherTabs
      <4>. QED  BY <1>2, <4>1, OfferStays
    <3>. QED  BY <3>1, <3>2
  <2>. QED  BY <2>1, <2>2 DEF Next
<1>. QED  BY <1>1, <1>2, <1>3, <1>4 DEF LedgerInv

LEMMA SameYears ==
  ASSUME NEW n, NEW m
  PROVE  Ledger!AvailableYears(n, m) = AvailableYears(n, m)
BY DEF Ledger!AvailableYears, AvailableYears, Ledger!DecemberWasteYears, DecemberWasteYears,
       Ledger!IsNoChoice, IsNoChoice, Ledger!InChoiceWindow, InChoiceWindow,
       Ledger!ComplianceYear, ComplianceYear, Ledger!UkYear, UkYear, Ledger!UkMonth, UkMonth,
       Ledger!MonthIndex, MonthIndex, Ledger!NoYear, NoYear,
       Ledger!NoChoiceYear, NoChoiceYear, Ledger!NoChoiceUntilYear, NoChoiceUntilYear,
       Ledger!January, January, Ledger!February, February, Ledger!December, December

\* One awaiting note that is accepted into a year it was offered for is a step of the
\* ledger.
LEMMA AcceptIsLedgerStep ==
  ASSUME Types, NEW p \in Prn, NEW m \in Nat, NEW y \in AvailableYears(prn[p], m),
         clock.from <= m, m <= clock.month, IsEditable(prn[p]), AcceptAll({p}, y), clock' = clock
  PROVE  Ledger!LedgerNext
<1>1. m \in Ledger!MonthsOpen
  <2>1. clock.from \in Nat /\ clock.month \in Nat
    BY DEF Types, TypeOK, BackendTypeOK, Moment
  <2>. QED  BY <2>1 DEF Ledger!MonthsOpen
<1>2. y \in Ledger!OfferedToAll({p}, m)
  <2>1. y \in Ledger!AvailableYears(prn[p], m)
    BY SameYears
  <2>. QED  BY <2>1 DEF Ledger!OfferedToAll
<1>3. prn' = [q \in Prn |-> IF q \in {p} THEN [prn[q] EXCEPT !.status = "Accepted", !.year = y]
                                         ELSE prn[q]]
  BY DEF AcceptAll
<1>4. Ledger!LedgerAccept({p})
  BY <1>1, <1>2, <1>3 DEF Ledger!LedgerAccept, IsEditable
<1>. QED  BY <1>4 DEF Ledger!LedgerNext

LEMMA WithdrawIsLedgerStep ==
  ASSUME NEW p \in Prn, NEW s \in Withdrawn, IsEditable(prn[p]),
         prn' = [prn EXCEPT ![p].status = s], clock' = clock
  PROVE  Ledger!LedgerNext
BY DEF IsEditable, Withdrawn, Ledger!Withdrawn, Ledger!LedgerWithdraw, Ledger!LedgerNext

LEMMA OthersLedger ==
  ASSUME Types, Others
  PROVE  Ledger!LedgerNext
<1>1. CASE Tick
  BY <1>1 DEF Tick, Ledger!Tick, Ledger!LedgerNext
<1>2. ASSUME NEW p \in Prn, OthersAccept(p) PROVE Ledger!LedgerNext
  <2>1. PICK y \in AvailableYears(prn[p], clock.month) : AcceptAll({p}, y)
    BY <1>2 DEF OthersAccept
  <2>2. clock.month \in Nat /\ clock.from <= clock.month
    BY DEF Types, TypeOK, BackendTypeOK, Moment
  <2>3. clock.month <= clock.month
    BY <2>2
  <2>. QED  BY <1>2, <2>1, <2>2, <2>3, AcceptIsLedgerStep DEF OthersAccept
<1>3. ASSUME NEW p \in Prn, OthersWithdraw(p) PROVE Ledger!LedgerNext
  BY <1>3, WithdrawIsLedgerStep DEF OthersWithdraw
<1>. QED  BY <1>1, <1>2, <1>3, BackendAssumption DEF Others, Environment

LEMMA ApiLedger ==
  ASSUME LedgerInv, NEW t \in Tab, ApiApplies(t)
  PROVE  Ledger!LedgerNext
<1>. DEFINE p == NoteOf[t]
<1>1. p \in Prn /\ IsEditable(prn[p]) /\ clock' = clock /\ prn[p] = Issued(p) /\ Types
  BY SingleAssumption DEF ApiApplies, LedgerInv, AsIssued
<1>2. CASE sent[t].status = "Accepted"
  <2>1. loaded[t] = prn[p] /\ OfferedWhenSent(t) /\ Accepting(t)
    BY <1>1, <1>2 DEF LedgerInv, ApiApplies, Accepting, OfferedWhenSent
  <2>2. Recorded(t) \in AvailableYears(prn[p], sent[t].month)
    BY <2>1 DEF OfferedWhenSent, Recorded
  <2>3. /\ sent[t].month \in Nat /\ clock.from <= sent[t].month /\ sent[t].month <= clock.month
    BY <1>1, <2>1 DEF OfferedWhenSent, Types, TypeOK, Sent
  <2>4. AcceptAll({p}, Recorded(t))
    BY <1>2 DEF ApiApplies
  <2>. HIDE DEF p
  <2>. QED  BY <1>1, <2>2, <2>3, <2>4, AcceptIsLedgerStep
<1>3. CASE sent[t].status # "Accepted"
  <2>1. prn' = [prn EXCEPT ![p].status = "Rejected"] /\ "Rejected" \in Withdrawn
    BY <1>3 DEF ApiApplies, Withdrawn
  <2>. HIDE DEF p
  <2>. QED  BY <1>1, <2>1, WithdrawIsLedgerStep
<1>. QED  BY <1>2, <1>3

\* Every behaviour of the journey is one of the ledger, for any notes, tabs and months,
\* as long as a note can be accepted into some year while the journey is open: it leaves
\* AwaitingAcceptance at most once, and goes into a year that was on offer for it.
\* (What happens to a standard note whose year has closed is NeverSendsUnacceptable's.)
THEOREM ImplementsLedger ==
  ASSUME AlwaysOpen
  PROVE  Spec => LedgerKept
<1>1. Init => Ledger!BackendInit
  BY DEF Init, BackendInit, Ledger!BackendInit
<1>2. LedgerInv /\ [Next]_vars => [Ledger!LedgerNext]_(Ledger!backendVars)
  <2>. SUFFICES ASSUME LedgerInv, [Next]_vars
                PROVE  Ledger!LedgerNext \/ UNCHANGED <<prn, clock>>
    BY DEF Ledger!backendVars
  <2>1. CASE Others
    BY <2>1, OthersLedger DEF LedgerInv
  <2>2. ASSUME NEW t \in Tab, Step(t)
        PROVE  Ledger!LedgerNext \/ UNCHANGED <<prn, clock>>
    <3>1. CASE ApiApplies(t)
      BY <3>1, ApiLedger
    <3>2. CASE ~ApiApplies(t)
      BY <2>2, <3>2 DEF Step, Begin, Load, LoadFails, NoteGet, ConfirmedGet, ChooseYear,
         ConfirmAcceptGet, ConfirmAcceptPost, ConfirmRejectGet, ConfirmRejectPost, ApiRefuses,
         Answered, Show, Respond, Send
    <3>. QED  BY <3>1, <3>2
  <2>3. CASE UNCHANGED vars
    BY <2>3 DEF vars
  <2>. QED  BY <2>1, <2>2, <2>3 DEF Next
<1>3. Spec => []LedgerInv
  BY LedgerInitTrue, LedgerNextTrue, PTL DEF Spec
<1>. QED  BY <1>1, <1>2, <1>3, PTL DEF Spec, LedgerKept, Ledger!LedgerSpec
===============================================================================
