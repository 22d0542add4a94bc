------------------------ MODULE ComplianceSubmit_proofs ------------------------
(***************************************************************************)
(* What submitting guarantees for any number of users and tabs: its types, *)
(* that a declaration is what its page shows, and that it implements       *)
(* DeclarationRegister.                                                    *)
(***************************************************************************)
EXTENDS ComplianceSubmit, TLAPS

-------------------------------------------------------------------------------
(* Types.                                                                    *)

Shown == [page : {"away", "submit", "success"}, figures : Nat]

LEMMA RespondTyping ==
  ASSUME TypeOK, NEW t \in Tab, NEW page \in Shown, Respond(t, page),
         register' \in Seq(Status), cache' \in [User -> Nat], late' \in [Tab -> BOOLEAN]
  PROVE  TypeOK'
BY DEF Respond, TypeOK, NoFigures, Shown

LEMMA PageTyping == Away \in Shown
BY DEF Away, Page, Shown, NoFigures

LEMMA ServerTyping ==
  ASSUME TypeOK, NEW t \in Tab, Server(t)
  PROVE  TypeOK'
<1>1. /\ register \in Seq(Status) /\ cache \in [User -> Nat] /\ late \in [Tab -> BOOLEAN]
      /\ payload[t] \in Nat /\ CacheKey(t) \in User
  BY SubmitAssumption DEF TypeOK, CacheKey
<1>2. ASSUME Add PROVE register' \in Seq(Status)
  BY <1>1, <1>2 DEF Add, Status
<1>3. Page("submit", payload[t]) \in Shown /\ Page("success", NoFigures) \in Shown
  BY <1>1 DEF Page, Shown, NoFigures
<1>4. CASE ReadDeclarations(t)
  BY <1>4 DEF ReadDeclarations, TypeOK, SomeSubmitted
<1>5. CASE ReadObligations(t)
  BY <1>5 DEF ReadObligations, TypeOK
<1>6. CASE ReadCache(t)
  BY <1>1, <1>6 DEF ReadCache, TypeOK, NoFigures
<1>7. CASE ReadFails(t) \/ WriteFails(t) \/ ApiRefuses(t) \/ ClearFails(t)
  BY <1>1, <1>7, PageTyping, RespondTyping DEF ReadFails, WriteFails, ApiRefuses, ClearFails
<1>8. CASE SubmitGet(t)
  <2>1. CASE found[t]
    BY <1>1, <1>8, <2>1, PageTyping, RespondTyping DEF SubmitGet
  <2>2. CASE ~found[t]
    BY <1>8, <2>2 DEF SubmitGet, TypeOK
  <2>. QED  BY <2>1, <2>2
<1>9. CASE WriteCache(t)
  <2>1. cache' \in [User -> Nat]
    BY <1>1, <1>9 DEF WriteCache
  <2>. QED  BY <1>1, <1>3, <1>9, <2>1, PageTyping, RespondTyping DEF WriteCache
<1>10. CASE SubmitPost(t)
  <2>1. CASE pc' = [pc EXCEPT ![t] = "creating"] /\ UNCHANGED <<figures, shown, req, found, payload>>
    BY <1>10, <2>1 DEF SubmitPost, TypeOK
  <2>. QED  BY <1>1, <1>3, <1>10, <2>1, PageTyping, RespondTyping DEF SubmitPost
<1>11. CASE ApiCreates(t)
  <2>1. CASE pc' = [pc EXCEPT ![t] = "created"] /\ UNCHANGED <<figures, shown, req, found, payload>>
    BY <1>2, <1>11, <2>1 DEF ApiCreates, TypeOK
  <2>. QED  BY <1>1, <1>2, <1>11, <2>1, PageTyping, RespondTyping DEF ApiCreates
<1>12. CASE GiveUp(t)
  <2>1. late' \in [Tab -> BOOLEAN]
    BY <1>1, <1>12 DEF GiveUp
  <2>. QED  BY <1>1, <1>12, <2>1, PageTyping, RespondTyping DEF GiveUp
<1>13. CASE ClearCache(t)
  <2>1. cache' \in [User -> Nat]
    BY <1>1, <1>13 DEF ClearCache, NoFigures
  <2>. QED  BY <1>1, <1>3, <1>13, <2>1, PageTyping, RespondTyping DEF ClearCache
<1>. QED
  BY <1>4, <1>5, <1>6, <1>7, <1>8, <1>9, <1>10, <1>11, <1>12, <1>13 DEF Server

LEMMA NextTyping == TypeOK /\ [Next]_vars => TypeOK'
<1>. SUFFICES ASSUME TypeOK, [Next]_vars PROVE TypeOK'
  OBVIOUS
<1>1. ASSUME NEW t \in Tab, Begin(t) PROVE TypeOK'
  BY <1>1 DEF Begin, TypeOK
<1>2. ASSUME NEW t \in Tab, LateCreate(t) PROVE TypeOK'
  BY <1>2 DEF LateCreate, Add, Status, TypeOK
<1>3. CASE FiguresMove
  BY <1>3 DEF FiguresMove, TypeOK, NoFigures
<1>4. ASSUME NEW i \in DOMAIN register, Regulates(i) PROVE TypeOK'
  <2>1. PICK s \in {"Accepted", "Cancelled"} : register' = [register EXCEPT ![i] = s]
    BY <1>4 DEF Regulates
  <2>2. register' \in Seq(Status)
    BY <2>1 DEF TypeOK, Status
  <2>. QED  BY <1>4, <2>2 DEF Regulates, TypeOK
<1>5. ASSUME NEW u \in User, Expires(u) PROVE TypeOK'
  BY <1>5 DEF Expires, TypeOK, NoFigures
<1>6. CASE UNCHANGED vars
  BY <1>6 DEF vars, TypeOK
<1>. QED  BY <1>1, <1>2, <1>3, <1>4, <1>5, <1>6, ServerTyping DEF Next

\* The types hold, whoever the users and their tabs are.
THEOREM Typing == Spec => []TypeOK
<1>1. Init => TypeOK
  BY PageTyping DEF Init, TypeOK, NoFigures, Shown
<1>. QED  BY <1>1, NextTyping, PTL DEF Spec

-------------------------------------------------------------------------------
(* Declaring what is shown.  A form is shown with the figures its draw       *)
(* cached; the entry stays that, or goes, as long as no other tab of the     *)
(* user draws the page.                                                      *)

OneTabEach == \A t, u \in Tab : UserOf[t] = UserOf[u] => t = u

Posting(t) == pc[t] # "idle" /\ req[t] = "submitPost"

FormCached(t) ==
    shown[t].page = "submit" => cache[UserOf[t]] \in {NoFigures, shown[t].figures}

PostsForm(t) ==
    /\ pc[t] # "idle" => req[t] # "none"
    /\ Posting(t) => shown[t].page = "submit"
    /\ pc[t] \in {"obligations", "writing"} => req[t] = "submitGet"
    /\ pc[t] \in {"cache", "creating", "created"} => req[t] = "submitPost"
    /\ pc[t] = "handler" /\ req[t] = "submitPost" =>
          payload[t] \in {NoFigures, shown[t].figures}
    /\ pc[t] = "creating" => payload[t] = shown[t].figures

FormInv == TypeOK /\ \A t \in Tab : FormCached(t) /\ PostsForm(t)

\* What a tab knows survives the steps of tabs that are not its user's.
LEMMA OtherUsers ==
  ASSUME OneTabEach, FormInv, NEW t \in Tab, NEW u \in Tab, u # t, Begin(t) \/ Server(t)
  PROVE  FormCached(u)' /\ PostsForm(u)'
<1>1. CacheKey(t) # UserOf[u] /\ UserOf[u] \in User
  BY SubmitAssumption DEF OneTabEach, CacheKey
<1>2. /\ shown'[u] = shown[u] /\ pc'[u] = pc[u] /\ req'[u] = req[u]
      /\ payload'[u] = payload[u]
  <2>1. ASSUME NEW page, Respond(t, page)
        PROVE  /\ shown'[u] = shown[u] /\ pc'[u] = pc[u] /\ req'[u] = req[u]
               /\ payload'[u] = payload[u]
    BY <2>1 DEF Respond, FormInv, TypeOK
  <2>2. CASE Begin(t)
    BY <2>2 DEF Begin, FormInv, TypeOK
  <2>3. CASE ReadDeclarations(t) \/ ReadObligations(t) \/ ReadCache(t)
    BY <2>3 DEF ReadDeclarations, ReadObligations, ReadCache, FormInv, TypeOK
  <2>4. CASE ReadFails(t) \/ WriteFails(t) \/ ApiRefuses(t) \/ ClearFails(t) \/ GiveUp(t)
    BY <2>1, <2>4 DEF ReadFails, WriteFails, ApiRefuses, ClearFails, GiveUp
  <2>5. CASE WriteCache(t) \/ ClearCache(t)
    BY <2>1, <2>5 DEF WriteCache, ClearCache
  <2>6. CASE SubmitGet(t) \/ SubmitPost(t) \/ ApiCreates(t)
    BY <2>1, <2>6 DEF SubmitGet, SubmitPost, ApiCreates, FormInv, TypeOK
  <2>. QED  BY <2>2, <2>3, <2>4, <2>5, <2>6 DEF Server
<1>3. cache'[UserOf[u]] = cache[UserOf[u]]
  <2>1. CASE WriteCache(t) \/ ClearCache(t)
    BY <1>1, <2>1 DEF WriteCache, ClearCache, FormInv, TypeOK
  <2>2. CASE ~(WriteCache(t) \/ ClearCache(t))
    BY <2>2 DEF Begin, Server, ReadDeclarations, ReadObligations, ReadCache, ReadFails, SubmitGet,
       WriteFails, SubmitPost, ApiCreates, ApiRefuses, GiveUp, ClearFails
  <2>. QED  BY <2>1, <2>2
<1>. QED  BY <1>2, <1>3 DEF FormInv, FormCached, PostsForm, Posting

LEMMA OwnStep ==
  ASSUME FormInv, NEW t \in Tab, Begin(t) \/ Server(t)
  PROVE  FormCached(t)' /\ PostsForm(t)'
<1>0. /\ FormCached(t) /\ PostsForm(t) /\ UserOf[t] \in User /\ payload[t] \in Nat
      /\ req[t] \in {"none", "submitGet", "submitPost"}
  BY SubmitAssumption DEF FormInv, TypeOK
<1>1. ASSUME Respond(t, Away) PROVE FormCached(t)' /\ PostsForm(t)'
  <2>1. shown'[t].page = "away" /\ pc'[t] = "idle"
    BY <1>1 DEF Respond, Away, Page, FormInv, TypeOK
  <2>. QED  BY <2>1 DEF FormCached, PostsForm, Posting
<1>2. CASE Begin(t)
  <2>1. /\ shown' = shown /\ cache' = cache /\ pc'[t] = "declarations"
        /\ req'[t] # "none" /\ (req'[t] = "submitPost" => shown[t].page = "submit")
    BY <1>2 DEF Begin, FormInv, TypeOK
  <2>. QED  BY <1>0, <2>1 DEF FormCached, PostsForm, Posting
<1>3. CASE ReadDeclarations(t)
  <2>1. /\ shown' = shown /\ cache' = cache /\ req' = req
        /\ pc[t] = "declarations"
        /\ pc'[t] = IF req[t] = "submitGet" THEN "obligations" ELSE "cache"
    BY <1>3 DEF ReadDeclarations, FormInv, TypeOK
  <2>2. req[t] # "none"
    BY <1>0, <2>1 DEF PostsForm, Posting
  <2>. QED  BY <1>0, <2>1, <2>2 DEF FormCached, PostsForm, Posting
<1>4. CASE ReadObligations(t)
  <2>1. /\ shown' = shown /\ cache' = cache /\ req' = req
        /\ pc[t] = "obligations" /\ pc'[t] = "handler"
    BY <1>4 DEF ReadObligations, FormInv, TypeOK
  <2>. QED  BY <1>0, <2>1 DEF FormCached, PostsForm, Posting
<1>5. CASE ReadCache(t)
  <2>1. /\ shown' = shown /\ cache' = cache /\ req' = req
        /\ pc[t] = "cache" /\ pc'[t] = "handler"
        /\ payload'[t] \in {cache[UserOf[t]], NoFigures}
    BY <1>5 DEF ReadCache, CacheKey, FormInv, TypeOK
  <2>2. shown[t].page = "submit"
    BY <1>0, <2>1 DEF PostsForm, Posting
  <2>. QED  BY <1>0, <2>1, <2>2 DEF FormCached, PostsForm, Posting
<1>6. CASE ReadFails(t) \/ WriteFails(t) \/ ApiRefuses(t) \/ ClearFails(t) \/ GiveUp(t)
  BY <1>1, <1>6 DEF ReadFails, WriteFails, ApiRefuses, ClearFails, GiveUp
<1>7. CASE SubmitGet(t)
  <2>1. CASE found[t]
    BY <1>1, <1>7, <2>1 DEF SubmitGet
  <2>2. CASE ~found[t]
    <3>1. /\ shown' = shown /\ cache' = cache /\ req' = req /\ req[t] = "submitGet"
          /\ pc'[t] = "writing"
      BY <1>7, <2>2 DEF SubmitGet, FormInv, TypeOK
    <3>. QED  BY <1>0, <3>1 DEF FormCached, PostsForm, Posting
  <2>. QED  BY <2>1, <2>2
<1>8. CASE WriteCache(t)
  <2>1. CASE Respond(t, Away)
    BY <1>1, <2>1
  <2>2. CASE Respond(t, Page("submit", payload[t]))
    <3>1. /\ shown'[t].figures = payload[t] /\ pc'[t] = "idle"
          /\ cache'[UserOf[t]] = payload[t]
      BY <1>0, <1>8, <2>2 DEF WriteCache, Respond, Page, CacheKey, FormInv, TypeOK
    <3>. QED  BY <3>1 DEF FormCached, PostsForm, Posting
  <2>. QED  BY <1>8, <2>1, <2>2 DEF WriteCache
<1>9. CASE SubmitPost(t)
  <2>1. /\ cache' = cache /\ req[t] = "submitPost" /\ pc[t] = "handler"
        /\ shown[t].page = "submit" /\ payload[t] \in {NoFigures, shown[t].figures}
    BY <1>0, <1>9 DEF SubmitPost, PostsForm, Posting
  <2>2. CASE Respond(t, Away)
    BY <1>1, <2>2
  <2>3. CASE payload[t] # NoFigures /\ Respond(t, Page("submit", payload[t]))
    <3>1. shown'[t].figures = shown[t].figures /\ pc'[t] = "idle"
      BY <2>1, <2>3 DEF Respond, Page, FormInv, TypeOK
    <3>. QED  BY <1>0, <2>1, <3>1 DEF FormCached, PostsForm, Posting
  <2>4. CASE /\ payload[t] # NoFigures /\ pc' = [pc EXCEPT ![t] = "creating"]
             /\ UNCHANGED <<figures, shown, req, found, payload>>
    <3>1. pc'[t] = "creating"
      BY <2>4 DEF FormInv, TypeOK
    <3>. QED  BY <1>0, <2>1, <2>4, <3>1 DEF FormCached, PostsForm, Posting
  <2>. QED  BY <1>9, <2>2, <2>3, <2>4 DEF SubmitPost
<1>10. CASE ApiCreates(t)
  <2>1. CASE Respond(t, Away)
    BY <1>1, <2>1
  <2>2. CASE pc' = [pc EXCEPT ![t] = "created"] /\ UNCHANGED <<figures, shown, req, found, payload>>
    <3>1. pc[t] = "creating" /\ pc'[t] = "created" /\ cache' = cache
      BY <1>10, <2>2 DEF ApiCreates, FormInv, TypeOK
    <3>. QED  BY <1>0, <2>2, <3>1 DEF FormCached, PostsForm, Posting
  <2>. QED  BY <1>10, <2>1, <2>2 DEF ApiCreates
<1>11. CASE ClearCache(t)
  <2>1. CASE Respond(t, Away)
    BY <1>1, <2>1
  <2>2. CASE Respond(t, Page("success", NoFigures))
    <3>1. shown'[t].page = "success" /\ pc'[t] = "idle"
      BY <2>2 DEF Respond, Page, FormInv, TypeOK
    <3>. QED  BY <3>1 DEF FormCached, PostsForm, Posting
  <2>. QED  BY <1>11, <2>1, <2>2 DEF ClearCache
<1>. QED
  BY <1>2, <1>3, <1>4, <1>5, <1>6, <1>7, <1>8, <1>9, <1>10, <1>11 DEF Server

LEMMA NextForm ==
  ASSUME OneTabEach, FormInv, [Next]_vars
  PROVE  FormInv'
<1>1. TypeOK'
  BY NextTyping DEF FormInv
<1>2. ASSUME NEW u \in Tab PROVE FormCached(u)' /\ PostsForm(u)'
  <2>1. ASSUME NEW t \in Tab, Begin(t) \/ Server(t) PROVE FormCached(u)' /\ PostsForm(u)'
    BY <2>1, OwnStep, OtherUsers
  <2>2. CASE UNCHANGED <<cache, shown, pc, req, payload>>
    BY <2>2 DEF FormInv, FormCached, PostsForm, Posting
  <2>3. ASSUME NEW v \in User, Expires(v) PROVE FormCached(u)' /\ PostsForm(u)'
    <3>1. cache'[UserOf[u]] \in {cache[UserOf[u]], NoFigures}
      BY <2>3, SubmitAssumption DEF Expires, FormInv, TypeOK
    <3>. QED  BY <2>3, <3>1 DEF Expires, FormInv, FormCached, PostsForm, Posting
  <2>. QED  BY <2>1, <2>2, <2>3 DEF Next, LateCreate, FiguresMove, Regulates, vars
<1>. QED  BY <1>1, <1>2 DEF FormInv

\* When every user submits from one tab at a time, a declaration has the figures of
\* the page it was submitted from, whoever else of the organisation draws the page,
\* whenever entries expire and however the obligations move.
THEOREM Declared ==
  ASSUME OneTabEach
  PROVE  Spec => []DeclaresWhatIsShown
<1>1. Init => FormInv
  <2>. SUFFICES ASSUME Init PROVE FormInv
    OBVIOUS
  <2>1. TypeOK
    BY PageTyping DEF Init, TypeOK, NoFigures, Shown
  <2>2. ASSUME NEW t \in Tab PROVE FormCached(t) /\ PostsForm(t)
    BY DEF Init, FormCached, PostsForm, Posting, Away, Page
  <2>. QED  BY <2>1, <2>2 DEF FormInv
<1>2. FormInv /\ [Next]_vars => FormInv'
  BY NextForm
<1>3. FormInv => DeclaresWhatIsShown
  <2>. SUFFICES ASSUME FormInv, NEW t \in Tab, pc[t] = "creating"
                PROVE  shown[t] = Page("submit", payload[t])
    BY DEF DeclaresWhatIsShown
  <2>1. shown[t] = [page |-> shown[t].page, figures |-> shown[t].figures]
    BY DEF FormInv, TypeOK
  <2>. QED  BY <2>1 DEF FormInv, PostsForm, Posting, Page
<1>. QED  BY <1>1, <1>2, <1>3, PTL DEF Spec

-------------------------------------------------------------------------------
(* The register.                                                             *)

\* Where a request that may hold a permit stands.
Course(t) ==
    /\ pc[t] = "obligations" => req[t] = "submitGet"
    /\ pc[t] = "creating" => req[t] = "submitPost" /\ ~found[t]

CourseInv == TypeOK /\ \A t \in Tab : Course(t)

LEMMA HeldIs ==
  ASSUME NEW t \in Tab
  PROVE  /\ <<t, "request">> \in Held <=> Outstanding(t)
         /\ <<t, "late">> \in Held <=> late[t]
BY DEF Held, Permits

\* Two sets of permits that agree on every tab are one.
LEMMA SameHeld ==
  ASSUME NEW K, K \subseteq Permits,
         \A t \in Tab : <<t, "request">> \in K <=> Outstanding(t)',
         \A t \in Tab : <<t, "late">> \in K <=> late'[t]
  PROVE  Held' = K
<1>1. Held' = {k \in Permits : IF k[2] = "request" THEN Outstanding(k[1])' ELSE late'[k[1]]}
  BY DEF Held
<1>2. ASSUME NEW t \in Tab
      PROVE  /\ <<t, "request">> \in Held' <=> <<t, "request">> \in K
             /\ <<t, "late">> \in Held' <=> <<t, "late">> \in K
  BY <1>1, <1>2 DEF Permits
<1>3. ASSUME NEW k \in Permits PROVE k \in Held' <=> k \in K
  <2>1. PICK t \in Tab, s \in {"request", "late"} : k = <<t, s>>
    BY DEF Permits
  <2>. QED  BY <1>2, <2>1
<1>4. Held' \subseteq Permits
  BY <1>1
<1>. QED  BY <1>3, <1>4

RegisterStep == [Register!RegisterNext]_<<register, Held>>

LEMMA HeldTyping == Held \subseteq Permits
BY DEF Held

\* A step of one tab leaves the findings of the others.
OthersHold(t) ==
    \A u \in Tab \ {t} : (Outstanding(u)' <=> Outstanding(u)) /\ (late'[u] <=> late[u])

LEMMA NothingHeld ==
  ASSUME NEW t \in Tab, OthersHold(t), register' = register,
         Outstanding(t)' <=> Outstanding(t), late'[t] <=> late[t]
  PROVE  RegisterStep
<1>1. Held' = Held
  BY HeldIs, HeldTyping, SameHeld DEF OthersHold
<1>. QED  BY <1>1 DEF RegisterStep

LEMMA Found ==
  ASSUME NEW t \in Tab, OthersHold(t), register' = register, late'[t] <=> late[t],
         ~Outstanding(t), Outstanding(t)', ~SomeSubmitted(register)
  PROVE  RegisterStep
<1>. DEFINE k == <<t, "request">>
<1>1. k \in Permits /\ k \notin Held
  BY HeldIs DEF Permits
<1>2. Held' = Held \cup {k}
  <2>. DEFINE K == Held \cup {k}
  <2>1. K \subseteq Permits
    BY <1>1, HeldTyping
  <2>2. \A u \in Tab : <<u, "request">> \in K <=> Outstanding(u)'
    BY HeldIs DEF OthersHold
  <2>3. \A u \in Tab : <<u, "late">> \in K <=> late'[u]
    BY HeldIs DEF OthersHold
  <2>. HIDE DEF K
  <2>4. Held' = K
    BY <2>1, <2>2, <2>3, SameHeld
  <2>. QED  BY <2>4 DEF K
<1>3. Register!Find(k)
  BY <1>1, <1>2 DEF Register!Find, Register!SomeStands, SomeSubmitted
<1>. QED  BY <1>1, <1>3 DEF RegisterStep, Register!RegisterNext

\* A submit that is answered, or gives up its finding, gives up its permit alone.
LEMMA RequestSpent ==
  ASSUME NEW t \in Tab, OthersHold(t), late'[t] <=> late[t], ~Outstanding(t)'
  PROVE  Held' = Held \ {<<t, "request">>}
<1>. DEFINE K == Held \ {<<t, "request">>}
<1>1. K \subseteq Permits
  BY HeldTyping
<1>2. \A u \in Tab : <<u, "request">> \in K <=> Outstanding(u)'
  BY HeldIs DEF OthersHold
<1>3. \A u \in Tab : <<u, "late">> \in K <=> late'[u]
  BY HeldIs DEF OthersHold
<1>. HIDE DEF K
<1>4. Held' = K
  BY <1>1, <1>2, <1>3, SameHeld
<1>. QED  BY <1>4 DEF K

\* A late create that is carried out takes its permit alone.
LEMMA LateSpent ==
  ASSUME NEW t \in Tab, OthersHold(t), Outstanding(t)' <=> Outstanding(t), ~late'[t]
  PROVE  Held' = Held \ {<<t, "late">>}
<1>. DEFINE K == Held \ {<<t, "late">>}
<1>1. K \subseteq Permits
  BY HeldTyping
<1>2. \A u \in Tab : <<u, "request">> \in K <=> Outstanding(u)'
  BY HeldIs DEF OthersHold
<1>3. \A u \in Tab : <<u, "late">> \in K <=> late'[u]
  BY HeldIs DEF OthersHold
<1>. HIDE DEF K
<1>4. Held' = K
  BY <1>1, <1>2, <1>3, SameHeld
<1>. QED  BY <1>4 DEF K

LEMMA Forgone ==
  ASSUME NEW t \in Tab, OthersHold(t), register' = register, late'[t] <=> late[t],
         ~Outstanding(t)'
  PROVE  RegisterStep
<1>. DEFINE k == <<t, "request">>
<1>1. CASE Outstanding(t)
  <2>1. k \in Permits /\ k \in Held
    BY <1>1, HeldIs DEF Permits
  <2>2. Held' = Held \ {k}
    BY RequestSpent
  <2>3. Register!Forgo(k)
    BY <2>1, <2>2 DEF Register!Forgo
  <2>. QED  BY <2>1, <2>3 DEF RegisterStep, Register!RegisterNext
<1>2. CASE ~Outstanding(t)
  BY <1>2, NothingHeld
<1>. QED  BY <1>1, <1>2

LEMMA DeclaredOnce ==
  ASSUME NEW t \in Tab, OthersHold(t), Add, late'[t] <=> late[t],
         Outstanding(t), ~Outstanding(t)'
  PROVE  RegisterStep
<1>. DEFINE k == <<t, "request">>
<1>1. k \in Permits /\ k \in Held
  BY HeldIs DEF Permits
<1>2. Held' = Held \ {k}
  BY RequestSpent
<1>3. Register!Declare(k)
  BY <1>1, <1>2 DEF Register!Declare, Add
<1>. QED  BY <1>1, <1>3 DEF RegisterStep, Register!RegisterNext

LEMMA DeclaredLate ==
  ASSUME NEW t \in Tab, OthersHold(t), Add, late[t], ~late'[t],
         Outstanding(t)' <=> Outstanding(t)
  PROVE  RegisterStep
<1>. DEFINE k == <<t, "late">>
<1>1. k \in Permits /\ k \in Held
  BY HeldIs DEF Permits
<1>2. Held' = Held \ {k}
  BY LateSpent
<1>3. Register!Declare(k)
  BY <1>1, <1>2 DEF Register!Declare, Add
<1>. QED  BY <1>1, <1>3 DEF RegisterStep, Register!RegisterNext

LEMMA GivenUp ==
  ASSUME NEW t \in Tab, OthersHold(t), register' = register,
         Outstanding(t), ~Outstanding(t)', ~late[t], late'[t]
  PROVE  RegisterStep
<1>. DEFINE k == <<t, "request">>
            l == <<t, "late">>
<1>1. k \in Permits /\ k \in Held /\ l \in Permits /\ l \notin Held
  BY HeldIs DEF Permits
<1>2. Held' = (Held \ {k}) \cup {l}
  <2>. DEFINE K == (Held \ {k}) \cup {l}
  <2>1. K \subseteq Permits
    BY <1>1, HeldTyping
  <2>2. \A u \in Tab : <<u, "request">> \in K <=> Outstanding(u)'
    BY HeldIs DEF OthersHold
  <2>3. \A u \in Tab : <<u, "late">> \in K <=> late'[u]
    BY HeldIs DEF OthersHold
  <2>. HIDE DEF K
  <2>4. Held' = K
    BY <2>1, <2>2, <2>3, SameHeld
  <2>. QED  BY <2>4 DEF K
<1>3. Register!HandOn(k, l)
  BY <1>1, <1>2 DEF Register!HandOn
<1>. QED  BY <1>1, <1>3 DEF RegisterStep, Register!RegisterNext

LEMMA TabStep ==
  ASSUME CourseInv, NEW t \in Tab, Begin(t) \/ Server(t)
  PROVE  RegisterStep /\ OthersHold(t) /\ Course(t)'
<1>0. Course(t)
  BY DEF CourseInv
<1>1. ASSUME NEW page, Respond(t, page)
      PROVE  /\ ~Outstanding(t)' /\ Course(t)'
             /\ \A u \in Tab \ {t} : Outstanding(u)' <=> Outstanding(u)
  BY <1>1 DEF Respond, Outstanding, Course, CourseInv, TypeOK
<1>2. CASE Begin(t)
  <2>1. OthersHold(t)
    BY <1>2 DEF Begin, OthersHold, Outstanding, CourseInv, TypeOK
  <2>2. ~Outstanding(t) /\ ~Outstanding(t)' /\ Course(t)' /\ register' = register /\ late' = late
    BY <1>2 DEF Begin, Outstanding, Course, CourseInv, TypeOK
  <2>. QED  BY <2>1, <2>2, NothingHeld
<1>3. CASE ReadDeclarations(t)
  <2>1. OthersHold(t) /\ register' = register /\ late' = late /\ ~Outstanding(t)
    BY <1>3 DEF ReadDeclarations, OthersHold, Outstanding, CourseInv, TypeOK
  <2>2. Course(t)'
    BY <1>3 DEF ReadDeclarations, Course, CourseInv, TypeOK
  <2>3. Outstanding(t)' => ~SomeSubmitted(register)
    BY <1>3 DEF ReadDeclarations, Outstanding, CourseInv, TypeOK
  <2>. QED  BY <2>1, <2>2, <2>3, Found, NothingHeld
<1>4. CASE ReadObligations(t)
  <2>1. OthersHold(t) /\ register' = register /\ late' = late
    BY <1>4 DEF ReadObligations, OthersHold, Outstanding, CourseInv, TypeOK
  <2>2. ~Outstanding(t) /\ ~Outstanding(t)' /\ Course(t)'
    BY <1>0, <1>4 DEF ReadObligations, Outstanding, Course, CourseInv, TypeOK
  <2>. QED  BY <2>1, <2>2, NothingHeld
<1>5. CASE ReadCache(t)
  <2>1. OthersHold(t) /\ register' = register /\ late' = late
    BY <1>5 DEF ReadCache, OthersHold, Outstanding, CourseInv, TypeOK
  <2>2. (Outstanding(t)' <=> Outstanding(t)) /\ Course(t)'
    BY <1>5 DEF ReadCache, Outstanding, Course, CourseInv, TypeOK
  <2>. QED  BY <2>1, <2>2, NothingHeld
<1>6. CASE ReadFails(t) \/ WriteCache(t) \/ WriteFails(t) \/ ApiRefuses(t) \/ ClearCache(t) \/ ClearFails(t)
  <2>1. PICK page : Respond(t, page)
    BY <1>6 DEF ReadFails, WriteCache, WriteFails, ApiRefuses, ClearCache, ClearFails
  <2>2. register' = register /\ late' = late
    BY <1>6 DEF ReadFails, WriteCache, WriteFails, ApiRefuses, ClearCache, ClearFails
  <2>3. OthersHold(t)
    BY <1>1, <2>1, <2>2 DEF OthersHold
  <2>. QED  BY <1>1, <2>1, <2>2, <2>3, Forgone
<1>7. CASE SubmitGet(t)
  <2>1. CASE Respond(t, Away) /\ UNCHANGED <<register, cache, late>>
    <3>1. OthersHold(t)
      BY <1>1, <2>1 DEF OthersHold
    <3>. QED  BY <1>1, <2>1, <3>1, Forgone
  <2>2. CASE ~found[t]
    <3>1. OthersHold(t) /\ register' = register /\ late' = late
      BY <1>7, <2>2 DEF SubmitGet, OthersHold, Outstanding, CourseInv, TypeOK
    <3>2. ~Outstanding(t) /\ ~Outstanding(t)' /\ Course(t)'
      BY <1>7, <2>2 DEF SubmitGet, Outstanding, Course, CourseInv, TypeOK
    <3>. QED  BY <3>1, <3>2, NothingHeld
  <2>. QED  BY <1>7, <2>1, <2>2 DEF SubmitGet
<1>8. CASE SubmitPost(t)
  <2>1. register' = register /\ late' = late
    BY <1>8 DEF SubmitPost
  <2>2. ASSUME NEW page, Respond(t, page) PROVE RegisterStep /\ OthersHold(t) /\ Course(t)'
    <3>1. OthersHold(t)
      BY <1>1, <2>1, <2>2 DEF OthersHold
    <3>. QED  BY <1>1, <2>1, <2>2, <3>1, Forgone
  <2>3. CASE /\ ~found[t] /\ pc' = [pc EXCEPT ![t] = "creating"]
             /\ UNCHANGED <<figures, shown, req, found, payload>>
    <3>1. OthersHold(t)
      BY <2>1, <2>3 DEF OthersHold, Outstanding, CourseInv, TypeOK
    <3>2. (Outstanding(t)' <=> Outstanding(t)) /\ Course(t)'
      BY <1>8, <2>3 DEF SubmitPost, Outstanding, Course, CourseInv, TypeOK
    <3>. QED  BY <2>1, <3>1, <3>2, NothingHeld
  <2>. QED  BY <1>8, <2>2, <2>3 DEF SubmitPost
<1>9. CASE ApiCreates(t)
  <2>1. Outstanding(t) /\ Add /\ late' = late
    BY <1>0, <1>9 DEF ApiCreates, Course, Outstanding
  <2>2. OthersHold(t) /\ ~Outstanding(t)' /\ Course(t)'
    <3>1. CASE Respond(t, Away)
      BY <1>1, <2>1, <3>1 DEF OthersHold
    <3>2. CASE pc' = [pc EXCEPT ![t] = "created"] /\ UNCHANGED <<figures, shown, req, found, payload>>
      BY <2>1, <3>2 DEF OthersHold, Outstanding, Course, CourseInv, TypeOK
    <3>. QED  BY <1>9, <3>1, <3>2 DEF ApiCreates
  <2>. QED  BY <2>1, <2>2, DeclaredOnce
<1>10. CASE GiveUp(t)
  <2>1. Outstanding(t) /\ ~late[t] /\ Respond(t, Away) /\ register' = register
    BY <1>0, <1>10 DEF GiveUp, Course, Outstanding
  <2>2. late'[t] /\ \A u \in Tab \ {t} : late'[u] = late[u]
    BY <1>10 DEF GiveUp, CourseInv, TypeOK
  <2>3. OthersHold(t)
    BY <1>1, <2>1, <2>2 DEF OthersHold
  <2>. QED  BY <1>1, <2>1, <2>2, <2>3, GivenUp
<1>. QED
  BY <1>2, <1>3, <1>4, <1>5, <1>6, <1>7, <1>8, <1>9, <1>10 DEF Server

LEMMA RegisterStepped == CourseInv /\ [Next]_vars => RegisterStep
<1>. SUFFICES ASSUME CourseInv, [Next]_vars PROVE RegisterStep
  OBVIOUS
<1>1. ASSUME NEW t \in Tab, LateCreate(t) PROVE RegisterStep
  <2>1. OthersHold(t) /\ ~late'[t] /\ (Outstanding(t)' <=> Outstanding(t))
    BY <1>1 DEF LateCreate, OthersHold, Outstanding, CourseInv, TypeOK
  <2>. QED  BY <1>1, <2>1, DeclaredLate DEF LateCreate
<1>2. CASE UNCHANGED <<pc, req, found, late>>
  <2>1. Held' = Held
    BY <1>2 DEF Held, Outstanding
  <2>2. CASE register' = register
    BY <2>1, <2>2 DEF RegisterStep
  <2>3. ASSUME NEW i \in DOMAIN register, Regulates(i) PROVE RegisterStep
    <3>1. register[i] \in {"Submitted", "Accepted"}
      BY <2>3 DEF Regulates, CourseInv, TypeOK, Status
    <3>2. Register!Regulate(i)
      BY <2>1, <2>3, <3>1 DEF Regulates, Register!Regulate
    <3>. QED  BY <3>2 DEF RegisterStep, Register!RegisterNext
  <2>4. CASE UNCHANGED vars
    BY <2>2, <2>4 DEF vars
  <2>5. CASE Next /\ ~\E i \in DOMAIN register : Regulates(i)
    <3>1. ASSUME NEW t \in Tab, Begin(t) \/ Server(t) PROVE RegisterStep
      BY <3>1, TabStep
    <3>. QED  BY <1>1, <2>2, <2>5, <3>1 DEF Next, FiguresMove, Expires
  <2>. QED  BY <2>3, <2>4, <2>5
<1>3. ASSUME NEW t \in Tab, Begin(t) \/ Server(t) PROVE RegisterStep
  BY <1>3, TabStep
<1>. QED  BY <1>1, <1>2, <1>3 DEF Next, FiguresMove, Regulates, Expires, vars

LEMMA CourseKept == CourseInv /\ [Next]_vars => CourseInv'
<1>. SUFFICES ASSUME CourseInv, [Next]_vars PROVE CourseInv'
  OBVIOUS
<1>1. TypeOK'
  BY NextTyping DEF CourseInv
<1>2. ASSUME NEW u \in Tab PROVE Course(u)'
  <2>1. ASSUME NEW t \in Tab, Begin(t) \/ Server(t), u # t PROVE Course(u)'
    <3>1. ASSUME NEW page, Respond(t, page)
          PROVE  pc'[u] = pc[u] /\ req'[u] = req[u] /\ found'[u] = found[u]
      BY <2>1, <3>1 DEF Respond, CourseInv, TypeOK
    <3>2. pc'[u] = pc[u] /\ req'[u] = req[u] /\ found'[u] = found[u]
      BY <2>1, <3>1 DEF Begin, Server, ReadDeclarations, ReadObligations, ReadCache, ReadFails,
         SubmitGet, WriteCache, WriteFails, SubmitPost, ApiCreates, ApiRefuses, GiveUp,
         ClearCache, ClearFails, CourseInv, TypeOK
    <3>. QED  BY <3>2 DEF CourseInv, Course
  <2>2. CASE UNCHANGED <<pc, req, found>>
    BY <2>2 DEF CourseInv, Course
  <2>. QED
    BY <2>1, <2>2, TabStep DEF Next, LateCreate, FiguresMove, Regulates, Expires, vars
<1>. QED  BY <1>1, <1>2 DEF CourseInv

\* Submitting implements DeclarationRegister for any users and tabs: a second
\* declaration of a year needs a submit that looked before the first one was made.
THEOREM ImplementsRegister == Spec => RegisterKept
<1>1. Init => CourseInv /\ Register!RegisterInit
  <2>. SUFFICES ASSUME Init PROVE CourseInv /\ Register!RegisterInit
    OBVIOUS
  <2>1. TypeOK
    BY PageTyping DEF Init, TypeOK, NoFigures, Shown
  <2>2. CourseInv
    BY <2>1 DEF Init, CourseInv, Course
  <2>3. Held = {}
    BY DEF Init, Held, Permits, Outstanding
  <2>. QED  BY <2>2, <2>3 DEF Init, Register!RegisterInit
<1>2. CourseInv /\ [Next]_vars => RegisterStep
  BY RegisterStepped
<1>3. RegisterStep => [Register!RegisterNext]_<<register, Held>>
  BY DEF RegisterStep
<1>. QED
  BY <1>1, <1>2, <1>3, CourseKept, PTL DEF Spec, RegisterKept, Register!RegisterSpec
===============================================================================
