------------------------- MODULE ServicePages_proofs -------------------------
(***************************************************************************)
(* What the checks before a page and the sign-in, the consent, the home page and *)
(* the translations promise, for any requests, accounts, tabs, figures and texts, *)
(* and what that makes of the parts side by side.                          *)
(***************************************************************************)
EXTENDS ServicePages, HistoryAndListing_proofs, WellFoundedInduction

\* What a request has gathered agrees with the account of some moment of it: of now, while
\* it has not read the account, and of the moment its copy of the user was read.
Knows(e, a) == IF Allowed(e, a) THEN e.could ELSE e.couldNot
Judged(e) == IF Fits(e.copy.user, e.target) THEN e.could ELSE e.couldNot

DecisionInv(e) ==
    /\ Unread(e) => Knows(e, account)
    /\ e.phase \in {"refresh", "schemes", "role"} => e.target \in Targets
    /\ e.phase = "refresh" => e.copy.user # Nobody
    /\ e.phase = "oidc" => e.target = Nowhere
    /\ e.phase \in {"schemes", "role"} => e.copy.user \in Users /\ Judged(e)
    /\ e.phase = "schemes" =>
           /\ e.target.who = "cso" /\ e.todo \subseteq e.copy.user.orgs
           /\ e.missing = {} => \A o \in e.copy.user.orgs \ e.todo : ~Matches(o, e.target.id)
    /\ e.phase = "role" => BelongsTo(e.copy.user, e.target)
    /\ e.phase \in {"served", "signedIn"} => e.could
    /\ e.phase = "forbidden" => e.couldNot \/ e.missing # {}

\* A request's copy holds the address it was meant for, until the sign-in uses it.
AddressInv(e) ==
    /\ e.meant # Unknown =>
           IF e.phase = "signedIn" THEN e.landed = e.meant ELSE e.copy.authReturnUrl = e.meant
    /\ e.phase = "signedIn" => e.copy.authReturnUrl = Nowhere
    /\ e.reset => e.beside

\* One that ran beside no other still means what is meant now.
AloneInv ==
    \A r \in Requests :
        Running(r) /\ ~req[r].beside =>
            /\ req[r].meant = intended
            /\ \A q \in Requests : Running(q) => q = r

StoredInv == intended # Unknown => session.authReturnUrl = intended

SessionInv ==
    /\ SessionTypeOK
    /\ \A r \in Requests : DecisionInv(req[r]) /\ (Running(r) => AddressInv(req[r]))
    /\ AloneInv
    /\ StoredInv

-------------------------------------------------------------------------------

LEMMA FreeRequest ==
  /\ Free \in Request /\ Blank \in Session
  /\ Free.phase = "free" /\ ~Free.beside /\ Free.missing = {} /\ ~Free.reset
BY DEF Free, Blank, Request, Session, Phases

LEMMA SessionInitInv == SessionInit => SessionInv
<1> SUFFICES ASSUME SessionInit PROVE SessionInv
  OBVIOUS
<1>1. \A r \in Requests : req[r] = Free
  BY DEF SessionInit
<1>2. SessionTypeOK
  BY FreeRequest DEF SessionInit, SessionTypeOK
<1>3. DecisionInv(Free)
  BY FreeRequest DEF DecisionInv, Unread
<1>4. AloneInv
  BY <1>1, FreeRequest DEF AloneInv, Running
<1>5. StoredInv
  BY DEF SessionInit, StoredInv, Blank
<1>. QED  BY <1>1, <1>2, <1>3, <1>4, <1>5, FreeRequest DEF SessionInv, Running

\* A step of one request that goes on, with the account, the session and what is
\* meant as they were.
LEMMA Goes ==
  ASSUME SessionInv, NEW r \in Requests, Running(r), NEW e \in Request,
         req' = [req EXCEPT ![r] = e], UNCHANGED <<account, session, intended>>,
         e.phase # "free", DecisionInv(e), AddressInv(e),
         e.meant = req[r].meant, e.beside = req[r].beside
  PROVE  SessionInv'
<1>1. \A q \in Requests : req'[q] = (IF q = r THEN e ELSE req[q])
  BY DEF SessionInv, SessionTypeOK
<1>2. \A q \in Requests : Running(q)' <=> Running(q)
  BY <1>1 DEF Running
<1>3. SessionTypeOK'
  BY DEF SessionInv, SessionTypeOK
<1>4. \A q \in Requests : DecisionInv(req[q])'
  BY <1>1 DEF SessionInv, DecisionInv
<1>5. \A q \in Requests : Running(q)' => AddressInv(req[q])'
  BY <1>1, <1>2 DEF SessionInv, AddressInv
<1>6. AloneInv'
  BY <1>1, <1>2 DEF SessionInv, AloneInv
<1>7. StoredInv'
  BY DEF SessionInv, StoredInv
<1>. QED  BY <1>3, <1>4, <1>5, <1>6, <1>7 DEF SessionInv

\* What is asked of an answer is the page's and the session's.
LEMMA SameQuestion ==
  ASSUME NEW e, NEW f, e.target = f.target, e.copy = f.copy, NEW a
  PROVE  Allowed(e, a) <=> Allowed(f, a)
BY DEF Allowed

\* Watching the account adds to what a request knows and changes nothing else of it.
LEMMA WatchedRequest ==
  ASSUME NEW e \in Request, NEW a
  PROVE  /\ Watched(e, a) \in Request
         /\ Watched(e, a).phase = e.phase /\ Watched(e, a).copy = e.copy
         /\ Watched(e, a).target = e.target /\ Watched(e, a).todo = e.todo
         /\ Watched(e, a).missing = e.missing /\ Watched(e, a).landed = e.landed
         /\ Watched(e, a).beside = e.beside /\ Watched(e, a).reset = e.reset
         /\ Watched(e, a).meant = e.meant
         /\ e.could => Watched(e, a).could
         /\ e.couldNot => Watched(e, a).couldNot
         /\ Unread(e) => Knows(Watched(e, a), a)
<1>1. CASE ~Unread(e)
  BY <1>1 DEF Watched
<1>2. CASE Unread(e)
  <2>1. PICK c \in BOOLEAN : c = (e.could \/ Allowed(e, a))
    OBVIOUS
  <2>2. PICK n \in BOOLEAN : n = (e.couldNot \/ ~Allowed(e, a))
    OBVIOUS
  <2>3. Watched(e, a) = [e EXCEPT !.could = c, !.couldNot = n]
    BY <1>2, <2>1, <2>2 DEF Watched
  <2>4. /\ Watched(e, a) \in Request /\ Watched(e, a).could = c /\ Watched(e, a).couldNot = n
        /\ Watched(e, a).phase = e.phase /\ Watched(e, a).target = e.target
        /\ Watched(e, a).copy = e.copy
    BY <2>3 DEF Request
  <2>5. Knows(Watched(e, a), a)
    <3>1. Allowed(Watched(e, a), a) <=> Allowed(e, a)
      BY <2>4, SameQuestion
    <3>. QED  BY <2>1, <2>2, <2>4, <3>1 DEF Knows
  <2>. QED  BY <2>1, <2>2, <2>3, <2>4, <2>5 DEF Request
<1>. QED  BY <1>1, <1>2

\* A request begins: it knows the account of now, and no other is alone any more.
LEMMA BeginStep ==
  ASSUME SessionInv, NEW r \in Requests, NEW phase, NEW p, Begin(r, phase, p),
         \/ phase \in {"refresh", "toSignIn"} /\ p \in Targets
         \/ phase \in {"oidc", "notSignedIn"} /\ p = Nowhere,
         phase = "refresh" => session.user # Nobody
  PROVE  SessionInv'
<1>. DEFINE others == {q \in Requests \ {r} : Running(q)}
            begun  == [Free EXCEPT !.phase = phase, !.copy = session, !.target = p,
                                   !.beside = others # {}, !.meant = intended]
            w == Watched(begun, account)
<1>1. /\ ~Running(r) /\ UNCHANGED <<account, session, intended>>
      /\ req' = [q \in Requests |-> CASE q = r         -> w
                                      [] q \in others -> [req[q] EXCEPT !.beside = TRUE]
                                      [] OTHER        -> req[q]]
  BY DEF Begin
<1>2. /\ begun \in Request /\ begun.phase = phase /\ begun.target = p /\ begun.copy = session
      /\ begun.meant = intended /\ begun.beside = (others # {}) /\ ~begun.reset
      /\ ~begun.could /\ ~begun.couldNot
  <2>1. session \in Session /\ session.user \in Users \cup {Nobody} /\ intended \in Targets \cup {Nowhere, Unknown}
    BY DEF SessionInv, SessionTypeOK, Session
  <2>2. (others # {}) \in BOOLEAN /\ phase \in Phases /\ p \in Targets \cup {Nowhere}
    BY DEF Phases
  <2>. QED  BY <2>1, <2>2, FreeRequest DEF Free, Request
<1>3. /\ w \in Request /\ w.phase = phase /\ w.target = p /\ w.copy = session
      /\ w.meant = intended /\ w.beside = (others # {}) /\ ~w.reset
      /\ Unread(w) => Knows(w, account)
  <2>. HIDE DEF begun
  <2>1. Watched(begun, account) \in Request
    BY <1>2, WatchedRequest DEF SessionInv, SessionTypeOK
  <2>2. w = Watched(begun, account) /\ (Unread(w) <=> Unread(begun))
    BY <1>2, <2>1, WatchedRequest DEF Unread
  <2>. QED  BY <1>2, <2>1, <2>2, WatchedRequest
<1>. HIDE DEF w, begun
<1>4. /\ req'[r] = w
      /\ \A q \in others : /\ req'[q] \in Request
                           /\ req'[q] = [req[q] EXCEPT !.beside = TRUE]
      /\ \A q \in Requests \ (others \cup {r}) : req'[q] = req[q] /\ ~Running(q)
  <2>1. \A q \in Requests : req[q] \in Request
    BY DEF SessionInv, SessionTypeOK
  <2>2. \A q \in others : [req[q] EXCEPT !.beside = TRUE] \in Request
    BY <2>1 DEF Request
  <2>. QED  BY <1>1, <2>2
<1>5. SessionTypeOK'
  <2>1. \A q \in Requests : req'[q] \in Request
    BY <1>3, <1>4 DEF SessionInv, SessionTypeOK
  <2>. QED  BY <1>1, <2>1 DEF SessionInv, SessionTypeOK
<1>6. \A q \in Requests : Running(q)' <=> Running(q) \/ q = r
  <2>1. w.phase # "free"
    BY <1>3
  <2>2. \A q \in others : req'[q].phase = req[q].phase
    BY <1>4 DEF SessionInv, SessionTypeOK, Request
  <2>. QED  BY <1>4, <2>1, <2>2 DEF Running
<1>7. \A q \in Requests : DecisionInv(req[q])'
  <2>1. DecisionInv(w)
    BY <1>3 DEF DecisionInv, Unread
  <2>2. ASSUME NEW q \in others
        PROVE  DecisionInv([req[q] EXCEPT !.beside = TRUE])
    BY DEF SessionInv, SessionTypeOK, DecisionInv, Unread, Knows, Judged, Allowed, Request
  <2>3. ASSUME NEW q \in Requests PROVE DecisionInv(req'[q])
    BY <1>4, <2>1, <2>2 DEF SessionInv
  <2>. QED  BY <1>1, <2>3 DEF DecisionInv, Unread, Knows, Judged
<1>8. \A q \in Requests : Running(q)' => AddressInv(req[q])'
  <2>1. AddressInv(w)
    BY <1>3 DEF AddressInv, SessionInv, StoredInv
  <2>2. ASSUME NEW q \in others
        PROVE  AddressInv([req[q] EXCEPT !.beside = TRUE])
    BY DEF SessionInv, SessionTypeOK, AddressInv, Request
  <2>3. ASSUME NEW q \in Requests, Running(q)' PROVE AddressInv(req'[q])
    BY <1>4, <1>6, <2>1, <2>2, <2>3
  <2>. QED  BY <2>3 DEF AddressInv
<1>9. AloneInv'
  <2>1. \A q \in others : req'[q].beside
    BY <1>4 DEF SessionInv, SessionTypeOK, Request
  <2>. QED  BY <1>1, <1>3, <1>4, <1>6, <2>1 DEF AloneInv
<1>10. StoredInv'
  BY <1>1 DEF SessionInv, StoredInv
<1>. QED  BY <1>5, <1>7, <1>8, <1>9, <1>10 DEF SessionInv

-------------------------------------------------------------------------------
(* The steps of one request                                                  *)

\* What the account service answers now, put over the session's user, tells what it
\* allows; and so does the session's user itself where it is not asked.
LEMMA AllowedPage ==
  ASSUME NEW e \in Request, e.target \in Targets, NEW user \in Users, user = e.copy.user
  PROVE  /\ user.id # "given" => \A a : Allowed(e, a) <=> Fits(user, e.target)
         /\ user.id = "given" => ~Allowed(e, Gone)
         /\ user.id = "given" =>
               \A a \in Accounts : /\ Kept(user, a) \in Users
                                   /\ Kept(user, a).orgs = a.orgs
                                   /\ Allowed(e, a) <=> Fits(Kept(user, a), e.target)
<1>1. e.target # Nowhere
  BY SessionAssumption
<1>2. \A a : Allowed(e, a) <=> IF user.id # "given"
                               THEN Fits(user, e.target)
                               ELSE a # Gone /\ Fits([a EXCEPT !.role = IF @ = Left THEN user.role ELSE @], e.target)
  BY <1>1 DEF Allowed
<1>3. ASSUME NEW a \in Accounts, user.id = "given"
      PROVE  /\ Kept(user, a) \in Users
             /\ Kept(user, a).orgs = a.orgs
             /\ Allowed(e, a) <=> Fits(Kept(user, a), e.target)
  <2>. DEFINE told == [a EXCEPT !.role = IF @ = Left THEN user.role ELSE @]
              kept == Kept(user, a)
  <2>1. a \in Users /\ a # Gone
    BY SessionAssumption
  <2>2. /\ kept \in Users /\ kept.orgs = a.orgs
        /\ kept.role = IF a.role = Left THEN user.role ELSE a.role
    <3>. DEFINE role == OrBefore(user.role, a.role)
                id == OrBefore(user.id, a.id)
    <3>1. /\ role \in {"approved", "basic", "none", Left} /\ id \in {"given", "none", Left}
          /\ role = IF a.role = Left THEN user.role ELSE a.role
      BY <2>1 DEF OrBefore, Users
    <3>2. kept = [a EXCEPT !.role = role, !.id = id]
      BY <2>1 DEF Kept, Users
    <3>. HIDE DEF role, id, kept
    <3>3. [a EXCEPT !.role = role, !.id = id] \in Users
      BY <2>1, <3>1 DEF Users
    <3>4. kept.orgs = a.orgs /\ kept.role = role
      BY <2>1, <3>2 DEF Users
    <3>. QED  BY <3>1, <3>2, <3>3, <3>4
  <2>3. told.orgs = a.orgs /\ told.role = IF a.role = Left THEN user.role ELSE a.role
    BY <2>1 DEF Users
  <2>. HIDE DEF told, kept
  <2>4. Fits(told, e.target) <=> Fits(kept, e.target)
    BY <2>2, <2>3 DEF Fits, BelongsTo, RoleAllows
  <2>. QED  BY <1>2, <1>3, <2>1, <2>2, <2>4 DEF told, kept
<1>. QED  BY <1>2, <1>3

LEMMA AnswerStep ==
  ASSUME SessionInv, NEW r \in Requests, Running(r), req[r].phase # "signedIn",
         NEW phase \in {"error", "notSignedIn", "forbidden", "served"}, Answer(r, phase),
         phase = "forbidden" => req[r].couldNot \/ req[r].missing # {},
         phase = "served" => req[r].could
  PROVE  SessionInv'
<1>. DEFINE could == req[r].could /\ phase = "served"
            couldNot == req[r].couldNot /\ phase = "forbidden"
            e == [req[r] EXCEPT !.phase = phase, !.todo = {}, !.could = could,
                                !.couldNot = couldNot]
<1>1. req[r] \in Request /\ req[r].phase # "free"
  BY DEF SessionInv, SessionTypeOK, Running
<1>2. DecisionInv(req[r]) /\ AddressInv(req[r])
  BY DEF SessionInv
<1>3. req' = [req EXCEPT ![r] = e] /\ UNCHANGED <<account, session, intended>>
  BY <1>1 DEF Answer, SessionInv, SessionTypeOK, Request
<1>4. /\ could \in BOOLEAN /\ couldNot \in BOOLEAN
      /\ phase = "served" => could
      /\ phase = "forbidden" => couldNot \/ req[r].missing # {}
  OBVIOUS
<1>. HIDE DEF could, couldNot
<1>5. /\ e \in Request /\ e.phase = phase /\ e.could = could /\ e.couldNot = couldNot
      /\ e.missing = req[r].missing /\ e.copy = req[r].copy /\ e.meant = req[r].meant
      /\ e.beside = req[r].beside /\ e.reset = req[r].reset
  BY <1>1, <1>4 DEF Request, Phases
<1>. HIDE DEF e
<1>6. DecisionInv(e)
  BY <1>4, <1>5 DEF DecisionInv, Unread
<1>7. AddressInv(e)
  BY <1>2, <1>5 DEF AddressInv
<1>. QED  BY <1>1, <1>3, <1>5, <1>6, <1>7, Goes

\* The checks go on with a user of whom the request knows whether the page is allowed.
LEMMA CheckAsStep ==
  ASSUME SessionInv, NEW r \in Requests, req[r].phase = "refresh", NEW user \in Users,
         CheckAs(r, user),
         IF Fits(user, req[r].target) THEN req[r].could ELSE req[r].couldNot
  PROVE  SessionInv'
<1>1. /\ req[r] \in Request /\ Running(r)
      /\ DecisionInv(req[r]) /\ AddressInv(req[r]) /\ req[r].target \in Targets
  BY DEF SessionInv, SessionTypeOK, Running, DecisionInv
<1>. DEFINE scheme == req[r].target.who = "cso"
            todo == IF scheme THEN user.orgs ELSE {}
            phase == CASE scheme -> "schemes"
                       [] Member(user, req[r].target) -> "role"
                       [] OTHER -> "forbidden"
            e == [req[r] EXCEPT !.copy = [@ EXCEPT !.user = user], !.todo = todo,
                                !.phase = phase]
<1>2. /\ phase \in {"schemes", "role", "forbidden"} /\ (phase = "schemes" <=> scheme)
      /\ phase = "role" => BelongsTo(user, req[r].target)
      /\ phase = "forbidden" => ~BelongsTo(user, req[r].target)
  <2>1. /\ ~scheme => req[r].target.who = "producer"
        /\ Member(user, req[r].target) => ~scheme
    BY <1>1, SessionAssumption DEF Member
  <2>. QED  BY <2>1 DEF Member, BelongsTo
<1>3. todo \in SUBSET Orgs /\ (scheme => todo = user.orgs)
  BY DEF Users
<1>. HIDE DEF phase, todo
<1>4. /\ req' = [req EXCEPT ![r].copy.user = user, ![r].todo = todo, ![r].phase = phase]
      /\ UNCHANGED <<account, session, intended>>
  BY DEF CheckAs, phase, todo
<1>5. req' = [req EXCEPT ![r] = e]
  BY <1>1, <1>4 DEF SessionInv, SessionTypeOK, Request
<1>6. /\ e \in Request /\ e.phase = phase /\ e.target = req[r].target /\ e.todo = todo
      /\ e.could = req[r].could /\ e.couldNot = req[r].couldNot /\ e.missing = req[r].missing
      /\ e.copy.user = user /\ e.copy.authReturnUrl = req[r].copy.authReturnUrl
      /\ e.meant = req[r].meant /\ e.beside = req[r].beside /\ e.reset = req[r].reset
  <2>1. [req[r].copy EXCEPT !.user = user] \in Session
    BY <1>1 DEF Request, Session
  <2>2. phase \in Phases
    BY <1>2 DEF Phases
  <2>. QED  BY <1>1, <1>3, <2>1, <2>2 DEF Request, Session
<1>. HIDE DEF e
<1>7. Judged(e)
  BY <1>6 DEF Judged
<1>8. phase = "forbidden" => e.couldNot
  BY <1>2, <1>6, <1>7 DEF Judged, Fits
<1>9. DecisionInv(e)
  BY <1>1, <1>2, <1>3, <1>6, <1>7, <1>8 DEF DecisionInv, Unread
<1>10. AddressInv(e)
  BY <1>1, <1>2, <1>6 DEF AddressInv
<1>11. e.phase # "free"
  BY <1>2, <1>6
<1>. QED  BY <1>1, <1>4, <1>5, <1>6, <1>9, <1>10, <1>11, Goes

LEMMA RefreshUserStep ==
  ASSUME SessionInv, NEW r \in Requests, RefreshUser(r)
  PROVE  SessionInv'
<1>. DEFINE user == req[r].copy.user
<1>1. /\ req[r] \in Request /\ req[r].phase = "refresh" /\ Running(r)
      /\ DecisionInv(req[r]) /\ req[r].target \in Targets
      /\ account \in Accounts \cup {Gone} /\ Knows(req[r], account)
      /\ user \in Users
  BY DEF SessionInv, SessionTypeOK, RefreshUser, Running, DecisionInv, Unread, Request, Session
<1>2. CASE user.id # "given" /\ CheckAs(r, user)
  <2>1. Allowed(req[r], account) <=> Fits(user, req[r].target)
    BY <1>1, <1>2, AllowedPage
  <2>. QED  BY <1>1, <1>2, <2>1, CheckAsStep DEF Knows
<1>3. CASE Answer(r, "error")
  BY <1>1, <1>3, AnswerStep
<1>4. CASE user.id = "given" /\ account = Gone /\ Answer(r, "forbidden")
  <2>1. ~Allowed(req[r], Gone)
    BY <1>1, <1>4, AllowedPage
  <2>2. req[r].couldNot
    BY <1>1, <1>4, <2>1 DEF Knows
  <2>. QED  BY <1>1, <1>4, <2>2, AnswerStep
<1>5. CASE user.id = "given" /\ account # Gone /\ CheckAs(r, Kept(user, account))
  <2>1. account \in Accounts
    BY <1>1, <1>5
  <2>2. /\ Kept(user, account) \in Users
        /\ Allowed(req[r], account) <=> Fits(Kept(user, account), req[r].target)
    BY <1>1, <1>5, <2>1, AllowedPage
  <2>. QED  BY <1>1, <1>5, <2>2, CheckAsStep DEF Knows
<1>. QED  BY <1>2, <1>3, <1>4, <1>5 DEF RefreshUser

\* The walk over the operators: what is left of it and what matched stay true of the
\* user that was read.
LEMMA ReadSchemesStep ==
  ASSUME SessionInv, NEW r \in Requests, ReadSchemes(r)
  PROVE  SessionInv'
<1>1. /\ req[r] \in Request /\ req[r].phase = "schemes" /\ Running(r)
      /\ DecisionInv(req[r]) /\ AddressInv(req[r]) /\ req[r].target \in Targets
      /\ req[r].copy.user \in Users /\ Judged(req[r])
      /\ req[r].target.who = "cso"
  BY DEF SessionInv, SessionTypeOK, ReadSchemes, Running, DecisionInv
<1>2. CASE req[r].todo = {} /\ Answer(r, "forbidden")
  <2>1. req[r].missing = {} => ~BelongsTo(req[r].copy.user, req[r].target)
    BY <1>1, <1>2 DEF DecisionInv, BelongsTo
  <2>2. req[r].missing = {} => req[r].couldNot
    BY <1>1, <2>1 DEF Judged, Fits
  <2>. QED  BY <1>1, <1>2, <2>2, AnswerStep
<1>3. CASE Answer(r, "error")
  BY <1>1, <1>3, AnswerStep
<1>4. ASSUME NEW o \in req[r].todo, Matches(o, req[r].target.id),
             req' = [req EXCEPT ![r].phase = "role"], UNCHANGED <<account, session, intended>>
      PROVE  SessionInv'
  <2>. DEFINE e == [req[r] EXCEPT !.phase = "role"]
  <2>1. req' = [req EXCEPT ![r] = e]
    BY <1>4 DEF SessionInv, SessionTypeOK
  <2>2. /\ e \in Request /\ e.phase = "role" /\ e.target = req[r].target
        /\ e.could = req[r].could /\ e.couldNot = req[r].couldNot
        /\ e.copy = req[r].copy /\ e.meant = req[r].meant /\ e.beside = req[r].beside
        /\ e.reset = req[r].reset
    BY <1>1 DEF Request, Phases
  <2>. HIDE DEF e
  <2>3. BelongsTo(e.copy.user, e.target)
    BY <1>1, <1>4, <2>2 DEF DecisionInv, BelongsTo
  <2>4. DecisionInv(e)
    BY <1>1, <2>2, <2>3 DEF DecisionInv, Unread, Judged
  <2>5. AddressInv(e)
    BY <1>1, <2>2 DEF AddressInv
  <2>. QED  BY <1>1, <1>4, <2>1, <2>2, <2>4, <2>5, Goes
<1>5. ASSUME NEW o \in req[r].todo, NEW missing \in SUBSET Orgs,
             missing = {} => req[r].missing = {} /\ ~Matches(o, req[r].target.id),
             req' = [req EXCEPT ![r].todo = @ \ {o}, ![r].missing = missing],
             UNCHANGED <<account, session, intended>>
      PROVE  SessionInv'
  <2>. DEFINE e == [req[r] EXCEPT !.todo = @ \ {o}, !.missing = missing]
  <2>1. req' = [req EXCEPT ![r] = e]
    BY <1>1, <1>5 DEF SessionInv, SessionTypeOK, Request
  <2>2. /\ e \in Request /\ e.phase = "schemes" /\ e.target = req[r].target
        /\ e.could = req[r].could /\ e.couldNot = req[r].couldNot
        /\ e.copy = req[r].copy /\ e.meant = req[r].meant /\ e.beside = req[r].beside
        /\ e.reset = req[r].reset /\ e.todo = req[r].todo \ {o} /\ e.missing = missing
    BY <1>1, <1>5 DEF Request
  <2>. HIDE DEF e
  <2>3. e.missing = {} => \A q \in e.copy.user.orgs \ e.todo : ~Matches(q, e.target.id)
    BY <1>1, <1>5, <2>2 DEF DecisionInv
  <2>4. DecisionInv(e)
    BY <1>1, <2>2, <2>3 DEF DecisionInv, Unread, Judged
  <2>5. AddressInv(e)
    BY <1>1, <2>2 DEF AddressInv
  <2>. QED  BY <1>1, <1>5, <2>1, <2>2, <2>4, <2>5, Goes
<1>6. ASSUME NEW o \in req[r].todo, ~Matches(o, req[r].target.id),
             req' = [req EXCEPT ![r].todo = Later(r, o)], UNCHANGED <<account, session, intended>>
      PROVE  SessionInv'
  <2>1. req' = [req EXCEPT ![r].todo = @ \ {o}, ![r].missing = req[r].missing]
    BY <1>1, <1>6 DEF Later, SessionInv, SessionTypeOK, Request
  <2>2. req[r].missing \in SUBSET Orgs
    BY <1>1 DEF Request
  <2>. QED  BY <1>5, <1>6, <2>1, <2>2
<1>7. ASSUME NEW o \in req[r].todo, UNCHANGED <<account, session, intended>>,
             req' = [req EXCEPT ![r].todo = @ \ {o}, ![r].missing = @ \cup {o}]
      PROVE  SessionInv'
  <2>1. req[r].missing \cup {o} \in SUBSET Orgs
    BY <1>1 DEF Request
  <2>2. req' = [req EXCEPT ![r].todo = @ \ {o}, ![r].missing = req[r].missing \cup {o}]
    BY <1>1, <1>7 DEF SessionInv, SessionTypeOK, Request
  <2>. QED  BY <1>5, <1>7, <2>1, <2>2
<1>. QED  BY <1>2, <1>3, <1>4, <1>6, <1>7 DEF ReadSchemes

LEMMA CheckRoleStep ==
  ASSUME SessionInv, NEW r \in Requests, CheckRole(r)
  PROVE  SessionInv'
<1>1. /\ req[r].phase = "role" /\ Running(r) /\ req[r].target \in Targets
      /\ req[r].copy.user \in Users /\ Judged(req[r])
      /\ BelongsTo(req[r].copy.user, req[r].target)
  BY DEF SessionInv, CheckRole, Running, DecisionInv
<1>2. CASE RoleAllows(req[r].copy.user, req[r].target)
  <2>1. req[r].could /\ Answer(r, "served")
    BY <1>1, <1>2 DEF Judged, Fits, CheckRole
  <2>. QED  BY <1>1, <2>1, AnswerStep
<1>3. CASE ~RoleAllows(req[r].copy.user, req[r].target)
  <2>1. req[r].couldNot /\ Answer(r, "forbidden")
    BY <1>1, <1>3 DEF Judged, Fits, CheckRole
  <2>. QED  BY <1>1, <2>1, AnswerStep
<1>. QED  BY <1>2, <1>3

\* A sign-in leads to the address its copy holds, which then is used up.
LEMMA SignInStep ==
  ASSUME SessionInv, NEW r \in Requests, SignIn(r)
  PROVE  SessionInv'
<1>1. /\ req[r] \in Request /\ req[r].phase = "oidc" /\ Running(r)
      /\ DecisionInv(req[r]) /\ AddressInv(req[r]) /\ req[r].target = Nowhere
      /\ account \in Accounts \cup {Gone}
  BY DEF SessionInv, SessionTypeOK, SignIn, Running, DecisionInv
<1>2. CASE Answer(r, "notSignedIn")
  BY <1>1, <1>2, AnswerStep
<1>3. CASE Eligible(account) /\ ~Answer(r, "notSignedIn")
  <2>. DEFINE copy == [user |-> account, authReturnUrl |-> Nowhere]
              e == [req[r] EXCEPT !.phase = "signedIn", !.landed = req[r].copy.authReturnUrl,
                                  !.copy = copy]
  <2>1. req' = [req EXCEPT ![r] = e] /\ UNCHANGED <<account, session, intended>>
    BY <1>1, <1>3 DEF SignIn, Used, SessionInv, SessionTypeOK
  <2>2. copy \in Session /\ req[r].copy.authReturnUrl \in Targets \cup {Nowhere}
    BY <1>1, <1>3, SessionAssumption DEF Eligible, Session, Request
  <2>3. /\ e \in Request /\ e.phase = "signedIn" /\ e.target = req[r].target
        /\ e.could = req[r].could /\ e.couldNot = req[r].couldNot
        /\ e.copy.authReturnUrl = Nowhere /\ e.landed = req[r].copy.authReturnUrl
        /\ e.meant = req[r].meant /\ e.beside = req[r].beside /\ e.reset = req[r].reset
    BY <1>1, <2>2 DEF Request, Phases
  <2>. HIDE DEF e
  <2>4. Allowed(req[r], account)
    BY <1>1, <1>3 DEF Eligible, Allowed
  <2>5. DecisionInv(e)
    BY <1>1, <2>3, <2>4 DEF DecisionInv, Unread, Knows
  <2>6. AddressInv(e)
    BY <1>1, <2>3 DEF AddressInv
  <2>. QED  BY <1>1, <2>1, <2>3, <2>5, <2>6, Goes
<1>. QED  BY <1>2, <1>3 DEF SignIn

-------------------------------------------------------------------------------
(* The steps that touch the session or the account                           *)

\* The copy is written back.  A request that ran beside no other is the only one, so
\* what it held is what was meant.
LEMMA CommitStep ==
  ASSUME SessionInv, NEW r \in Requests, Commit(r)
  PROVE  SessionInv'
<1>. DEFINE e == req[r]
            left == IF e.phase = "toSignIn" THEN [e.copy EXCEPT !.authReturnUrl = e.target]
                    ELSE e.copy
<1>1. /\ e \in Request /\ e.phase \in Answers /\ Running(r) /\ AddressInv(e)
      /\ session \in Session /\ account' = account /\ req' = [req EXCEPT ![r] = Free]
  BY DEF Commit, SessionInv, SessionTypeOK, Running, Answers
<1>2. /\ session' \in {left} \cup (IF e.reset THEN {session} ELSE {})
      /\ intended' = IF e.beside
                     THEN Unknown
                     ELSE CASE e.phase = "toSignIn" -> e.target
                            [] e.phase = "signedIn" -> Nowhere
                            [] OTHER                -> intended
  BY DEF Commit
<1>3. left \in Session
  BY <1>1 DEF Request, Session
<1>4. session' \in Session /\ intended' \in Targets \cup {Nowhere, Unknown}
  <2>1. session' \in Session
    BY <1>1, <1>2, <1>3
  <2>2. e.target \in Targets \cup {Nowhere} /\ intended \in Targets \cup {Nowhere, Unknown}
    BY <1>1 DEF Request, SessionInv, SessionTypeOK
  <2>3. CASE e.beside
    BY <1>2, <2>1, <2>3
  <2>4. CASE ~e.beside /\ e.phase = "toSignIn"
    BY <1>2, <2>1, <2>2, <2>4
  <2>5. CASE ~e.beside /\ e.phase = "signedIn"
    BY <1>2, <2>1, <2>5
  <2>6. CASE ~e.beside /\ e.phase # "toSignIn" /\ e.phase # "signedIn"
    BY <1>2, <2>1, <2>2, <2>6
  <2>. QED  BY <2>1, <2>3, <2>4, <2>5, <2>6
<1>5. \A q \in Requests : req'[q] = (IF q = r THEN Free ELSE req[q])
  BY <1>1 DEF SessionInv, SessionTypeOK
<1>6. SessionTypeOK'
  BY <1>1, <1>4, FreeRequest DEF SessionInv, SessionTypeOK
<1>7. \A q \in Requests : DecisionInv(req[q])'
  <2>1. DecisionInv(Free)'
    BY FreeRequest DEF DecisionInv, Unread
  <2>2. ASSUME NEW q \in Requests, q # r PROVE DecisionInv(req[q])'
    BY <1>1, <1>5, <2>2 DEF SessionInv, DecisionInv
  <2>3. DecisionInv(req[r])'
    BY <1>5, <2>1 DEF DecisionInv
  <2>. QED  BY <2>2, <2>3
<1>8. \A q \in Requests : Running(q)' => q # r /\ Running(q)
  BY <1>5, FreeRequest DEF Running
<1>9. \A q \in Requests : Running(q)' => AddressInv(req[q])'
  BY <1>5, <1>8 DEF SessionInv, AddressInv
<1>10. AloneInv'
  BY <1>1, <1>5, <1>8 DEF SessionInv, AloneInv
<1>11. StoredInv'
  <2>1. CASE e.beside
    BY <1>2, <2>1 DEF StoredInv
  <2>2. CASE ~e.beside
    <3>1. session' = left /\ e.meant = intended
      BY <1>1, <1>2, <2>2 DEF AddressInv, SessionInv, AloneInv
    <3>2. CASE e.phase = "toSignIn"
      <4>1. left.authReturnUrl = e.target
        BY <1>1, <3>2 DEF Request, Session
      <4>. QED  BY <1>2, <2>2, <3>1, <3>2, <4>1 DEF StoredInv
    <3>3. CASE e.phase = "signedIn"
      BY <1>1, <1>2, <2>2, <3>1, <3>3 DEF StoredInv, AddressInv
    <3>4. CASE e.phase # "toSignIn" /\ e.phase # "signedIn"
      BY <1>1, <1>2, <2>2, <3>1, <3>4 DEF StoredInv, AddressInv
    <3>. QED  BY <3>2, <3>3, <3>4
  <2>. QED  BY <2>1, <2>2
<1>. QED  BY <1>6, <1>7, <1>9, <1>10, <1>11 DEF SessionInv

\* A reset leaves nothing behind; a request under way is told it happened.
LEMMA SignOutStep ==
  ASSUME SessionInv, SignOut
  PROVE  SessionInv'
<1>1. /\ session' = Blank /\ account' = account
      /\ intended' = IF \E r \in Requests : Running(r) THEN Unknown ELSE Nowhere
      /\ \A q \in Requests :
             req'[q] = IF Running(q) THEN [req[q] EXCEPT !.reset = TRUE, !.beside = TRUE]
                       ELSE req[q]
      /\ req' = [q \in Requests |-> req'[q]]
  BY DEF SignOut
<1>2. \A q \in Requests :
        /\ req'[q] \in Request /\ req'[q].phase = req[q].phase
        /\ req'[q].copy = req[q].copy /\ req'[q].target = req[q].target
        /\ req'[q].todo = req[q].todo /\ req'[q].missing = req[q].missing
        /\ req'[q].landed = req[q].landed /\ req'[q].meant = req[q].meant
        /\ req'[q].could = req[q].could /\ req'[q].couldNot = req[q].couldNot
        /\ Running(q) => req'[q].beside
  <2>. SUFFICES ASSUME NEW q \in Requests
                PROVE  /\ req'[q] \in Request /\ req'[q].phase = req[q].phase
                       /\ req'[q].copy = req[q].copy /\ req'[q].target = req[q].target
                       /\ req'[q].todo = req[q].todo /\ req'[q].missing = req[q].missing
                       /\ req'[q].landed = req[q].landed /\ req'[q].meant = req[q].meant
                       /\ req'[q].could = req[q].could
                       /\ req'[q].couldNot = req[q].couldNot
                       /\ Running(q) => req'[q].beside
    OBVIOUS
  <2>1. req[q] \in Request
    BY DEF SessionInv, SessionTypeOK
  <2>2. CASE Running(q)
    <3>1. req'[q] = [req[q] EXCEPT !.reset = TRUE, !.beside = TRUE]
      BY <1>1, <2>2
    <3>. QED  BY <2>1, <3>1 DEF Request
  <2>3. CASE ~Running(q)
    BY <1>1, <2>1, <2>3
  <2>. QED  BY <2>2, <2>3
<1>3. SessionTypeOK'
  BY <1>1, <1>2, FreeRequest DEF SessionInv, SessionTypeOK
<1>4. \A q \in Requests : Running(q)' <=> Running(q)
  BY <1>2 DEF Running
<1>5. \A q \in Requests : DecisionInv(req[q])'
  <2>. SUFFICES ASSUME NEW q \in Requests PROVE DecisionInv(req[q])'
    OBVIOUS
  <2>1. DecisionInv(req[q])
    BY DEF SessionInv
  <2>. QED  BY <1>1, <1>2, <2>1 DEF DecisionInv, Unread, Knows, Judged, Allowed
<1>6. \A q \in Requests : Running(q)' => AddressInv(req[q])'
  BY <1>2, <1>4 DEF SessionInv, AddressInv
<1>7. AloneInv'
  BY <1>2, <1>4 DEF AloneInv
<1>8. StoredInv'
  BY <1>1 DEF StoredInv, Blank
<1>. QED  BY <1>3, <1>5, <1>6, <1>7, <1>8 DEF SessionInv

\* Requests under way see the account change.
LEMMA AccountStep ==
  ASSUME SessionInv, AccountChanges
  PROVE  SessionInv'
<1>1. /\ account' \in Accounts \cup {Gone} /\ UNCHANGED <<session, intended>>
      /\ req' = [q \in Requests |-> Watched(req[q], account')]
  BY DEF AccountChanges
<1>2. \A q \in Requests : req[q] \in Request /\ req'[q] = Watched(req[q], account')
  BY <1>1 DEF SessionInv, SessionTypeOK
<1>3. SessionTypeOK'
  BY <1>1, <1>2, WatchedRequest DEF SessionInv, SessionTypeOK
<1>4. \A q \in Requests : Running(q)' <=> Running(q)
  BY <1>2, WatchedRequest DEF Running
<1>5. \A q \in Requests : DecisionInv(req[q])'
  <2>. SUFFICES ASSUME NEW q \in Requests PROVE DecisionInv(req[q])'
    OBVIOUS
  <2>1. /\ req[q] \in Request /\ req'[q] = Watched(req[q], account') /\ DecisionInv(req[q])
    BY <1>2 DEF SessionInv
  <2>2. Unread(req[q]) => Knows(req'[q], account')
    BY <2>1, WatchedRequest
  <2>3. Judged(req[q]) => Judged(req'[q])
    BY <2>1, WatchedRequest DEF Judged
  <2>. QED  BY <2>1, <2>2, <2>3, WatchedRequest DEF DecisionInv, Unread
<1>6. \A q \in Requests : Running(q)' => AddressInv(req[q])'
  BY <1>2, <1>4, WatchedRequest DEF SessionInv, AddressInv
<1>7. AloneInv'
  BY <1>1, <1>2, <1>4, WatchedRequest DEF SessionInv, AloneInv
<1>8. StoredInv'
  BY <1>1 DEF SessionInv, StoredInv
<1>. QED  BY <1>3, <1>5, <1>6, <1>7, <1>8 DEF SessionInv

-------------------------------------------------------------------------------

LEMMA SessionStepInv == SessionInv /\ [SessionNext]_sessionVars => SessionInv'
<1> SUFFICES ASSUME SessionInv, [SessionNext]_sessionVars PROVE SessionInv'
  OBVIOUS
<1>1. ASSUME NEW r \in Requests, NEW p \in Targets, AskFor(r, p) PROVE SessionInv'
  <2>1. CASE session.user # Nobody
    <3>1. Begin(r, "refresh", p)
      BY <1>1, <2>1 DEF AskFor
    <3>. QED  BY <2>1, <3>1, BeginStep
  <2>2. CASE session.user = Nobody
    <3>1. Begin(r, "toSignIn", p)
      BY <1>1, <2>2 DEF AskFor
    <3>. QED  BY <3>1, BeginStep
  <2>. QED  BY <2>1, <2>2
<1>2. ASSUME NEW r \in Requests, Callback(r) PROVE SessionInv'
  BY <1>2, BeginStep DEF Callback
<1>3. ASSUME NEW r \in Requests,
             RefreshUser(r) \/ ReadSchemes(r) \/ CheckRole(r) \/ SignIn(r) \/ Commit(r)
      PROVE  SessionInv'
  BY <1>3, RefreshUserStep, ReadSchemesStep, CheckRoleStep, SignInStep, CommitStep
<1>4. CASE SignOut \/ AccountChanges
  BY <1>4, SignOutStep, AccountStep
<1>5. CASE UNCHANGED sessionVars
  BY <1>5 DEF sessionVars, SessionInv, SessionTypeOK, DecisionInv, AddressInv, AloneInv,
              StoredInv, Running
<1>. QED  BY <1>1, <1>2, <1>3, <1>4, <1>5 DEF SessionNext

\* Every reachable state satisfies the invariant the other theorems rest on.
THEOREM SessionInvariance == SessionSpec => []SessionInv
BY SessionInitInv, SessionStepInv, PTL DEF SessionSpec

\* The account, the session and the requests keep their types.
THEOREM SessionTypes == SessionSpec => []SessionTypeOK
<1>1. SessionInv => SessionTypeOK
  BY DEF SessionInv
<1>. QED  BY <1>1, SessionInvariance, PTL

\* However many requests overlap, a page is shown and a sign-in accepted only on what
\* the account service would have said during that request, up to when it was asked, and
\* a page refused only on it: on a role of before only where the answer leaves the role
\* out, and on the session's user alone only where no answer gave the user's id.
THEOREM Decisions == SessionSpec => []DecidedAsOfNow
<1>1. SessionInv => DecidedAsOfNow
  BY DEF SessionInv, DecisionInv, DecidedAsOfNow
<1>. QED  BY <1>1, SessionInvariance, PTL

\* A sign-in that overlapped nothing leads to the page last asked for without one.
THEOREM LandsAsMeant == SessionSpec => []LandsWhereMeant
<1>1. SessionInv => LandsWhereMeant
  BY DEF SessionInv, AddressInv, LandsWhereMeant, Running
<1>. QED  BY <1>1, SessionInvariance, PTL

-------------------------------------------------------------------------------
(* Consent. *)

\* A page whose answers overlapped is excused; so is one that runs tags while its
\* refusal is under way, since only the other answer can have started them.
PageInv(page) ==
    /\ page.posts = Preferences => page.excused
    /\ "no" \in page.posts /\ page.runs => page.excused
    /\ page.runs => ~page.dry
    /\ page.banner \/ page.posts # {} \/ page.runs => page.open

\* A restored page has nothing under way and has not given its cookies away.
CacheInv(page) == page.posts = {} /\ ~page.dry

\* While there can be cookies and the service is open, some page can still take them away.
CookieInv ==
    ga \/ policy = "yes" => (\A t \in Tabs : ~tab[t].open) \/ \E t \in Tabs : HasThem(t)

\* A step after which as many pages are open, as many dry and as many asked for keeps it.
LEMMA SameCookies ==
  ASSUME CookieInv, asked' = asked,
         \A s \in Tabs : tab'[s].open = tab[s].open /\ tab'[s].dry = tab[s].dry,
         ga' \/ policy' = "yes" => ga \/ policy = "yes"
  PROVE  CookieInv'
BY DEF CookieInv, HasThem

ConsentInv ==
    /\ ConsentTypeOK
    /\ \A t \in Tabs : PageInv(tab[t]) /\ CacheInv(cached[t])
    /\ RunsOnlyAccepted
    /\ CookieInv

-------------------------------------------------------------------------------

LEMMA PageTypes ==
  /\ Closed \in Page
  /\ \A d, p \in Policies : Arrived(d, p) \in Page
  /\ \A page \in Page : Frozen(page) \in Page
BY DEF Closed, Page, Arrived, Frozen, TagsDrawn, Accepted

LEMMA ChangedTypes ==
  ASSUME ConsentTypeOK, NEW p, NEW t
  PROVE  /\ Changed(p, t) \in [Tabs -> Page]
         /\ \A s \in Tabs :
              /\ Changed(p, t)[s].open = tab[s].open /\ Changed(p, t)[s].banner = tab[s].banner
              /\ Changed(p, t)[s].posts = tab[s].posts /\ Changed(p, t)[s].runs = tab[s].runs
              /\ Changed(p, t)[s].dry = tab[s].dry
              /\ tab[s].excused => Changed(p, t)[s].excused
              /\ s # t /\ tab[s].runs => Changed(p, t)[s].excused
              /\ s = t => Changed(p, t)[s] = tab[s]
BY DEF Changed, ConsentTypeOK, Page

LEMMA ConsentInitInv == ConsentInit => ConsentInv
<1> SUFFICES ASSUME ConsentInit PROVE ConsentInv
  OBVIOUS
<1>1. /\ Closed \in Page /\ Closed.posts = {} /\ ~Closed.runs /\ ~Closed.dry
      /\ ~Closed.banner /\ ~Closed.open
  BY PageTypes DEF Closed
<1>2. ConsentTypeOK
  BY <1>1 DEF ConsentInit, ConsentTypeOK, Policies, Preferences
<1>3. PageInv(Closed) /\ CacheInv(Closed)
  BY <1>1 DEF PageInv, CacheInv, Preferences
<1>4. \A t \in Tabs : tab[t] = Closed /\ cached[t] = Closed
  BY DEF ConsentInit
<1>5. RunsOnlyAccepted /\ CookieInv
  BY <1>1, <1>4 DEF RunsOnlyAccepted, CookieInv
<1>. QED  BY <1>2, <1>3, <1>4, <1>5 DEF ConsentInv

LEMMA AskStep ==
  ASSUME ConsentInv, NEW t \in Tabs, Ask(t)
  PROVE  ConsentInv'
<1>1. /\ asked' = [asked EXCEPT ![t] = policy] /\ policy \in Policies
      /\ UNCHANGED <<policy, ga, tab, cached>>
  BY DEF Ask, ConsentInv, ConsentTypeOK
<1>2. ConsentTypeOK' /\ RunsOnlyAccepted'
  BY <1>1 DEF ConsentInv, ConsentTypeOK, RunsOnlyAccepted
<1>3. CookieInv'
  BY <1>1 DEF ConsentInv, ConsentTypeOK, CookieInv, HasThem, Policies, Preferences
<1>. QED  BY <1>1, <1>2, <1>3 DEF ConsentInv

\* A page that arrives runs the tags it was drawn with, and is excused when the policy
\* changed meanwhile.
LEMMA ArriveStep ==
  ASSUME ConsentInv, NEW t \in Tabs, Arrive(t)
  PROVE  ConsentInv'
<1>. DEFINE page == Arrived(asked[t], policy)
<1>1. /\ asked[t] \in Policies /\ policy \in Policies /\ policy' = policy
      /\ tab' = [tab EXCEPT ![t] = page]
  BY DEF Arrive, ConsentInv, ConsentTypeOK
<1>2. /\ page \in Page /\ page.posts = {} /\ page.open
      /\ page.runs => policy = "yes" \/ page.excused
      /\ page.runs => ~page.dry
      /\ policy = "yes" => ~page.dry
  <2>1. page \in Page
    BY <1>1, PageTypes
  <2>2. /\ page.posts = {} /\ page.open /\ page.runs = (asked[t] = "yes")
        /\ page.dry = (policy # "yes" /\ asked[t] # "yes")
        /\ page.excused = (asked[t] # policy /\ asked[t] = "yes")
    BY DEF Arrived, Closed, TagsDrawn, Accepted
  <2>. QED  BY <2>1, <2>2
<1>3. cached' \in [Tabs -> Page] /\ \A s \in Tabs : CacheInv(cached'[s])
  <2>1. CASE cached' = cached
    BY <2>1 DEF ConsentInv, ConsentTypeOK
  <2>2. CASE cached' = [cached EXCEPT ![t] = Frozen(tab[t])]
    <3>1. Frozen(tab[t]) \in Page
      BY PageTypes DEF ConsentInv, ConsentTypeOK
    <3>2. CacheInv(Frozen(tab[t]))
      BY DEF CacheInv, Frozen, Closed
    <3>. QED  BY <2>2, <3>1, <3>2 DEF ConsentInv, ConsentTypeOK
  <2>. QED  BY <2>1, <2>2 DEF Arrive
<1>4. ga' \in BOOLEAN /\ (policy # "yes" => ga' = FALSE)
  BY DEF Arrive, Cleaned, TakenBack, Accepted, ConsentInv, ConsentTypeOK
<1>5. ConsentTypeOK'
  BY <1>1, <1>2, <1>3, <1>4 DEF Arrive, ConsentInv, ConsentTypeOK
<1>6. \A s \in Tabs : PageInv(tab'[s])
  <2>1. PageInv(page)
    BY <1>2 DEF PageInv, Preferences
  <2>. QED  BY <1>1, <2>1 DEF ConsentInv, ConsentTypeOK
<1>7. RunsOnlyAccepted'
  BY <1>1, <1>2 DEF ConsentInv, ConsentTypeOK, RunsOnlyAccepted
<1>8. CookieInv'
  BY <1>1, <1>2, <1>4 DEF CookieInv, HasThem, ConsentInv, ConsentTypeOK
<1>. QED  BY <1>3, <1>5, <1>6, <1>7, <1>8 DEF ConsentInv, PageInv, CacheInv

\* A page comes back running its tags only while analytics is accepted.
LEMMA RestoreStep ==
  ASSUME ConsentInv, NEW t \in Tabs, Restore(t)
  PROVE  ConsentInv'
<1>1. /\ Closed \in Page /\ Closed.posts = {} /\ ~Closed.runs /\ ~Closed.dry
      /\ ~Closed.banner /\ ~Closed.open
  BY PageTypes DEF Closed
<1>2. CASE Guard(t)
  <2>1. /\ policy = "yes" /\ policy' = "yes" /\ ga' = ga /\ asked' = asked
        /\ tab' = [tab EXCEPT ![t] = cached[t]]
        /\ cached' = [cached EXCEPT ![t] = Closed]
    BY <1>2 DEF Restore, Guard, Accepted
  <2>2. PageInv(cached[t]) /\ ~cached[t].dry /\ cached[t].open
    BY DEF Restore, ConsentInv, PageInv, CacheInv, Preferences
  <2>3. ConsentTypeOK'
    BY <1>1, <2>1 DEF ConsentInv, ConsentTypeOK
  <2>4. \A s \in Tabs : PageInv(tab'[s]) /\ CacheInv(cached'[s])
    BY <1>1, <2>1, <2>2 DEF ConsentInv, ConsentTypeOK, CacheInv
  <2>5. RunsOnlyAccepted' /\ CookieInv'
    BY <2>1, <2>2 DEF ConsentInv, ConsentTypeOK, RunsOnlyAccepted, CookieInv, HasThem
  <2>. QED  BY <2>3, <2>4, <2>5 DEF ConsentInv, PageInv, CacheInv
<1>3. CASE ~Guard(t)
  <2>1. /\ policy # "yes" /\ policy' = policy /\ ga' = FALSE
        /\ tab' = [tab EXCEPT ![t] = Closed]
        /\ cached' = [cached EXCEPT ![t] = Closed]
        /\ asked' = [asked EXCEPT ![t] = policy]
    BY <1>3 DEF Restore, Guard, Accepted
  <2>2. PageInv(Closed)
    BY <1>1 DEF PageInv, Preferences
  <2>3. ConsentTypeOK'
    BY <1>1, <2>1 DEF ConsentInv, ConsentTypeOK
  <2>4. \A s \in Tabs : PageInv(tab'[s]) /\ CacheInv(cached'[s])
    BY <1>1, <2>1, <2>2 DEF ConsentInv, ConsentTypeOK, CacheInv
  <2>5. RunsOnlyAccepted' /\ CookieInv'
    BY <1>1, <2>1 DEF ConsentInv, ConsentTypeOK, RunsOnlyAccepted, CookieInv
  <2>. QED  BY <2>3, <2>4, <2>5 DEF ConsentInv, PageInv, CacheInv
<1>. QED  BY <1>2, <1>3

\* Tags that write cookies run in a page that has not given them away.
LEMMA TagsWriteStep ==
  ASSUME ConsentInv, NEW t \in Tabs, TagsWrite(t)
  PROVE  ConsentInv'
<1>1. tab[t].open /\ ~tab[t].dry
  BY DEF TagsWrite, ConsentInv, PageInv
<1>. QED  BY <1>1 DEF TagsWrite, ConsentInv, ConsentTypeOK, PageInv, RunsOnlyAccepted, CookieInv,
                     HasThem

-------------------------------------------------------------------------------

\* An answer is posted: the second of two that overlap excuses the page.
LEMMA PostedPage ==
  ASSUME ConsentInv, NEW t \in Tabs, NEW choice \in Preferences
  PROVE  /\ Posted(t, choice) \in [Tabs -> Page]
         /\ \A s \in Tabs : s # t => Posted(t, choice)[s] = tab[s]
         /\ Posted(t, choice)[t].posts = tab[t].posts \cup {choice}
         /\ Posted(t, choice)[t].runs = tab[t].runs
         /\ Posted(t, choice)[t].dry = tab[t].dry
         /\ Posted(t, choice)[t].open = tab[t].open /\ Posted(t, choice)[t].banner = tab[t].banner
         /\ tab[t].excused \/ tab[t].posts # {} => Posted(t, choice)[t].excused
<1>. DEFINE page == [tab[t] EXCEPT !.posts = @ \cup {choice},
                                  !.excused = @ \/ tab[t].posts # {}]
<1>1. tab \in [Tabs -> Page] /\ tab[t] \in Page
  BY DEF ConsentInv, ConsentTypeOK
<1>2. Posted(t, choice) = [tab EXCEPT ![t] = page]
  BY <1>1 DEF Posted, Page
<1>3. /\ page.posts = tab[t].posts \cup {choice} /\ page.runs = tab[t].runs
      /\ page.dry = tab[t].dry /\ page.open = tab[t].open /\ page.banner = tab[t].banner
      /\ page.excused = (tab[t].excused \/ tab[t].posts # {})
  BY <1>1 DEF Page
<1>4. page \in Page
  <2>1. tab[t].posts \cup {choice} \in SUBSET Preferences
    BY <1>1 DEF Page
  <2>2. (tab[t].excused \/ tab[t].posts # {}) \in BOOLEAN
    OBVIOUS
  <2>. QED  BY <1>1, <2>1, <2>2 DEF Page
<1>. QED  BY <1>1, <1>2, <1>3, <1>4

LEMMA ClickAcceptStep ==
  ASSUME ConsentInv, NEW t \in Tabs, ClickAccept(t)
  PROVE  ConsentInv'
<1>1. /\ tab' = Posted(t, "yes") /\ "yes" \notin tab[t].posts /\ tab[t].banner
      /\ UNCHANGED <<policy, ga, asked, cached>>
  BY DEF ClickAccept
<1>2. PageInv(Posted(t, "yes")[t])
  BY <1>1, PostedPage DEF ConsentInv, PageInv, Preferences
<1>3. ConsentTypeOK'
  BY <1>1, PostedPage DEF ConsentInv, ConsentTypeOK, Preferences
<1>4. \A s \in Tabs : PageInv(tab'[s])
  BY <1>1, <1>2, PostedPage DEF ConsentInv, Preferences
<1>5. RunsOnlyAccepted'
  BY <1>1, PostedPage DEF ConsentInv, RunsOnlyAccepted, Preferences
<1>6. CookieInv'
  <2>1. \A s \in Tabs : tab'[s].open = tab[s].open /\ tab'[s].dry = tab[s].dry
    BY <1>1, PostedPage DEF Preferences
  <2>. QED  BY <1>1, <2>1, SameCookies DEF ConsentInv
<1>. QED  BY <1>1, <1>3, <1>4, <1>5, <1>6 DEF ConsentInv, PageInv, CacheInv

LEMMA ClickRejectStep ==
  ASSUME ConsentInv, NEW t \in Tabs, ClickReject(t)
  PROVE  ConsentInv'
<1>1. /\ tab' = [Posted(t, "no") EXCEPT ![t].runs = FALSE] /\ ga' = FALSE /\ tab[t].banner
      /\ UNCHANGED <<policy, asked, cached>>
  BY DEF ClickReject
<1>2. /\ tab' \in [Tabs -> Page]
      /\ \A s \in Tabs : s # t => tab'[s] = tab[s]
      /\ tab'[t].posts = tab[t].posts \cup {"no"} /\ ~tab'[t].runs
      /\ tab'[t].dry = tab[t].dry /\ tab'[t].open = tab[t].open
      /\ tab[t].excused \/ tab[t].posts # {} => tab'[t].excused
  <2>1. Posted(t, "no") \in [Tabs -> Page]
    BY PostedPage DEF Preferences
  <2>2. /\ tab' \in [Tabs -> Page]
        /\ \A s \in Tabs : s # t => tab'[s] = Posted(t, "no")[s]
        /\ tab'[t] = [Posted(t, "no")[t] EXCEPT !.runs = FALSE]
    BY <1>1, <2>1 DEF Page
  <2>. QED  BY <2>2, PostedPage DEF Preferences, Page
<1>3. ConsentTypeOK'
  BY <1>1, <1>2 DEF ConsentInv, ConsentTypeOK
<1>4. \A s \in Tabs : PageInv(tab'[s])
  <2>1. tab'[t].open
    BY <1>1, <1>2 DEF ConsentInv, PageInv
  <2>2. tab'[t].posts = Preferences => tab'[t].excused
    BY <1>2 DEF ConsentInv, PageInv, Preferences
  <2>3. PageInv(tab'[t])
    BY <1>2, <2>1, <2>2 DEF PageInv
  <2>. QED  BY <1>2, <2>3 DEF ConsentInv
<1>5. RunsOnlyAccepted'
  BY <1>1, <1>2 DEF ConsentInv, RunsOnlyAccepted
<1>6. CookieInv'
  <2>1. \A s \in Tabs : tab'[s].open = tab[s].open /\ tab'[s].dry = tab[s].dry
    BY <1>2
  <2>. QED  BY <1>1, <2>1, SameCookies DEF ConsentInv
<1>. QED  BY <1>1, <1>3, <1>4, <1>5, <1>6 DEF ConsentInv, PageInv, CacheInv

-------------------------------------------------------------------------------

\* The answer sets the policy: every other page that runs tags is excused, and this
\* one runs them on "yes" alone unless its answers overlapped.
LEMMA SucceedStep ==
  ASSUME ConsentInv, NEW t \in Tabs, NEW choice \in Preferences, Succeed(t, choice)
  PROVE  ConsentInv'
<1>. DEFINE base == Changed(choice, t)
<1>1. /\ choice \in tab[t].posts /\ policy' = choice
      /\ tab' = [base EXCEPT ![t].posts = @ \ {choice}, ![t].banner = FALSE,
                             ![t].runs = @ \/ choice = "yes", ![t].dry = @ /\ choice = "no"]
      /\ UNCHANGED <<ga, asked, cached>>
  BY DEF Succeed
<1>2. base \in [Tabs -> Page] /\ base[t] = tab[t]
  BY ChangedTypes DEF ConsentInv
<1>3. /\ tab' \in [Tabs -> Page]
      /\ \A s \in Tabs : s # t => tab'[s] = base[s]
      /\ tab'[t].posts = tab[t].posts \ {choice}
      /\ tab'[t].runs = (tab[t].runs \/ choice = "yes")
      /\ tab'[t].dry = (tab[t].dry /\ choice = "no")
      /\ tab'[t].excused = tab[t].excused /\ tab'[t].open = tab[t].open
  <2>. DEFINE page == [tab[t] EXCEPT !.posts = @ \ {choice}, !.banner = FALSE,
                                    !.runs = @ \/ choice = "yes", !.dry = @ /\ choice = "no"]
  <2>1. tab[t] \in Page
    BY DEF ConsentInv, ConsentTypeOK
  <2>2. tab' = [base EXCEPT ![t] = page]
    BY <1>1, <1>2, <2>1 DEF Page
  <2>3. /\ page.posts = tab[t].posts \ {choice}
        /\ page.runs = (tab[t].runs \/ choice = "yes")
        /\ page.dry = (tab[t].dry /\ choice = "no")
        /\ page.excused = tab[t].excused /\ page.open = tab[t].open
    BY <2>1 DEF Page
  <2>4. page \in Page
    <3>1. tab[t].posts \ {choice} \in SUBSET Preferences
      BY <2>1 DEF Page
    <3>2. /\ (tab[t].runs \/ choice = "yes") \in BOOLEAN
          /\ (tab[t].dry /\ choice = "no") \in BOOLEAN
      OBVIOUS
    <3>. QED  BY <2>1, <3>1, <3>2 DEF Page
  <2>. QED  BY <1>2, <2>2, <2>3, <2>4
<1>4. ConsentTypeOK'
  BY <1>1, <1>3 DEF ConsentInv, ConsentTypeOK, Policies
<1>5. \A s \in Tabs : PageInv(tab'[s])
  <2>1. PageInv(tab[t])
    BY DEF ConsentInv
  <2>2. tab'[t].posts # Preferences
    BY <1>1, <1>3
  <2>3. "no" \in tab'[t].posts => choice = "yes" /\ tab[t].posts = Preferences
    <3>1. tab[t].posts \subseteq Preferences
      BY DEF ConsentInv, ConsentTypeOK, Page
    <3>. QED  BY <1>1, <1>3, <3>1 DEF Preferences
  <2>4. tab'[t].open
    BY <1>1, <1>3, <2>1 DEF PageInv
  <2>5. tab'[t].runs => ~tab'[t].dry
    BY <1>3, <2>1 DEF PageInv
  <2>6. "no" \in tab'[t].posts => tab'[t].excused
    BY <1>3, <2>1, <2>3 DEF PageInv
  <2>7. PageInv(tab'[t])
    BY <2>2, <2>4, <2>5, <2>6 DEF PageInv
  <2>8. ASSUME NEW s \in Tabs, s # t PROVE PageInv(tab'[s])
    <3>1. PageInv(tab[s])
      BY DEF ConsentInv
    <3>. QED  BY <1>3, <2>8, <3>1, ChangedTypes DEF ConsentInv, PageInv
  <2>. QED  BY <2>7, <2>8
<1>6. RunsOnlyAccepted'
  <2>1. tab'[t].runs => policy' = "yes" \/ tab'[t].excused
    BY <1>1, <1>3 DEF ConsentInv, PageInv, Preferences
  <2>2. ASSUME NEW s \in Tabs, s # t PROVE tab'[s].runs => tab'[s].excused
    BY <1>3, <2>2, ChangedTypes DEF ConsentInv
  <2>. QED  BY <2>1, <2>2 DEF RunsOnlyAccepted
<1>7. CookieInv'
  <2>1. CASE choice = "yes"
    <3>1. tab'[t].open /\ ~tab'[t].dry
      BY <1>1, <1>3, <2>1 DEF ConsentInv, PageInv
    <3>. QED  BY <3>1 DEF CookieInv, HasThem
  <2>2. CASE choice = "no"
    <3>1. \A s \in Tabs : tab'[s].open = tab[s].open /\ tab'[s].dry = tab[s].dry
      BY <1>2, <1>3, <2>2, ChangedTypes DEF ConsentInv, ConsentTypeOK, Page
    <3>. QED  BY <1>1, <2>2, <3>1, SameCookies DEF ConsentInv
  <2>. QED  BY <2>1, <2>2 DEF Preferences
<1>. QED  BY <1>1, <1>4, <1>5, <1>6, <1>7 DEF ConsentInv, PageInv, CacheInv

\* A form that is posted leaves its page, which then has given nothing away.
LEMMA PostFormStep ==
  ASSUME ConsentInv, NEW t \in Tabs, NEW choice \in Preferences, PostForm(t, choice)
  PROVE  ConsentInv'
<1>. DEFINE base == Changed(policy', t)
<1>1. /\ policy' \in {choice, policy} /\ tab' = [base EXCEPT ![t] = Closed]
      /\ ga' = (IF policy' = "no" THEN FALSE ELSE ga)
      /\ asked' = [asked EXCEPT ![t] = policy'] /\ cached' = cached
  BY DEF PostForm
<1>2. base \in [Tabs -> Page]
  BY ChangedTypes DEF ConsentInv
<1>3. /\ Closed \in Page /\ Closed.posts = {} /\ ~Closed.runs /\ ~Closed.dry /\ ~Closed.banner
  BY PageTypes DEF Closed
<1>4. /\ tab' \in [Tabs -> Page] /\ tab'[t] = Closed
      /\ \A s \in Tabs : s # t => tab'[s] = base[s]
  BY <1>1, <1>2, <1>3
<1>5. policy' \in Policies /\ ga' \in BOOLEAN
  BY <1>1 DEF ConsentInv, ConsentTypeOK, Policies
<1>6. ConsentTypeOK'
  BY <1>1, <1>4, <1>5 DEF ConsentInv, ConsentTypeOK
<1>7. \A s \in Tabs : PageInv(tab'[s])
  <2>1. PageInv(tab'[t])
    BY <1>3, <1>4 DEF PageInv, Preferences
  <2>2. ASSUME NEW s \in Tabs, s # t PROVE PageInv(tab'[s])
    <3>1. PageInv(tab[s])
      BY DEF ConsentInv
    <3>. QED  BY <1>4, <2>2, <3>1, ChangedTypes DEF ConsentInv, PageInv
  <2>. QED  BY <2>1, <2>2
<1>8. RunsOnlyAccepted'
  <2>1. ASSUME NEW s \in Tabs, s # t PROVE tab'[s].runs => tab'[s].excused
    BY <1>4, <2>1, ChangedTypes DEF ConsentInv
  <2>. QED  BY <1>3, <1>4, <2>1 DEF RunsOnlyAccepted
<1>9. CookieInv'
  <2>1. asked'[t] # "none"
    BY <1>1, <1>5 DEF ConsentInv, ConsentTypeOK, Policies, Preferences
  <2>. QED  BY <2>1 DEF CookieInv, HasThem
<1>. QED  BY <1>1, <1>6, <1>7, <1>8, <1>9 DEF ConsentInv, PageInv, CacheInv

LEMMA ExpireStep ==
  ASSUME ConsentInv, Expire
  PROVE  ConsentInv'
<1>1. /\ policy' = "unset" /\ UNCHANGED <<ga, asked, cached>>
      /\ tab' = [t \in Tabs |-> IF tab[t].runs THEN [tab[t] EXCEPT !.excused = TRUE] ELSE tab[t]]
  BY DEF Expire
<1>2. \A s \in Tabs :
         /\ tab'[s] \in Page
         /\ tab'[s].posts = tab[s].posts /\ tab'[s].runs = tab[s].runs
         /\ tab'[s].dry = tab[s].dry
         /\ tab'[s].open = tab[s].open /\ tab'[s].banner = tab[s].banner
         /\ tab[s].excused \/ tab[s].runs => tab'[s].excused
  <2> SUFFICES ASSUME NEW s \in Tabs
               PROVE  /\ tab'[s] \in Page
                      /\ tab'[s].posts = tab[s].posts /\ tab'[s].runs = tab[s].runs
                      /\ tab'[s].dry = tab[s].dry
                      /\ tab'[s].open = tab[s].open /\ tab'[s].banner = tab[s].banner
                      /\ tab[s].excused \/ tab[s].runs => tab'[s].excused
    OBVIOUS
  <2>1. tab[s] \in Page
    BY DEF ConsentInv, ConsentTypeOK
  <2>2. tab'[s] = IF tab[s].runs THEN [tab[s] EXCEPT !.excused = TRUE] ELSE tab[s]
    BY <1>1
  <2>3. CASE tab[s].runs
    <3>1. tab'[s] = [tab[s] EXCEPT !.excused = TRUE]
      BY <2>2, <2>3
    <3>. QED  BY <2>1, <3>1 DEF Page
  <2>4. CASE ~tab[s].runs
    BY <2>1, <2>2, <2>4
  <2>. QED  BY <2>3, <2>4
<1>3. ConsentTypeOK'
  <2>1. tab' \in [Tabs -> Page]
    BY <1>1, <1>2
  <2>. QED  BY <1>1, <2>1 DEF ConsentInv, ConsentTypeOK, Policies
<1>4. \A s \in Tabs : PageInv(tab'[s])
  BY <1>2 DEF ConsentInv, PageInv
<1>5. RunsOnlyAccepted'
  BY <1>2 DEF RunsOnlyAccepted
<1>6. CookieInv'
  <2>1. ga' \/ policy' = "yes" => ga \/ policy = "yes"
    BY <1>1
  <2>. QED  BY <1>1, <1>2, <2>1, SameCookies DEF ConsentInv
<1>. QED  BY <1>1, <1>3, <1>4, <1>5, <1>6 DEF ConsentInv, PageInv, CacheInv

-------------------------------------------------------------------------------

LEMMA ConsentStepInv == ConsentInv /\ [ConsentNext]_consentVars => ConsentInv'
<1> SUFFICES ASSUME ConsentInv, [ConsentNext]_consentVars PROVE ConsentInv'
  OBVIOUS
<1>1. ASSUME NEW t \in Tabs,
             Ask(t) \/ Arrive(t) \/ Restore(t) \/ TagsWrite(t) \/ ClickAccept(t) \/ ClickReject(t)
      PROVE  ConsentInv'
  BY <1>1, AskStep, ArriveStep, RestoreStep, TagsWriteStep, ClickAcceptStep, ClickRejectStep
<1>2. ASSUME NEW t \in Tabs, NEW choice \in Preferences,
             Succeed(t, choice) \/ SaveSettings(t, choice) \/ FallBack(t, choice)
      PROVE  ConsentInv'
  BY <1>2, SucceedStep, PostFormStep DEF SaveSettings, FallBack
<1>3. CASE Expire
  BY <1>3, ExpireStep
<1>4. CASE UNCHANGED consentVars
  BY <1>4 DEF consentVars, ConsentInv, ConsentTypeOK, PageInv, CacheInv, RunsOnlyAccepted,
              CookieInv, HasThem
<1>. QED  BY <1>1, <1>2, <1>3, <1>4 DEF ConsentNext

\* Every reachable state satisfies the invariant the other theorems rest on.
THEOREM ConsentInvariance == ConsentSpec => []ConsentInv
BY ConsentInitInv, ConsentStepInv, PTL DEF ConsentSpec

\* The consent, the pages and the requests keep their types.
THEOREM ConsentTypes == ConsentSpec => []ConsentTypeOK
<1>1. ConsentInv => ConsentTypeOK
  BY DEF ConsentInv
<1>. QED  BY <1>1, ConsentInvariance, PTL

\* In any number of tabs the tags run only while analytics is accepted, but for a page
\* whose policy was changed elsewhere or whose own answers overlapped.
THEOREM TagsNeedConsent == ConsentSpec => []RunsOnlyAccepted
<1>1. ConsentInv => RunsOnlyAccepted
  BY DEF ConsentInv
<1>. QED  BY <1>1, ConsentInvariance, PTL

\* In any number of tabs, while the service is open in the browser, Google's cookies are
\* left without consent only while some page that came under it, or ran the tags, can still
\* take them away, or a page is on its way that will.
THEOREM CookiesEnd == ConsentSpec => []CookiesGoWithTheTags
<1>1. ConsentInv => CookiesGoWithTheTags
  BY DEF ConsentInv, CookieInv, CookiesGoWithTheTags
<1>. QED  BY <1>1, ConsentInvariance, PTL

-------------------------------------------------------------------------------
(* The obligations home page.                                                *)

\* The page is a page, and a card that is drawn is that of what was read, on the
\* month it was drawn.
HomeInv ==
    /\ month \in Months
    /\ declared \in Seq(Declarations) /\ Len(declared) <= MaxDeclared
    /\ home \in [phase : {"away", "obligations", "declarations", "handler", "drawn"},
                 obligations : Lists \cup {<<>>}, declarations : Seq(Declarations),
                 tile : Tiles, button : BOOLEAN, month : Months \cup {1}]
    /\ home.phase = "drawn" =>
          home.month \in Months /\ home.tile = Tile(home.obligations, home.declarations, home.month)

LEMMA HomeInitInv == HomeInit => HomeInv
<1>. SUFFICES ASSUME HomeInit PROVE HomeInv
  OBVIOUS
<1>1. <<>> \in Seq(Declarations) /\ Len(<<>>) = 0
  OBVIOUS
<1>. QED  BY <1>1, HomeAssumption DEF HomeInit, HomeInv, NoHome, Tiles, NoTile

\* A declaration put in front, or decided on, leaves a list of declarations.
LEMMA DeclarationsTyping ==
  ASSUME HomeInv, Declare \/ RegulatorDecides
  PROVE  declared' \in Seq(Declarations) /\ Len(declared') <= MaxDeclared
<1>. USE DEF HomeInv
<1>1. CASE Declare
  <2>1. PICK year \in {Year - 1, Year} :
           declared' = <<[year |-> year, status |-> "Submitted"]>> \o declared
    BY <1>1 DEF Declare
  <2>2. <<[year |-> year, status |-> "Submitted"]>> \in Seq(Declarations)
    BY DEF Declarations, Statuses
  <2>. QED  BY <1>1, <2>1, <2>2, HomeAssumption DEF Declare
<1>2. CASE RegulatorDecides
  <2>1. PICK i \in DOMAIN declared, s \in {"Accepted", "Cancelled"} :
           declared' = [declared EXCEPT ![i].status = s]
    BY <1>2 DEF RegulatorDecides
  <2>2. declared[i] \in Declarations
    BY <2>1, ElementOfSeq
  <2>3. [declared[i] EXCEPT !.status = s] \in Declarations
    BY <2>2 DEF Declarations, Statuses
  <2>4. declared' = [declared EXCEPT ![i] = [declared[i] EXCEPT !.status = s]]
    BY <2>1
  <2>. QED  BY <2>1, <2>3, <2>4
<1>. QED  BY <1>1, <1>2

LEMMA TileTyping ==
  ASSUME NEW list, NEW ds, NEW m
  PROVE  Tile(list, ds, m) \in Tiles
BY DEF Tile, Tiles, NoTile

LEMMA HomeStepInv == HomeInv /\ [HomeNext]_homeVars => HomeInv'
<1>. SUFFICES ASSUME HomeInv, [HomeNext]_homeVars PROVE HomeInv'
  OBVIOUS
<1>. USE DEF HomeInv
<1>1. CASE OpenHome
  BY <1>1, EmptySeq DEF OpenHome, NoHome, Tiles, NoTile
<1>2. CASE ReadObligationsOf
  BY <1>2 DEF ReadObligationsOf
<1>3. CASE ReadDeclarationsOf
  BY <1>3 DEF ReadDeclarationsOf
<1>4. CASE HomeFails
  BY <1>4, EmptySeq DEF HomeFails, NoHome, Tiles, NoTile
<1>5. CASE DrawHome
  <2>1. PICK approved \in BOOLEAN :
           home' = [home EXCEPT !.phase = "drawn",
                                !.tile = Tile(home.obligations, home.declarations, month),
                                !.month = month,
                                !.button = approved /\ Invites(Tile(home.obligations, home.declarations, month))]
    BY <1>5 DEF DrawHome
  <2>2. Tile(home.obligations, home.declarations, month) \in Tiles
    BY TileTyping
  <2>. DEFINE button == approved /\ Invites(Tile(home.obligations, home.declarations, month))
  <2>3. button \in BOOLEAN
    OBVIOUS
  <2>. HIDE DEF button
  <2>. QED  BY <1>5, <2>1, <2>2, <2>3 DEF DrawHome
<1>6. CASE Declare \/ RegulatorDecides
  BY <1>6, DeclarationsTyping DEF Declare, RegulatorDecides
<1>7. CASE MonthPasses
  BY <1>7 DEF MonthPasses
<1>8. CASE UNCHANGED homeVars
  BY <1>8 DEF homeVars
<1>. QED  BY <1>1, <1>2, <1>3, <1>4, <1>5, <1>6, <1>7, <1>8 DEF HomeNext

\* The page and its declarations keep their types.
THEOREM HomeTyping == HomeSpec => []HomeTypeOK
<1>1. HomeInv => HomeTypeOK
  BY DEF HomeInv, HomeTypeOK
<1>. QED  BY <1>1, HomeInitInv, HomeStepInv, PTL DEF HomeSpec

\* The two deadlines are one: 31 January after the year is when its compliance year ends.
LEMMA DeadlineEndsTheYear ==
  ASSUME NEW m \in Nat \ {0}
  PROVE  AfterDeadline(Year + 1, m) <=> ComplianceYearOf(m) > Year
BY HomeAssumption, SMT DEF AfterDeadline, ComplianceYearOf, CalendarYear, CalendarMonth

\* In any year, with any figures and any declarations made or regulated while the page
\* is read: the card invites to submit only while notes can be accepted into the year
\* and nothing stands, and calls the deadline missed only when they cannot.
THEOREM TilesKeepDeadline == HomeSpec => []TilesKeepTheDeadline
<1>1. ASSUME HomeInv PROVE TilesKeepTheDeadline
  <2>. SUFFICES ASSUME home.phase = "drawn"
       PROVE  /\ Invites(home.tile) => /\ ComplianceYearOf(home.month) <= Year
                                       /\ ~SubmittedFor(home.declarations, Year)
              /\ home.tile \in {"missed", "cancelledMissed"} => ComplianceYearOf(home.month) > Year
    BY DEF TilesKeepTheDeadline
  <2>1. home.month \in Nat \ {0}
    BY <1>1, HomeAssumption DEF HomeInv
  <2>2. AfterDeadline(Year + 1, home.month) <=> ComplianceYearOf(home.month) > Year
    BY <2>1, DeadlineEndsTheYear
  <2>3. ComplianceYearOf(home.month) \in Int /\ Year \in Int
    BY <2>1, HomeAssumption DEF ComplianceYearOf, CalendarYear, CalendarMonth
  <2>4. home.tile = Tile(home.obligations, home.declarations, home.month)
    BY <1>1 DEF HomeInv
  <2>5. Invites(home.tile) => /\ ~AfterDeadline(Year + 1, home.month)
                              /\ ~SubmittedFor(home.declarations, Year)
    BY <2>4 DEF Tile, Invites, HasSubmittedCard, NoTile
  <2>6. home.tile \in {"missed", "cancelledMissed"} => AfterDeadline(Year + 1, home.month)
    BY <2>4 DEF Tile, NoTile
  <2>. QED  BY <2>2, <2>3, <2>5, <2>6
<1>. QED  BY <1>1, HomeInitInv, HomeStepInv, PTL DEF HomeSpec

-------------------------------------------------------------------------------
(* Sums over finite sets.  The library's sum is a function that is defined   *)
(* by itself: that there is one, and that the order of the elements does not *)
(* matter, is proved by taking the least size for which it would fail.       *)

First(s) == CHOOSE x \in s : TRUE

\* What the library's sum of f over S is computed with.
SumsTo(f, S, sums) ==
    sums = [s \in SUBSET S |-> IF s = {} THEN 0 ELSE f[First(s)] + sums[s \ {First(s)}]]

Sums(f, S) == CHOOSE sums : SumsTo(f, S, sums)

Sum(f, S) == Sums(f, S)[S]

\* A set of numbers with 0 and with the successor of each holds every number.
LEMMA EverySize ==
  ASSUME NEW P \in SUBSET Nat, 0 \in P, \A n \in P : n + 1 \in P
  PROVE  P = Nat
<1>1. ASSUME NEW k \in Nat \ P PROVE FALSE
  <2>1. PICK n \in Nat \ P : \A i \in Nat \ P : ~(<<i, n>> \in OpToRel(<, Nat))
    <3>. DEFINE rest == Nat \ P
    <3>1. rest \subseteq Nat /\ rest # {}
      BY <1>1
    <3>. HIDE DEF rest
    <3>2. \E n \in rest : \A i \in rest : ~(<<i, n>> \in OpToRel(<, Nat))
      BY <3>1, WFMin, NatLessThanWellFounded
    <3>. QED  BY <3>2 DEF rest
  <2>2. n # 0 /\ n \in Nat
    OBVIOUS
  <2>3. n - 1 \in Nat /\ n - 1 < n /\ (n - 1) + 1 = n
    BY <2>2
  <2>4. n - 1 \notin P
    BY <2>3
  <2>5. <<n - 1, n>> \in OpToRel(<, Nat)
    BY <2>2, <2>3 DEF OpToRel
  <2>. QED  BY <2>1, <2>3, <2>4, <2>5
<1>. QED  BY <1>1

LEMMA FirstOf ==
  ASSUME NEW s, IsFiniteSet(s), s # {}
  PROVE  /\ First(s) \in s /\ IsFiniteSet(s \ {First(s)})
         /\ Cardinality(s) \in Nat /\ Cardinality(s \ {First(s)}) = Cardinality(s) - 1
         /\ Cardinality(s) > 0
<1>1. First(s) \in s
  BY DEF First
<1>2. Cardinality(s) \in Nat /\ Cardinality(s) # 0
  BY FS_CardinalityType, FS_EmptySet
<1>. QED  BY <1>1, <1>2, FS_RemoveElement

LEMMA SumsExist ==
  ASSUME NEW S, IsFiniteSet(S), NEW f, \A x \in S : f[x] \in Int
  PROVE  \E sums \in [SUBSET S -> Int] : SumsTo(f, S, sums)
<1>. DEFINE Small(n) == {s \in SUBSET S : Cardinality(s) <= n}
            Body(sums, s) == IF s = {} THEN 0 ELSE f[First(s)] + sums[s \ {First(s)}]
            P == {n \in Nat : \E sums \in [Small(n) -> Int] :
                                 \A s \in Small(n) : sums[s] = Body(sums, s)}
<1>0. \A s \in SUBSET S : IsFiniteSet(s) /\ Cardinality(s) \in Nat
  BY FS_Subset, FS_CardinalityType
<1>1. 0 \in P
  <2>. DEFINE none == [s \in Small(0) |-> 0]
  <2>1. \A s \in Small(0) : s = {}
    <3>. SUFFICES ASSUME NEW s \in SUBSET S, Cardinality(s) <= 0 PROVE s = {}
      OBVIOUS
    <3>. QED  BY <1>0, FS_EmptySet
  <2>2. none \in [Small(0) -> Int] /\ \A s \in Small(0) : none[s] = 0
    OBVIOUS
  <2>3. \A s \in Small(0) : none[s] = Body(none, s)
    BY <2>1, <2>2
  <2>. HIDE DEF none
  <2>. QED  BY <2>2, <2>3
<1>2. ASSUME NEW n \in P PROVE n + 1 \in P
  <2>. HIDE DEF Body
  <2>1. PICK old \in [Small(n) -> Int] : \A s \in Small(n) : old[s] = Body(old, s)
    OBVIOUS
  <2>. DEFINE new == [s \in Small(n + 1) |-> Body(old, s)]
  <2>2. n \in Nat /\ n + 1 \in Nat
    OBVIOUS
  <2>3. ASSUME NEW s \in Small(n + 1), s # {}
        PROVE  s \ {First(s)} \in Small(n) /\ f[First(s)] \in Int
    <3>1. First(s) \in s /\ Cardinality(s \ {First(s)}) = Cardinality(s) - 1 /\ Cardinality(s) \in Nat
      BY <1>0, <2>3, FirstOf
    <3>2. Cardinality(s) <= n + 1
      OBVIOUS
    <3>3. Cardinality(s \ {First(s)}) <= n
      BY <2>2, <3>1, <3>2
    <3>. QED  BY <3>1, <3>3
  <2>4. \A s \in Small(n) : s \in Small(n + 1)
    BY <1>0, <2>2
  <2>5. \A s \in Small(n + 1) : Body(old, s) \in Int
    BY <2>1, <2>3 DEF Body
  <2>6. new \in [Small(n + 1) -> Int] /\ \A s \in Small(n + 1) : new[s] = Body(old, s)
    BY <2>5
  <2>. HIDE DEF new
  <2>7. \A s \in Small(n) : new[s] = old[s]
    BY <2>1, <2>4, <2>6
  <2>8. \A s \in Small(n + 1) : Body(new, s) = Body(old, s)
    BY <2>3, <2>7 DEF Body
  <2>. QED  BY <2>2, <2>6, <2>8
<1>3. Cardinality(S) \in P
  <2>1. P \in SUBSET Nat
    OBVIOUS
  <2>. HIDE DEF P
  <2>2. P = Nat
    BY <1>1, <1>2, <2>1, EverySize
  <2>. QED  BY <2>2, FS_CardinalityType
<1>4. Small(Cardinality(S)) = SUBSET S
  BY FS_Subset
<1>. HIDE DEF Small, Body
<1>5. PICK sums \in [SUBSET S -> Int] : \A s \in SUBSET S : sums[s] = Body(sums, s)
  BY <1>3, <1>4
<1>6. sums = [s \in SUBSET S |-> Body(sums, s)]
  BY <1>5
<1>. QED  BY <1>5, <1>6 DEF SumsTo, Body

LEMMA SumsAre ==
  ASSUME NEW S, IsFiniteSet(S), NEW f, \A x \in S : f[x] \in Int
  PROVE  /\ Sums(f, S)[{}] = 0
         /\ \A s \in SUBSET S : s # {} => Sums(f, S)[s] = f[First(s)] + Sums(f, S)[s \ {First(s)}]
<1>1. SumsTo(f, S, Sums(f, S))
  BY SumsExist DEF Sums
<1>. DEFINE g == Sums(f, S)
<1>. HIDE DEF g
<1>2. g = [s \in SUBSET S |-> IF s = {} THEN 0 ELSE f[First(s)] + g[s \ {First(s)}]]
  BY <1>1 DEF SumsTo, g
<1>3. \A s \in SUBSET S : g[s] = IF s = {} THEN 0 ELSE f[First(s)] + g[s \ {First(s)}]
  BY <1>2
<1>4. {} \in SUBSET S
  OBVIOUS
<1>. QED  BY <1>3, <1>4 DEF g

\* Two functions that agree on a set have one sum of each of its subsets.
LEMMA SameSums ==
  ASSUME NEW S, NEW T, IsFiniteSet(S), IsFiniteSet(T), NEW f, NEW g,
         \A x \in S : f[x] \in Int, \A x \in T : g[x] \in Int,
         NEW U \in SUBSET (S \cap T), \A x \in U : f[x] = g[x]
  PROVE  Sums(f, S)[U] = Sums(g, T)[U]
<1>. DEFINE P == {n \in Nat : \A s \in SUBSET U : Cardinality(s) = n => Sums(f, S)[s] = Sums(g, T)[s]}
<1>0. \A s \in SUBSET U : IsFiniteSet(s) /\ Cardinality(s) \in Nat /\ s \in SUBSET S /\ s \in SUBSET T
  BY FS_Subset, FS_CardinalityType
<1>1. 0 \in P
  <2>. SUFFICES ASSUME NEW s \in SUBSET U, Cardinality(s) = 0 PROVE Sums(f, S)[s] = Sums(g, T)[s]
    OBVIOUS
  <2>1. s = {}
    BY <1>0, FS_EmptySet
  <2>. QED  BY <2>1, SumsAre
<1>2. ASSUME NEW n \in P PROVE n + 1 \in P
  <2>. SUFFICES ASSUME NEW s \in SUBSET U, Cardinality(s) = n + 1
                PROVE  Sums(f, S)[s] = Sums(g, T)[s]
    OBVIOUS
  <2>1. n \in Nat /\ IsFiniteSet(s)
    BY <1>0
  <2>2. s # {}
    BY <2>1, FS_EmptySet
  <2>3. First(s) \in s /\ Cardinality(s \ {First(s)}) = Cardinality(s) - 1
    BY <2>1, <2>2, FirstOf
  <2>4. s \ {First(s)} \in SUBSET U /\ Cardinality(s \ {First(s)}) = n
    BY <2>1, <2>3
  <2>5. Sums(f, S)[s \ {First(s)}] = Sums(g, T)[s \ {First(s)}]
    BY <2>4
  <2>6. s \in SUBSET S /\ s \in SUBSET T
    BY <1>0
  <2>7. Sums(f, S)[s] = f[First(s)] + Sums(f, S)[s \ {First(s)}]
    BY <2>2, <2>6, SumsAre
  <2>8. Sums(g, T)[s] = g[First(s)] + Sums(g, T)[s \ {First(s)}]
    BY <2>2, <2>6, SumsAre
  <2>9. f[First(s)] = g[First(s)]
    BY <2>3
  <2>. QED  BY <2>5, <2>7, <2>8, <2>9
<1>3. P \in SUBSET Nat
  OBVIOUS
<1>4. Cardinality(U) \in P
  <2>. HIDE DEF P
  <2>1. P = Nat
    BY <1>1, <1>2, <1>3, EverySize
  <2>. QED  BY <1>0, <2>1
<1>. QED  BY <1>4

LEMMA SameSum ==
  ASSUME NEW S, IsFiniteSet(S), NEW f, NEW g, \A x \in S : f[x] \in Int /\ g[x] = f[x]
  PROVE  Sum(f, S) = Sum(g, S)
BY SameSums DEF Sum

LEMMA SumOfNothing ==
  ASSUME NEW f
  PROVE  Sum(f, {}) = 0
BY SumsAre, FS_EmptySet DEF Sum

\* The element the library's sum starts with.
LEMMA SumStart ==
  ASSUME NEW S, IsFiniteSet(S), S # {}, NEW f, \A x \in S : f[x] \in Int
  PROVE  Sum(f, S) = f[First(S)] + Sum(f, S \ {First(S)})
<1>1. First(S) \in S /\ IsFiniteSet(S \ {First(S)})
  BY FirstOf
<1>2. Sums(f, S)[S] = f[First(S)] + Sums(f, S)[S \ {First(S)}]
  BY SumsAre
<1>. DEFINE R == S \ {First(S)}
<1>3. R \in SUBSET (S \cap R) /\ IsFiniteSet(R) /\ \A x \in R : f[x] \in Int
  BY <1>1
<1>. HIDE DEF R
<1>4. Sums(f, S)[R] = Sums(f, R)[R]
  BY <1>3, SameSums
<1>. QED  BY <1>2, <1>4 DEF Sum, R

LEMMA SumIsInt ==
  ASSUME NEW S, IsFiniteSet(S), NEW f, \A x \in S : f[x] \in Int
  PROVE  Sum(f, S) \in Int
<1>1. PICK sums \in [SUBSET S -> Int] : SumsTo(f, S, sums)
  BY SumsExist
<1>2. SumsTo(f, S, Sums(f, S))
  BY <1>1 DEF Sums
<1>. DEFINE P == {n \in Nat : \A s \in SUBSET S : Cardinality(s) = n => Sums(f, S)[s] \in Int}
<1>0. \A s \in SUBSET S : IsFiniteSet(s) /\ Cardinality(s) \in Nat
  BY FS_Subset, FS_CardinalityType
<1>3. 0 \in P
  <2>. SUFFICES ASSUME NEW s \in SUBSET S, Cardinality(s) = 0 PROVE Sums(f, S)[s] \in Int
    OBVIOUS
  <2>1. s = {}
    BY <1>0, FS_EmptySet
  <2>. QED  BY <2>1, SumsAre
<1>4. ASSUME NEW n \in P PROVE n + 1 \in P
  <2>. SUFFICES ASSUME NEW s \in SUBSET S, Cardinality(s) = n + 1 PROVE Sums(f, S)[s] \in Int
    OBVIOUS
  <2>1. n \in Nat /\ IsFiniteSet(s)
    BY <1>0
  <2>2. s # {}
    BY <2>1, FS_EmptySet
  <2>3. First(s) \in s /\ Cardinality(s \ {First(s)}) = Cardinality(s) - 1
    BY <2>1, <2>2, FirstOf
  <2>4. s \ {First(s)} \in SUBSET S /\ Cardinality(s \ {First(s)}) = n
    BY <2>1, <2>3
  <2>5. Sums(f, S)[s \ {First(s)}] \in Int /\ f[First(s)] \in Int
    BY <2>3, <2>4
  <2>6. Sums(f, S)[s] = f[First(s)] + Sums(f, S)[s \ {First(s)}]
    BY <2>2, SumsAre
  <2>. QED  BY <2>5, <2>6
<1>5. P \in SUBSET Nat
  OBVIOUS
<1>6. Cardinality(S) \in P
  <2>. HIDE DEF P
  <2>1. P = Nat
    BY <1>3, <1>4, <1>5, EverySize
  <2>. QED  BY <1>0, <2>1
<1>. QED  BY <1>6 DEF Sum

\* Any element may be counted first.
LEMMA SumTakes ==
  ASSUME NEW S, IsFiniteSet(S), NEW f, \A x \in S : f[x] \in Int, NEW e \in S
  PROVE  Sum(f, S) = f[e] + Sum(f, S \ {e})
<1>. DEFINE P == {n \in Nat : \A s \in SUBSET S : Cardinality(s) = n =>
                                 \A x \in s : Sum(f, s) = f[x] + Sum(f, s \ {x})}
<1>0. \A s \in SUBSET S : IsFiniteSet(s) /\ Cardinality(s) \in Nat /\ Sum(f, s) \in Int
  <2>. SUFFICES ASSUME NEW s \in SUBSET S
                PROVE  IsFiniteSet(s) /\ Cardinality(s) \in Nat /\ Sum(f, s) \in Int
    OBVIOUS
  <2>1. IsFiniteSet(s) /\ \A x \in s : f[x] \in Int
    BY FS_Subset
  <2>. QED  BY <2>1, FS_CardinalityType, SumIsInt
<1>1. 0 \in P
  <2>. SUFFICES ASSUME NEW s \in SUBSET S, Cardinality(s) = 0, NEW x \in s PROVE FALSE
    OBVIOUS
  <2>. QED  BY <1>0, FS_EmptySet
<1>2. ASSUME NEW n \in P PROVE n + 1 \in P
  <2>. SUFFICES ASSUME NEW s \in SUBSET S, Cardinality(s) = n + 1, NEW x \in s
                PROVE  Sum(f, s) = f[x] + Sum(f, s \ {x})
    OBVIOUS
  <2>. DEFINE c == First(s)
  <2>1. n \in Nat /\ IsFiniteSet(s) /\ s # {}
    BY <1>0
  <2>2. c \in s /\ Cardinality(s \ {c}) = n
    <3>1. c \in s /\ Cardinality(s \ {c}) = Cardinality(s) - 1
      BY <2>1, FirstOf
    <3>. QED  BY <2>1, <3>1
  <2>3. Sum(f, s) = f[c] + Sum(f, s \ {c})
    BY <2>1, SumStart
  <2>. HIDE DEF c
  <2>4. CASE x = c
    BY <2>3, <2>4
  <2>5. CASE x # c
    <3>1. s \ {c} \in SUBSET S /\ x \in s \ {c}
      BY <2>5
    <3>2. Sum(f, s \ {c}) = f[x] + Sum(f, (s \ {c}) \ {x})
      BY <2>2, <3>1
    <3>3. s \ {x} \in SUBSET S /\ c \in s \ {x} /\ Cardinality(s \ {x}) = n
      <4>1. Cardinality(s \ {x}) = Cardinality(s) - 1
        BY <2>1, FS_RemoveElement
      <4>. QED  BY <2>1, <2>2, <2>5, <4>1
    <3>4. Sum(f, s \ {x}) = f[c] + Sum(f, (s \ {x}) \ {c})
      BY <3>3
    <3>5. (s \ {x}) \ {c} = (s \ {c}) \ {x} /\ (s \ {x}) \ {c} \in SUBSET S
      OBVIOUS
    <3>6. f[x] \in Int /\ f[c] \in Int /\ Sum(f, (s \ {x}) \ {c}) \in Int
      BY <1>0, <2>2, <3>5
    <3>. DEFINE r == Sum(f, (s \ {c}) \ {x})
                a == f[x]
                b == f[c]
    <3>7. /\ Sum(f, s \ {c}) = a + r /\ Sum(f, s \ {x}) = b + r
          /\ Sum(f, s) = b + Sum(f, s \ {c})
          /\ a \in Int /\ b \in Int /\ r \in Int
      BY <2>3, <3>2, <3>4, <3>5, <3>6
    <3>. HIDE DEF r, a, b
    <3>8. b + (a + r) = a + (b + r)
      BY <3>7
    <3>9. Sum(f, s) = a + Sum(f, s \ {x})
      BY <3>7, <3>8
    <3>. QED  BY <3>9 DEF a
  <2>. QED  BY <2>4, <2>5
<1>3. P \in SUBSET Nat
  OBVIOUS
<1>4. Cardinality(S) \in P
  <2>. HIDE DEF P
  <2>1. P = Nat
    BY <1>1, <1>2, <1>3, EverySize
  <2>. QED  BY <1>0, <2>1
<1>. QED  BY <1>4

\* A sum of naturals is one, and 0 only of zeros: here, of zeros it is 0.
LEMMA SumOfNaturals ==
  ASSUME NEW S, IsFiniteSet(S), NEW f, \A x \in S : f[x] \in Nat
  PROVE  /\ Sum(f, S) \in Nat
         /\ (\A x \in S : f[x] = 0) => Sum(f, S) = 0
<1>. DEFINE P == {n \in Nat : \A s \in SUBSET S : Cardinality(s) = n =>
                     Sum(f, s) \in Nat /\ ((\A x \in S : f[x] = 0) => Sum(f, s) = 0)}
<1>0. \A s \in SUBSET S : IsFiniteSet(s) /\ Cardinality(s) \in Nat /\ \A x \in s : f[x] \in Int
  BY FS_Subset, FS_CardinalityType
<1>1. 0 \in P
  <2>. SUFFICES ASSUME NEW s \in SUBSET S, Cardinality(s) = 0 PROVE Sum(f, s) = 0
    OBVIOUS
  <2>1. s = {}
    BY <1>0, FS_EmptySet
  <2>. QED  BY <2>1, SumOfNothing
<1>2. ASSUME NEW n \in P PROVE n + 1 \in P
  <2>. SUFFICES ASSUME NEW s \in SUBSET S, Cardinality(s) = n + 1
                PROVE  Sum(f, s) \in Nat /\ ((\A x \in S : f[x] = 0) => Sum(f, s) = 0)
    OBVIOUS
  <2>1. n \in Nat /\ IsFiniteSet(s)
    BY <1>0
  <2>2. s # {}
    BY <2>1, FS_EmptySet
  <2>3. First(s) \in s /\ Cardinality(s \ {First(s)}) = Cardinality(s) - 1
    BY <2>1, <2>2, FirstOf
  <2>4. s \ {First(s)} \in SUBSET S /\ Cardinality(s \ {First(s)}) = n
    BY <2>1, <2>3
  <2>5. Sum(f, s) = f[First(s)] + Sum(f, s \ {First(s)})
    BY <1>0, <2>1, <2>2, SumStart
  <2>6. f[First(s)] \in Nat /\ ((\A x \in S : f[x] = 0) => f[First(s)] = 0)
    BY <2>3
  <2>. QED  BY <2>4, <2>5, <2>6
<1>3. P \in SUBSET Nat
  OBVIOUS
<1>4. Cardinality(S) \in P
  <2>. HIDE DEF P
  <2>1. P = Nat
    BY <1>1, <1>2, <1>3, EverySize
  <2>. QED  BY <1>0, <2>1
<1>. QED  BY <1>4

\* What the library's sum is.
LEMMA LibrarySum ==
  ASSUME NEW f, NEW S
  PROVE  MapThenSumSet(LAMBDA x : f[x], S) = Sum(f, S)
BY DEF MapThenSumSet, MapThenFoldSet, Sum, Sums, SumsTo, First

-------------------------------------------------------------------------------
(* The tables                                                                *)

\* What is added up is the library's sum.
LEMMA AddedIs == ASSUME NEW f PROVE Added(f) = Sum(f, DOMAIN f)
BY LibrarySum DEF Added

\* Elements that count for nothing may be left out: the two kinds of glass.
LEMMA WithoutGlass ==
  ASSUME NEW S, IsFiniteSet(S), NEW h, \A x \in S \cup Glassy : h[x] \in Int,
         \A x \in Glassy \ S : h[x] = 0
  PROVE  Sum(h, S) = h["GlassRemelt"] + (h["Glass"] + Sum(h, S \ Glassy))
<1>. DEFINE a == h["GlassRemelt"]
            b == h["Glass"]
            mid == S \ {"GlassRemelt"}
            rest == S \ Glassy
<1>1. /\ IsFiniteSet(mid) /\ IsFiniteSet(rest) /\ rest = mid \ {"Glass"}
      /\ \A x \in mid : h[x] \in Int
      /\ \A x \in rest : h[x] \in Int
      /\ a \in Int /\ b \in Int
      /\ "Glass" \in S <=> "Glass" \in mid
  <2>1. rest = mid \ {"Glass"} /\ rest \subseteq S /\ mid \subseteq S
    BY DEF Glassy
  <2>2. IsFiniteSet(mid) /\ IsFiniteSet(rest)
    BY <2>1, FS_Subset
  <2>3. a \in Int /\ b \in Int
    BY DEF Glassy
  <2>4. "Glass" # "GlassRemelt"
    OBVIOUS
  <2>. HIDE DEF a, b, rest
  <2>5. "Glass" \in S <=> "Glass" \in mid
    BY <2>4
  <2>. QED  BY <2>1, <2>2, <2>3, <2>5
<1>2. Sum(h, S) \in Int /\ Sum(h, mid) \in Int /\ Sum(h, rest) \in Int
  BY <1>1, SumIsInt
<1>3. Sum(h, S) = a + Sum(h, mid)
  <2>1. CASE "GlassRemelt" \in S
    BY <2>1, SumTakes
  <2>2. CASE "GlassRemelt" \notin S
    <3>1. mid = S /\ a = 0
      BY <2>2 DEF Glassy
    <3>. HIDE DEF a, mid
    <3>. QED  BY <1>2, <3>1
  <2>. QED  BY <2>1, <2>2
<1>4. Sum(h, mid) = b + Sum(h, rest)
  <2>1. CASE "Glass" \in S
    <3>. HIDE DEF mid, rest, a, b
    <3>1. Sum(h, mid) = h["Glass"] + Sum(h, mid \ {"Glass"})
      BY <1>1, <2>1, SumTakes
    <3>. QED  BY <1>1, <3>1 DEF b
  <2>2. CASE "Glass" \notin S
    <3>1. b = 0
      BY <2>2 DEF Glassy
    <3>2. rest = mid
      BY <1>1, <2>2
    <3>. HIDE DEF mid, rest, b
    <3>. QED  BY <1>2, <3>1, <3>2
  <2>. QED  BY <2>1, <2>2
<1>. QED  BY <1>3, <1>4

LEMMA GlassIsFinite == IsFiniteSet(Glassy) /\ "GlassAggregate" \notin Glassy
<1>1. IsFiniteSet({}) /\ Glassy = ({} \cup {"GlassRemelt"}) \cup {"Glass"}
  BY FS_EmptySet DEF Glassy
<1>2. IsFiniteSet({} \cup {"GlassRemelt"})
  BY <1>1, FS_AddElement
<1>3. IsFiniteSet(({} \cup {"GlassRemelt"}) \cup {"Glass"})
  BY <1>2, FS_AddElement
<1>. QED  BY <1>1, <1>3 DEF Glassy

\* The row that takes glass's place holds what both kinds come to: the rows add up to
\* what the materials do.
LEMMA OneRowForGlass ==
  ASSUME NEW D, IsFiniteSet(D), "GlassAggregate" \notin D,
         NEW h, \A x \in D \cup Glassy : h[x] \in Int, \A x \in Glassy \ D : h[x] = 0,
         NEW v, v["GlassAggregate"] = Sum(h, Glassy), \A x \in D \ Glassy : v[x] = h[x]
  PROVE  Sum(v, (D \ Glassy) \cup {"GlassAggregate"}) = Sum(h, D)
<1>. DEFINE a == h["GlassRemelt"]
            b == h["Glass"]
            rest == D \ Glassy
            rows == rest \cup {"GlassAggregate"}
            r == Sum(h, rest)
<1>1. /\ IsFiniteSet(rest) /\ IsFiniteSet(rows) /\ rest = rows \ {"GlassAggregate"}
      /\ a \in Int /\ b \in Int
  <2>1. IsFiniteSet(rest)
    BY FS_Subset
  <2>2. IsFiniteSet(rows)
    BY <2>1, FS_AddElement
  <2>. QED  BY <2>1, <2>2 DEF Glassy
<1>2. Sum(h, D) = a + (b + r)
  BY WithoutGlass
<1>3. Sum(h, Glassy) = a + b
  <2>1. Sum(h, Glassy) = a + (b + Sum(h, Glassy \ Glassy))
    BY GlassIsFinite, WithoutGlass
  <2>2. Sum(h, Glassy \ Glassy) = 0
    <3>1. Glassy \ Glassy = {}
      OBVIOUS
    <3>. QED  BY <3>1, SumOfNothing
  <2>. HIDE DEF a, b
  <2>. QED  BY <1>1, <2>1, <2>2
<1>4. r \in Int
  BY <1>1, SumIsInt
<1>5. Sum(v, rest) = r
  BY <1>1, SameSum
<1>6. Sum(v, rows) = v["GlassAggregate"] + Sum(v, rest)
  <2>1. \A x \in rows : v[x] \in Int
    <3>1. v["GlassAggregate"] \in Int
      <4>. HIDE DEF a, b
      <4>. QED  BY <1>1, <1>3
    <3>. QED  BY <3>1
  <2>. HIDE DEF rows, rest
  <2>2. "GlassAggregate" \in rows
    BY DEF rows
  <2>3. Sum(v, rows) = v["GlassAggregate"] + Sum(v, rows \ {"GlassAggregate"})
    BY <1>1, <2>1, <2>2, SumTakes
  <2>. QED  BY <1>1, <2>3
<1>. HIDE DEF a, b, r, rows, rest
<1>7. Sum(v, rows) = (a + b) + r
  BY <1>3, <1>5, <1>6
<1>8. (a + b) + r = a + (b + r)
  BY <1>1, <1>4
<1>. QED  BY <1>2, <1>7, <1>8 DEF rows, rest

\* A sum of dashes counts as the sum of what they count for: nothing.
LEMMA AmountOfSum ==
  ASSUME NEW rows, NEW dashes \in BOOLEAN, IsFiniteSet(DOMAIN rows),
         \A m \in DOMAIN rows : Amount(rows[m].due) \in Nat
  PROVE  /\ Amount(SumOf(rows, dashes).due) = Sum([m \in DOMAIN rows |-> Amount(rows[m].due)], DOMAIN rows)
         /\ Amount(SumOf(rows, dashes).due) \in Nat
<1>. DEFINE f == [m \in DOMAIN rows |-> Amount(rows[m].due)]
            s == Sum(f, DOMAIN rows)
<1>1. s \in Nat /\ ((\A x \in DOMAIN rows : f[x] = 0) => s = 0)
  <2>1. \A x \in DOMAIN rows : f[x] \in Nat
    OBVIOUS
  <2>. HIDE DEF f
  <2>. QED  BY <2>1, SumOfNaturals
<1>2. Added(f) = s
  BY AddedIs
<1>3. SumOf(rows, dashes).due =
        IF dashes /\ \A m \in DOMAIN rows : rows[m].due = Dash THEN Dash ELSE Added(f)
  BY DEF SumOf
<1>4. CASE dashes /\ \A m \in DOMAIN rows : rows[m].due = Dash
  <2>1. \A x \in DOMAIN rows : f[x] = 0
    BY <1>4 DEF Amount
  <2>2. SumOf(rows, dashes).due = Dash
    BY <1>3, <1>4
  <2>3. Amount(Dash) = 0
    BY DEF Amount
  <2>. QED  BY <1>1, <2>1, <2>2, <2>3
<1>5. CASE ~(dashes /\ \A m \in DOMAIN rows : rows[m].due = Dash)
  <2>1. SumOf(rows, dashes).due = s
    BY <1>2, <1>3, <1>5
  <2>. HIDE DEF s
  <2>2. Amount(s) = s
    BY <1>1 DEF Amount, Dash
  <2>. QED  BY <1>1, <2>1, <2>2 DEF s
<1>. QED  BY <1>4, <1>5

Reported == Lists \cup {<<>>}

LEMMA ReportedIs ==
  ASSUME NEW list \in Reported
  PROVE  /\ DOMAIN list \subseteq Named /\ IsFiniteSet(DOMAIN list)
         /\ "GlassAggregate" \notin DOMAIN list /\ "glass" \notin DOMAIN list
         /\ \A m \in DOMAIN list :
               /\ list[m].status \in {"Met", "NotMet", "NoDataYet"}
               /\ list[m].due \in Nat \cup {Dash} /\ list[m].got \in Nat
<1>1. DOMAIN list \subseteq Named /\ \A m \in DOMAIN list : list[m] \in Figures
  <2>1. CASE list \in Lists
    BY <2>1 DEF Lists
  <2>2. CASE list = <<>>
    BY <2>2
  <2>. QED  BY <2>1, <2>2 DEF Reported
<1>2. IsFiniteSet(DOMAIN list)
  BY <1>1, HomeAssumption, FS_Subset
<1>. QED  BY <1>1, <1>2, HomeAssumption

\* A row shows what the API reported, dashes aside.
LEMMA RowOf ==
  ASSUME NEW list \in Reported, NEW m \in DOMAIN list
  PROVE  /\ ToRow(list[m]).status = list[m].status
         /\ ToRow(list[m]).got = list[m].got /\ ToRow(list[m]).got \in Nat
         /\ ToRow(list[m]).due = IF list[m].status = "NoDataYet" THEN Dash ELSE list[m].due
         /\ Amount(ToRow(list[m]).due) \in Nat
<1>1. list[m].due \in Nat \cup {Dash} /\ list[m].got \in Nat
  BY ReportedIs
<1>2. /\ ToRow(list[m]).status = list[m].status
      /\ ToRow(list[m]).got = list[m].got
      /\ ToRow(list[m]).due = IF list[m].status = "NoDataYet" THEN Dash ELSE list[m].due
  BY DEF ToRow
<1>3. ToRow(list[m]).due \in Nat \cup {Dash}
  BY <1>1, <1>2
<1>4. \A d \in Nat \cup {Dash} : Amount(d) \in Nat
  BY DEF Amount, Dash
<1>. QED  BY <1>1, <1>2, <1>3, <1>4

LEMMA GlassRowOf ==
  ASSUME NEW list \in Reported, NEW m \in Glassy
  PROVE  /\ GlassRows(list)[m] = GlassRow(list, m) /\ DOMAIN GlassRows(list) = Glassy
         /\ m \in DOMAIN list => GlassRow(list, m) = ToRow(list[m])
         /\ m \notin DOMAIN list => GlassRow(list, m) = [due |-> 0, got |-> 0, status |-> "Met"]
         /\ GlassRow(list, m).got \in Nat /\ Amount(GlassRow(list, m).due) \in Nat
<1>1. GlassRows(list)[m] = GlassRow(list, m) /\ DOMAIN GlassRows(list) = Glassy
  BY DEF GlassRows
<1>2. /\ m \in DOMAIN list => GlassRow(list, m) = ToRow(list[m])
      /\ m \notin DOMAIN list => GlassRow(list, m) = [due |-> 0, got |-> 0, status |-> "Met"]
  BY DEF GlassRow
<1>3. Amount(0) = 0
  BY DEF Amount, Dash
<1>. QED  BY <1>1, <1>2, <1>3, RowOf

LEMMA MainRowOf ==
  ASSUME NEW list \in Reported, NEW dashes \in BOOLEAN
  PROVE  /\ DOMAIN MainRows(list, dashes) = (DOMAIN list \ Glassy) \cup {"GlassAggregate"}
         /\ MainRows(list, dashes)["GlassAggregate"] = GlassTotals(list, dashes)
         /\ \A m \in DOMAIN list \ Glassy : MainRows(list, dashes)[m] = ToRow(list[m])
<1>1. "GlassAggregate" \notin DOMAIN list
  BY ReportedIs
<1>. QED  BY <1>1 DEF MainRows, GlassTotals

LEMMA MainIsFinite ==
  ASSUME NEW list \in Reported
  PROVE  IsFiniteSet((DOMAIN list \ Glassy) \cup {"GlassAggregate"})
<1>1. IsFiniteSet(DOMAIN list \ Glassy)
  BY ReportedIs, FS_Subset
<1>. QED  BY <1>1, FS_AddElement

\* The totals count what was got of every material once.
LEMMA GotAddsUp ==
  ASSUME NEW list \in Reported, NEW dashes \in BOOLEAN
  PROVE  Totals(list, dashes).got = Added([m \in DOMAIN list |-> list[m].got])
<1>. DEFINE D == DOMAIN list
            main == (D \ Glassy) \cup {"GlassAggregate"}
            h == [m \in D \cup Glassy |-> IF m \in D THEN list[m].got ELSE 0]
            v == [m \in main |-> MainRows(list, dashes)[m].got]
            g == [m \in Glassy |-> GlassRows(list)[m].got]
            all == [m \in D |-> list[m].got]
<1>1. /\ \A x \in D \cup Glassy : h[x] \in Int
      /\ \A x \in Glassy \ D : h[x] = 0
      /\ \A x \in D : h[x] = list[x].got
  BY ReportedIs
<1>2. \A x \in Glassy : g[x] \in Int /\ h[x] = g[x]
  <2>. SUFFICES ASSUME NEW x \in Glassy PROVE g[x] \in Int /\ h[x] = g[x]
    OBVIOUS
  <2>1. g[x] = GlassRow(list, x).got /\ g[x] \in Int
    BY GlassRowOf
  <2>2. CASE x \in D
    BY <1>1, <2>1, <2>2, GlassRowOf, RowOf
  <2>3. CASE x \notin D
    BY <1>1, <2>1, <2>3, GlassRowOf
  <2>. QED  BY <2>1, <2>2, <2>3
<1>3. v["GlassAggregate"] = Sum(h, Glassy)
  <2>1. v["GlassAggregate"] = GlassTotals(list, dashes).got
    BY MainRowOf
  <2>2. DOMAIN GlassRows(list) = Glassy
    BY DEF GlassRows
  <2>3. GlassTotals(list, dashes).got = Added(g)
    BY <2>2 DEF GlassTotals, SumOf
  <2>4. Added(g) = Sum(g, Glassy)
    BY AddedIs
  <2>. HIDE DEF g, h, v
  <2>5. Sum(g, Glassy) = Sum(h, Glassy)
    BY <1>2, GlassIsFinite, SameSum
  <2>. QED  BY <2>1, <2>3, <2>4, <2>5
<1>4. \A x \in D \ Glassy : v[x] = h[x]
  <2>. SUFFICES ASSUME NEW x \in D \ Glassy PROVE v[x] = h[x]
    OBVIOUS
  <2>1. v[x] = ToRow(list[x]).got
    BY MainRowOf
  <2>. QED  BY <1>1, <2>1, RowOf
<1>5. IsFiniteSet(D) /\ "GlassAggregate" \notin D
  BY ReportedIs
<1>6. Totals(list, dashes).got = Sum(v, main)
  <2>1. DOMAIN MainRows(list, dashes) = main
    BY MainRowOf
  <2>2. Totals(list, dashes).got = Added(v)
    BY <2>1 DEF Totals, SumOf
  <2>. QED  BY <2>2, AddedIs
<1>7. Added(all) = Sum(all, D)
  BY AddedIs
<1>8. \A x \in D : h[x] \in Int /\ all[x] = h[x]
  BY <1>1
<1>. HIDE DEF h, v, g, all, D
<1>9. Sum(v, main) = Sum(h, D)
  BY <1>1, <1>3, <1>4, <1>5, OneRowForGlass
<1>10. Sum(h, D) = Sum(all, D)
  BY <1>5, <1>8, SameSum
<1>. QED  BY <1>6, <1>7, <1>9, <1>10 DEF all, D

\* And what is due of it, with dashes and without.
LEMMA DueAddsUp ==
  ASSUME NEW list \in Reported, NEW dashes \in BOOLEAN
  PROVE  Amount(Totals(list, dashes).due) = Added([m \in DOMAIN list |-> Amount(ToRow(list[m]).due)])
<1>. DEFINE D == DOMAIN list
            main == (D \ Glassy) \cup {"GlassAggregate"}
            h == [m \in D \cup Glassy |-> IF m \in D THEN Amount(ToRow(list[m]).due) ELSE 0]
            v == [m \in main |-> Amount(MainRows(list, dashes)[m].due)]
            g == [m \in Glassy |-> Amount(GlassRows(list)[m].due)]
            all == [m \in D |-> Amount(ToRow(list[m]).due)]
<1>1. /\ \A x \in D \cup Glassy : h[x] \in Nat
      /\ \A x \in Glassy \ D : h[x] = 0
      /\ \A x \in D : h[x] = Amount(ToRow(list[x]).due)
  BY RowOf
<1>2. \A x \in Glassy : g[x] \in Nat /\ h[x] = g[x]
  <2>. SUFFICES ASSUME NEW x \in Glassy PROVE g[x] \in Nat /\ h[x] = g[x]
    OBVIOUS
  <2>1. g[x] = Amount(GlassRow(list, x).due) /\ g[x] \in Nat
    BY GlassRowOf
  <2>2. CASE x \in D
    <3>1. GlassRow(list, x) = ToRow(list[x])
      BY <2>2, GlassRowOf
    <3>. QED  BY <1>1, <2>1, <2>2, <3>1
  <2>3. CASE x \notin D
    <3>1. GlassRow(list, x).due = 0
      BY <2>3, GlassRowOf
    <3>2. Amount(0) = 0
      BY DEF Amount, Dash
    <3>. QED  BY <1>1, <2>1, <2>3, <3>1, <3>2
  <2>. QED  BY <2>1, <2>2, <2>3
<1>3. v["GlassAggregate"] = Sum(h, Glassy) /\ v["GlassAggregate"] \in Nat
  <2>1. v["GlassAggregate"] = Amount(GlassTotals(list, dashes).due)
    BY MainRowOf
  <2>2. /\ DOMAIN GlassRows(list) = Glassy
        /\ \A m \in Glassy : Amount(GlassRows(list)[m].due) \in Nat
    BY GlassRowOf DEF GlassRows
  <2>3. /\ Amount(GlassTotals(list, dashes).due) = Sum(g, Glassy)
        /\ Amount(GlassTotals(list, dashes).due) \in Nat
    BY <2>2, GlassIsFinite, AmountOfSum DEF GlassTotals
  <2>. HIDE DEF g, h, v
  <2>4. Sum(g, Glassy) = Sum(h, Glassy)
    BY <1>2, GlassIsFinite, SameSum
  <2>. QED  BY <2>1, <2>3, <2>4
<1>4. \A x \in D \ Glassy : v[x] = h[x] /\ v[x] \in Nat
  <2>. SUFFICES ASSUME NEW x \in D \ Glassy PROVE v[x] = h[x] /\ v[x] \in Nat
    OBVIOUS
  <2>1. v[x] = Amount(ToRow(list[x]).due)
    BY MainRowOf
  <2>. QED  BY <1>1, <2>1, RowOf
<1>5. IsFiniteSet(D) /\ "GlassAggregate" \notin D
  BY ReportedIs
<1>6. Amount(Totals(list, dashes).due) = Sum(v, main)
  <2>1. DOMAIN MainRows(list, dashes) = main /\ IsFiniteSet(main)
    BY MainRowOf, MainIsFinite
  <2>2. \A m \in main : Amount(MainRows(list, dashes)[m].due) \in Nat
    BY <1>3, <1>4
  <2>. QED  BY <2>1, <2>2, AmountOfSum DEF Totals
<1>7. Added(all) = Sum(all, D)
  BY AddedIs
<1>8. \A x \in D : h[x] \in Int /\ all[x] = h[x]
  <2>. SUFFICES ASSUME NEW x \in D PROVE h[x] \in Int /\ all[x] = h[x]
    OBVIOUS
  <2>1. all[x] = Amount(ToRow(list[x]).due)
    OBVIOUS
  <2>. HIDE DEF h, all
  <2>. QED  BY <1>1, <2>1
<1>. HIDE DEF h, v, g, all, D
<1>9. Sum(v, main) = Sum(h, D)
  BY <1>1, <1>3, <1>4, <1>5, OneRowForGlass
<1>10. Sum(h, D) = Sum(all, D)
  BY <1>5, <1>8, SameSum
<1>. QED  BY <1>6, <1>7, <1>9, <1>10 DEF all, D

\* The overall status is that of the materials, whichever row they are in.
LEMMA StatusIs ==
  ASSUME NEW rows
  PROVE  /\ (OverallStatus(rows) = "NotMet") <=> \E m \in DOMAIN rows : rows[m].status = "NotMet"
         /\ (OverallStatus(rows) = "NoDataYet") <=>
               \A m \in DOMAIN rows : rows[m].status \notin {"Met", "NotMet"}
         /\ OverallStatus(rows) \in {"Met", "NotMet", "NoDataYet"}
<1>. DEFINE some(s) == \E m \in DOMAIN rows : rows[m].status = s
<1>1. CASE some("NotMet")
  <2>1. OverallStatus(rows) = "NotMet"
    BY <1>1 DEF OverallStatus
  <2>. QED  BY <1>1, <2>1
<1>2. CASE ~some("NotMet") /\ some("Met")
  <2>1. OverallStatus(rows) = "Met"
    BY <1>2 DEF OverallStatus
  <2>. QED  BY <1>2, <2>1
<1>3. CASE ~some("NotMet") /\ ~some("Met")
  <2>1. OverallStatus(rows) = "NoDataYet"
    BY <1>3 DEF OverallStatus
  <2>. QED  BY <1>3, <2>1
<1>. QED  BY <1>1, <1>2, <1>3

LEMMA StatusOfTotals ==
  ASSUME NEW list \in Reported, NEW dashes \in BOOLEAN
  PROVE  /\ (Totals(list, dashes).status = "NotMet") <=> \E m \in DOMAIN list : list[m].status = "NotMet"
         /\ HasObligationData(list) => Totals(list, dashes).status # "NoDataYet"
         /\ Glassy \subseteq DOMAIN list /\ ~HasObligationData(list)
               => Totals(list, dashes).status = "NoDataYet"
<1>. DEFINE D == DOMAIN list
            main == MainRows(list, dashes)
            glass == GlassRows(list)
            S == {"Met", "NotMet", "NoDataYet"}
<1>1. /\ DOMAIN main = (D \ Glassy) \cup {"GlassAggregate"}
      /\ main["GlassAggregate"].status = OverallStatus(glass)
      /\ \A m \in D \ Glassy : main[m].status = list[m].status
  <2>1. GlassTotals(list, dashes).status = OverallStatus(glass)
    BY DEF GlassTotals, SumOf
  <2>. QED  BY <2>1, MainRowOf, RowOf
<1>2. Totals(list, dashes).status = OverallStatus(main)
  BY DEF Totals, SumOf
<1>3. /\ DOMAIN glass = Glassy
      /\ \A m \in Glassy : glass[m].status = IF m \in D THEN list[m].status ELSE "Met"
  <2>. SUFFICES ASSUME NEW m \in Glassy
                PROVE  glass[m].status = IF m \in D THEN list[m].status ELSE "Met"
    BY DEF GlassRows
  <2>. QED  BY GlassRowOf, RowOf
<1>4. \A m \in D : list[m].status \in S
  BY ReportedIs
<1>5. HasObligationData(list) <=> \E m \in D : list[m].status # "NoDataYet"
  BY DEF HasObligationData
<1>. HIDE DEF main, glass, D
<1>6. OverallStatus(main) = "NotMet" <=> \E m \in DOMAIN main : main[m].status = "NotMet"
  BY StatusIs
<1>7. OverallStatus(main) = "NoDataYet" <=> \A m \in DOMAIN main : main[m].status \notin {"Met", "NotMet"}
  BY StatusIs
<1>8. OverallStatus(glass) = "NotMet" <=> \E m \in Glassy : glass[m].status = "NotMet"
  BY <1>3, StatusIs
<1>9. /\ OverallStatus(glass) = "NoDataYet" <=> \A m \in Glassy : glass[m].status \notin {"Met", "NotMet"}
      /\ OverallStatus(glass) \in S
  BY <1>3, StatusIs
<1>10. OverallStatus(main) = "NotMet" <=> \E m \in D : list[m].status = "NotMet"
  <2>1. ASSUME NEW m \in D, list[m].status = "NotMet" PROVE \E n \in DOMAIN main : main[n].status = "NotMet"
    <3>1. CASE m \in Glassy
      BY <1>1, <1>3, <1>8, <2>1, <3>1
    <3>2. CASE m \notin Glassy
      BY <1>1, <2>1, <3>2
    <3>. QED  BY <3>1, <3>2
  <2>2. ASSUME NEW n \in DOMAIN main, main[n].status = "NotMet" PROVE \E m \in D : list[m].status = "NotMet"
    <3>1. CASE n = "GlassAggregate"
      BY <1>1, <1>3, <1>8, <2>2, <3>1
    <3>2. CASE n \in D \ Glassy
      BY <1>1, <2>2, <3>2
    <3>. QED  BY <1>1, <3>1, <3>2
  <2>. QED  BY <1>6, <2>1, <2>2
<1>11. ASSUME NEW m \in D, list[m].status # "NoDataYet"
       PROVE  OverallStatus(main) # "NoDataYet"
  <2>1. list[m].status \in {"Met", "NotMet"}
    BY <1>4, <1>11
  <2>2. CASE m \in Glassy
    <3>1. OverallStatus(glass) \in {"Met", "NotMet"}
      BY <1>3, <1>9, <2>1, <2>2
    <3>. QED  BY <1>1, <1>7, <3>1
  <2>3. CASE m \notin Glassy
    BY <1>1, <1>7, <2>1, <2>3
  <2>. QED  BY <2>2, <2>3
<1>12. ASSUME Glassy \subseteq D, \A m \in D : list[m].status = "NoDataYet"
       PROVE  OverallStatus(main) = "NoDataYet"
  <2>1. OverallStatus(glass) = "NoDataYet"
    BY <1>3, <1>9, <1>12
  <2>. QED  BY <1>1, <1>7, <1>12, <2>1
<1>. QED  BY <1>2, <1>5, <1>10, <1>11, <1>12 DEF D

\* A material's page adds up to its row.
LEMMA CalculationIsTheRow ==
  ASSUME NEW list \in Reported, NEW m \in DOMAIN list \ Glassy,
         Calculation(list, m) # Dash, list[m].status # "NoDataYet"
  PROVE  Calculation(list, m) = Amount(HomeTables(list).main[m].due)
<1>1. m # "glass"
  BY ReportedIs
<1>2. HomeTables(list).main[m] = ToRow(list[m])
  BY MainRowOf DEF HomeTables
<1>3. ToRow(list[m]).due = list[m].due
  BY RowOf
<1>4. Calculation(list, m) = Amount(list[m].due)
  BY <1>1 DEF Calculation
<1>. QED  BY <1>2, <1>3, <1>4

LEMMA GlassCalculationIsTheSum ==
  ASSUME NEW list \in Reported, Calculation(list, "glass") # Dash,
         \A m \in Glassy \cap DOMAIN list : list[m].status # "NoDataYet"
  PROVE  Calculation(list, "glass") = Amount(GlassTotals(list, TRUE).due)
<1>. DEFINE raw(m) == IF m \in DOMAIN list THEN Amount(list[m].due) ELSE 0
            f == [m \in Glassy |-> Amount(GlassRows(list)[m].due)]
            a == f["GlassRemelt"]
            b == f["Glass"]
<1>1. Calculation(list, "glass") = raw("GlassRemelt") + raw("Glass")
  BY DEF Calculation
<1>2. ASSUME NEW m \in Glassy PROVE f[m] = raw(m) /\ f[m] \in Nat
  <2>1. f[m] = Amount(GlassRow(list, m).due) /\ f[m] \in Nat
    BY GlassRowOf
  <2>2. CASE m \in DOMAIN list
    <3>1. GlassRow(list, m).due = list[m].due
      BY <2>2, GlassRowOf, RowOf
    <3>. QED  BY <2>1, <2>2, <3>1
  <2>3. CASE m \notin DOMAIN list
    <3>1. GlassRow(list, m).due = 0 /\ Amount(0) = 0
      BY <2>3, GlassRowOf DEF Amount, Dash
    <3>. QED  BY <2>1, <2>3, <3>1
  <2>. QED  BY <2>2, <2>3
<1>3. Amount(GlassTotals(list, TRUE).due) = Sum(f, Glassy)
  <2>1. /\ DOMAIN GlassRows(list) = Glassy
        /\ \A m \in Glassy : Amount(GlassRows(list)[m].due) \in Nat
    BY GlassRowOf DEF GlassRows
  <2>. QED  BY <2>1, GlassIsFinite, AmountOfSum DEF GlassTotals
<1>4. a = raw("GlassRemelt") /\ b = raw("Glass") /\ a \in Nat /\ b \in Nat
  BY <1>2 DEF Glassy
<1>5. \A x \in Glassy : f[x] \in Int
  BY <1>2
<1>. HIDE DEF f, raw
<1>6. Sum(f, Glassy) = f["GlassRemelt"] + (f["Glass"] + Sum(f, Glassy \ Glassy))
  BY <1>5, GlassIsFinite, WithoutGlass
<1>7. Sum(f, Glassy \ Glassy) = 0
  <2>1. Glassy \ Glassy = {}
    OBVIOUS
  <2>. QED  BY <2>1, SumOfNothing
<1>8. Sum(f, Glassy) = f["GlassRemelt"] + f["Glass"]
  BY <1>4, <1>6, <1>7
<1>. QED  BY <1>1, <1>3, <1>4, <1>8

\* For any figures of any materials: the totals, the overall status, the glass row and
\* what a material's page explains agree with one another and with what the API reported.
THEOREM TotalsAddUp == HomeSpec => []TablesAddUp
<1>1. ASSUME HomeInv PROVE TablesAddUp
  <2>. DEFINE list == home.obligations
              met(s) == \E m \in DOMAIN list : list[m].status = s
  <2>. SUFFICES ASSUME home.phase = "drawn" PROVE TablesAddUp
    BY DEF TablesAddUp
  <2>1. list \in Reported
    BY <1>1 DEF HomeInv, Reported
  <2>2. home.tile # NoTile => HasObligationData(list)
    BY <1>1 DEF HomeInv, Tile
  <2>. HIDE DEF list
  <2>3. ASSUME NEW dashes \in BOOLEAN
        PROVE  LET t == Totals(list, dashes)
               IN /\ t.got = Added([m \in DOMAIN list |-> list[m].got])
                  /\ Amount(t.due) = Added([m \in DOMAIN list |-> Amount(ToRow(list[m]).due)])
                  /\ (t.status = "NotMet") = met("NotMet")
                  /\ Glassy \subseteq DOMAIN list =>
                        (t.status = "NoDataYet") = ~HasObligationData(list)
                  /\ home.tile # NoTile => t.status # "NoDataYet"
    <3>1. /\ Totals(list, dashes).got = Added([m \in DOMAIN list |-> list[m].got])
          /\ Amount(Totals(list, dashes).due) = Added([m \in DOMAIN list |-> Amount(ToRow(list[m]).due)])
      BY <2>1, GotAddsUp, DueAddsUp
    <3>2. /\ (Totals(list, dashes).status = "NotMet") = met("NotMet")
          /\ Glassy \subseteq DOMAIN list =>
                (Totals(list, dashes).status = "NoDataYet") = ~HasObligationData(list)
          /\ home.tile # NoTile => Totals(list, dashes).status # "NoDataYet"
      <4>1. met("NotMet") \in BOOLEAN /\ HasObligationData(list) \in BOOLEAN
        BY DEF HasObligationData
      <4>. QED  BY <2>1, <2>2, <4>1, StatusOfTotals
    <3>. QED  BY <3>1, <3>2
  <2>4. ASSUME NEW m \in DOMAIN list \ Glassy, Calculation(list, m) # Dash, list[m].status # "NoDataYet"
        PROVE  Calculation(list, m) = Amount(HomeTables(list).main[m].due)
    BY <2>1, <2>4, CalculationIsTheRow
  <2>5. ASSUME Calculation(list, "glass") # Dash, \A m \in Glassy \cap DOMAIN list : list[m].status # "NoDataYet"
        PROVE  Calculation(list, "glass") = Amount(GlassTotals(list, TRUE).due)
    BY <2>1, <2>5, GlassCalculationIsTheSum
  <2>. QED  BY <2>3, <2>4, <2>5 DEF TablesAddUp, list
<1>. QED  BY <1>1, HomeInitInv, HomeStepInv, PTL DEF HomeSpec

-------------------------------------------------------------------------------
(* Translations.                                                             *)

RowCells == [english : English, welsh : Welsh \cup English \cup {NoText}]

\* Functions over some of the keys.
LEMMA FunctionTo ==
  ASSUME NEW S, NEW f
  PROVE  f \in FunctionsTo(S) <=>
           /\ DOMAIN f \subseteq Keys /\ f = [k \in DOMAIN f |-> f[k]]
           /\ \A k \in DOMAIN f : f[k] \in S
BY DEF FunctionsTo

LEMMA FunctionOver ==
  ASSUME NEW S, NEW D \in SUBSET Keys, NEW f \in [D -> S]
  PROVE  f \in FunctionsTo(S)
BY DEF FunctionsTo

LEMMA GroupTyping ==
  ASSUME en \in FunctionsTo(English), cy \in FunctionsTo(Texts), NEW b
  PROVE  /\ Group(b) \in Rows
         /\ DOMAIN Group(b) = Owned(b)
<1>1. Owned(b) \subseteq DOMAIN en
  BY DEF Owned, KeysOf
<1>2. DOMAIN en \subseteq Keys /\ \A k \in DOMAIN en : en[k] \in English
  BY FunctionTo
<1>3. \A k \in DOMAIN cy : cy[k] \in Texts
  BY FunctionTo
<1>4. ASSUME NEW k \in Owned(b)
      PROVE  [english |-> en[k],
              welsh   |-> IF k \in DOMAIN cy /\ cy[k] # en[k] THEN cy[k] ELSE NoText] \in RowCells
  BY <1>1, <1>2, <1>3 DEF RowCells, Texts
<1>5. Group(b) = [k \in Owned(b) |->
        [english |-> en[k],
         welsh   |-> IF k \in DOMAIN cy /\ cy[k] # en[k] THEN cy[k] ELSE NoText]]
  BY DEF Group
<1>6. Group(b) \in FunctionsTo(RowCells)
  BY <1>1, <1>2, <1>4, <1>5 DEF FunctionsTo
<1>. QED  BY <1>5, <1>6 DEF Rows, RowCells

\* The Welsh of a workbook's cells.
LEMMA GivenTyping ==
  ASSUME NEW dir \in [Books -> Rows], NEW k
  PROVE  Given(dir, k) \subseteq Texts
<1>. SUFFICES ASSUME NEW b \in Books, k \in DOMAIN dir[b], dir[b][k].welsh # NoText
     PROVE  dir[b][k].welsh \in Texts
  BY DEF Given
<1>1. dir[b][k] \in RowCells
  BY FunctionTo DEF Rows, RowCells
<1>. QED  BY <1>1 DEF RowCells, Texts

LEMMA MergedTyping ==
  ASSUME en \in FunctionsTo(English), cy \in FunctionsTo(Texts), NEW dir \in [Books -> Rows]
  PROVE  /\ Merged(dir) \in FunctionsTo(Texts)
         /\ DOMAIN Merged(dir) = DOMAIN en
         /\ \A k \in DOMAIN en :
               /\ Given(dir, k) # {} => Merged(dir)[k] \in Given(dir, k)
               /\ Given(dir, k) = {} => Merged(dir)[k] = IF k \in DOMAIN cy THEN cy[k] ELSE en[k]
<1>. DEFINE cell(k) == CASE Given(dir, k) # {}                    -> CHOOSE text \in Given(dir, k) : TRUE
                         [] Given(dir, k) = {} /\ k \in DOMAIN cy -> cy[k]
                         [] OTHER                                 -> en[k]
<1>1. Merged(dir) = [k \in DOMAIN en |-> cell(k)]
  BY DEF Merged
<1>2. ASSUME NEW k \in DOMAIN en
      PROVE  /\ Given(dir, k) # {} => cell(k) \in Given(dir, k)
             /\ Given(dir, k) = {} => cell(k) = IF k \in DOMAIN cy THEN cy[k] ELSE en[k]
  <2>1. CASE Given(dir, k) # {}
    BY <2>1
  <2>2. CASE Given(dir, k) = {}
    BY <2>2
  <2>. QED  BY <2>1, <2>2
<1>3. ASSUME NEW k \in DOMAIN en PROVE cell(k) \in Texts
  <2>1. Given(dir, k) \subseteq Texts
    BY GivenTyping
  <2>2. en[k] \in Texts /\ (k \in DOMAIN cy => cy[k] \in Texts)
    BY FunctionTo DEF Texts
  <2>. QED  BY <1>2, <2>1, <2>2
<1>4. DOMAIN en \subseteq Keys
  BY FunctionTo
<1>. HIDE DEF cell
<1>5. Merged(dir) \in FunctionsTo(Texts)
  BY <1>1, <1>3, <1>4 DEF FunctionsTo
<1>. QED  BY <1>1, <1>2, <1>5

-------------------------------------------------------------------------------

TranslationTypes ==
    /\ TranslationTypeOK
    /\ looks \in {[b \in Books |-> LookOf(site, b)] : site \in Sites}

\* A workbook that is in step with the texts is as it would be exported now.
TranslationInv ==
    /\ TranslationTypes
    /\ PlaceholdersSurvive
    /\ inStep => \A b \in listed : books[b] = Group(b)

\* The texts and the pages as they were, so are the workbooks they make.
LEMMA SameGroups ==
  ASSUME UNCHANGED <<en, cy, looks, listed>> PROVE \A b : Group(b)' = Group(b)
<1>1. \A slot : ExportKeys(slot)' = ExportKeys(slot)
  BY DEF ExportKeys, ChosenKeys, OwnKeys, ExportKey
<1>2. \A b : KeysOf(b)' = KeysOf(b)
  BY <1>1 DEF KeysOf
<1>3. \A b : Owned(b)' = Owned(b)
  BY <1>2 DEF Owned, Before
<1>. QED  BY <1>3 DEF Group

LEMMA SamePlaceholders ==
  ASSUME PlaceholdersSurvive, UNCHANGED <<en, cy, current>> PROVE PlaceholdersSurvive'
BY DEF PlaceholdersSurvive, Placeholders, Interpolated

LEMMA TranslationInitInv == TranslationInit => TranslationInv
<1>. SUFFICES ASSUME TranslationInit PROVE TranslationInv
  OBVIOUS
<1>1. PICK text \in English : en = [k \in Keys |-> text]
  BY DEF TranslationInit
<1>2. en \in FunctionsTo(English) /\ cy \in FunctionsTo(Texts)
  BY <1>1 DEF TranslationInit, FunctionsTo, Texts
<1>3. NoRows \in Rows
  <2>1. NoRows \in [{} -> RowCells]
    BY DEF NoRows
  <2>. QED  BY <2>1, FunctionOver DEF Rows, RowCells
<1>4. books \in [Books -> Rows] /\ returned \in [Books -> Rows]
  BY <1>3 DEF TranslationInit
<1>5. edits \in 0 .. MaxEdits
  BY TranslationAssumption DEF TranslationInit
<1>6. DOMAIN looks = Books
  BY DEF TranslationInit
<1>7. TranslationTypes
  BY <1>2, <1>4, <1>5, <1>6 DEF TranslationInit, TranslationTypes, TranslationTypeOK
<1>. QED  BY <1>7 DEF TranslationInit, TranslationInv, PlaceholdersSurvive

LEMMA ExportInv == ASSUME TranslationInv, Export PROVE TranslationInv'
<1>1. PICK done \in 0 .. Len(PageOrder) :
        /\ books' = [b \in Books |->
                       IF b \in {a \in listed : PlaceOf(a) <= done} /\ ~Unchanged(books[b], Group(b))
                       THEN Group(b) ELSE books[b]]
        /\ inStep' = (inStep \/ {a \in listed : PlaceOf(a) <= done} = listed)
  BY DEF Export
<1>2. \A b : Group(b) \in Rows
  BY GroupTyping DEF TranslationInv, TranslationTypes, TranslationTypeOK
<1>3. books' \in [Books -> Rows]
  BY <1>1, <1>2 DEF TranslationInv, TranslationTypes, TranslationTypeOK
<1>4. ASSUME NEW b \in listed, inStep' PROVE books'[b] = Group(b)
  <2>1. b \in Books
    BY DEF TranslationInv, TranslationTypes, TranslationTypeOK
  <2>2. CASE inStep
    BY <1>1, <2>1, <2>2 DEF TranslationInv
  <2>3. CASE {a \in listed : PlaceOf(a) <= done} = listed
    BY <1>1, <2>1, <2>3 DEF Unchanged
  <2>. QED  BY <1>1, <1>4, <2>2, <2>3
<1>5. \A b : Group(b)' = Group(b)
  BY SameGroups DEF Export
<1>6. inStep' \in BOOLEAN
  BY <1>1 DEF TranslationInv, TranslationTypes, TranslationTypeOK
<1>7. PlaceholdersSurvive'
  BY SamePlaceholders DEF Export, TranslationInv
<1>. QED  BY <1>3, <1>4, <1>5, <1>6, <1>7
          DEF Export, TranslationInv, TranslationTypes, TranslationTypeOK

LEMMA FillInTyping ==
  ASSUME TranslationTypes, FillIn PROVE returned' \in [Books -> Rows]
<1>1. PICK b \in Books : \E k \in DOMAIN returned[b], text \in Welsh :
             returned' = [returned EXCEPT ![b][k].welsh = text]
  BY DEF FillIn
<1>2. PICK k \in DOMAIN returned[b], text \in Welsh :
             returned' = [returned EXCEPT ![b][k].welsh = text]
  BY <1>1
<1>. DEFINE rows == [returned[b] EXCEPT ![k] = [returned[b][k] EXCEPT !.welsh = text]]
<1>3. returned \in [Books -> Rows]
  BY DEF TranslationTypes, TranslationTypeOK
<1>4. /\ DOMAIN returned[b] \subseteq Keys
      /\ \A j \in DOMAIN returned[b] : returned[b][j] \in RowCells
  <2>1. returned[b] \in FunctionsTo(RowCells)
    BY <1>3 DEF Rows, RowCells
  <2>. QED  BY <2>1, FunctionTo
<1>5. [returned[b][k] EXCEPT !.welsh = text] \in RowCells
  BY <1>4 DEF RowCells
<1>6. rows \in Rows
  <2>1. rows = [j \in DOMAIN returned[b] |-> IF j = k THEN [returned[b][k] EXCEPT !.welsh = text]
                                                       ELSE returned[b][j]]
    OBVIOUS
  <2>2. rows \in [DOMAIN returned[b] -> RowCells]
    BY <1>4, <1>5, <2>1
  <2>. HIDE DEF rows
  <2>. QED  BY <1>4, <2>2, FunctionOver DEF Rows, RowCells
<1>7. returned' = [returned EXCEPT ![b] = rows]
  BY <1>2
<1>. HIDE DEF rows
<1>. QED  BY <1>3, <1>6, <1>7

\* A placeholder that is named and not filled in is not plain.
LEMMA UnfilledIsWritten ==
  ASSUME NEW text, NEW name \in Placeholders(text) \ Interpolated(text)
  PROVE  \E hole \in text.holes : hole.name = name /\ ~hole.plain
BY DEF Placeholders, Interpolated

LEMMA ImportInv ==
  ASSUME TranslationInv, NEW dir \in [Books -> Rows], Import(dir) PROVE TranslationInv'
<1>. USE DEF TranslationInv, TranslationTypes, TranslationTypeOK
<1>1. /\ Merged(dir) \in FunctionsTo(Texts)
      /\ DOMAIN Merged(dir) = DOMAIN en
      /\ \A k \in DOMAIN en :
           /\ Given(dir, k) # {} => Merged(dir)[k] \in Given(dir, k)
           /\ Given(dir, k) = {} => Merged(dir)[k] = IF k \in DOMAIN cy THEN cy[k] ELSE en[k]
  BY MergedTyping
<1>2. current' \subseteq Keys
  BY FunctionTo DEF Import
<1>3. ASSUME NEW k \in current' \cap DOMAIN en
      PROVE  Placeholders(en[k]) \subseteq Placeholders(Merged(dir)[k])
  <2>1. CASE Given(dir, k) # {}
    BY <1>1, <2>1 DEF Import, Lacking
  <2>2. CASE Given(dir, k) = {} /\ Merged(dir)[k] = en[k]
    BY <2>2
  <2>3. CASE Given(dir, k) = {} /\ Merged(dir)[k] # en[k]
    <3>1. k \in DOMAIN cy /\ Merged(dir)[k] = cy[k]
      BY <1>1, <2>3
    <3>2. k \in current
      BY <2>3 DEF Import
    <3>. QED  BY <3>1, <3>2 DEF PlaceholdersSurvive
  <2>. QED  BY <2>1, <2>2, <2>3
<1>4. PlaceholdersSurvive'
  <2>1. cy' = Merged(dir) /\ en' = en
    BY DEF Import
  <2>2. \A k \in current' \cap DOMAIN en' \cap DOMAIN cy' :
           /\ Placeholders(en'[k]) \subseteq Placeholders(cy'[k])
           /\ \A name \in Interpolated(en'[k]) \ Interpolated(cy'[k]) :
                 \E hole \in cy'[k].holes : hole.name = name /\ ~hole.plain
    <3>1. ASSUME NEW k \in current' \cap DOMAIN en'
          PROVE  Placeholders(en'[k]) \subseteq Placeholders(cy'[k])
      BY <1>3, <2>1
    <3>2. \A text : Interpolated(text) \subseteq Placeholders(text)
      BY DEF Placeholders, Interpolated
    <3>3. ASSUME NEW k \in current' \cap DOMAIN en',
                 NEW name \in Interpolated(en'[k]) \ Interpolated(cy'[k])
          PROVE  \E hole \in cy'[k].holes : hole.name = name /\ ~hole.plain
      <4>1. name \in Placeholders(cy'[k]) \ Interpolated(cy'[k])
        BY <3>1, <3>2
      <4>. QED  BY <4>1, UnfilledIsWritten
    <3>. QED  BY <3>1, <3>3
  <2>. QED  BY <2>2 DEF PlaceholdersSurvive, Placeholders, Interpolated
<1>5. ASSUME inStep', NEW b \in listed PROVE books[b] = Group(b)'
  <2>1. cy' = cy /\ en' = en /\ inStep
    BY <1>5 DEF Import
  <2>2. Group(b)' = Group(b)
    BY <2>1, SameGroups DEF Import
  <2>. QED  BY <2>1, <2>2
<1>6. inStep' \in BOOLEAN
  BY DEF Import
<1>. QED  BY <1>1, <1>2, <1>4, <1>5, <1>6 DEF Import

LEMMA EditInv == ASSUME TranslationInv, NEW k \in Keys, Edit(k) PROVE TranslationInv'
<1>. USE DEF TranslationInv, TranslationTypes, TranslationTypeOK
<1>1. /\ DOMAIN en \subseteq Keys /\ \A j \in DOMAIN en : en[j] \in English
  BY FunctionTo
<1>2. /\ en' \in FunctionsTo(English)
      /\ \A j \in DOMAIN en' \ {k} : j \in DOMAIN en /\ en'[j] = en[j]
  <2>1. CASE \E text \in English :
               en' = [j \in DOMAIN en \cup {k} |-> IF j = k THEN text ELSE en[j]]
    BY <1>1, <2>1 DEF FunctionsTo
  <2>2. CASE en' = [j \in DOMAIN en \ {k} |-> en[j]]
    BY <1>1, <2>2 DEF FunctionsTo
  <2>. QED  BY <2>1, <2>2 DEF Edit
<1>3. edits' \in 0 .. MaxEdits
  BY TranslationAssumption DEF Edit
<1>4. PlaceholdersSurvive'
  BY <1>2 DEF Edit, PlaceholdersSurvive
<1>. QED  BY <1>2, <1>3, <1>4 DEF Edit

LEMMA TranslationStepInv == TranslationInv /\ [TranslationNext]_translationVars => TranslationInv'
<1>. SUFFICES ASSUME TranslationInv, [TranslationNext]_translationVars PROVE TranslationInv'
  OBVIOUS
<1>. USE DEF TranslationInv
<1>1. CASE Export
  BY <1>1, ExportInv
<1>2. CASE Translate
  BY <1>2, SameGroups, SamePlaceholders DEF Translate, TranslationTypes, TranslationTypeOK
<1>3. CASE FillIn
  <2>1. returned' \in [Books -> Rows]
    BY <1>3, FillInTyping
  <2>2. \A b : Group(b)' = Group(b)
    BY <1>3, SameGroups DEF FillIn
  <2>. QED  BY <1>3, <2>1, <2>2, SamePlaceholders DEF FillIn, TranslationTypes, TranslationTypeOK
<1>4. CASE Import(books) \/ Import(returned)
  BY <1>4, ImportInv DEF TranslationTypes, TranslationTypeOK
<1>5. ASSUME NEW k \in Keys, Edit(k) PROVE TranslationInv'
  BY <1>5, EditInv
<1>6. ASSUME NEW b \in Books, Relist(b) PROVE TranslationInv'
  <2>1. edits' \in 0 .. MaxEdits
    BY <1>6, TranslationAssumption DEF Relist, TranslationTypes, TranslationTypeOK
  <2>. QED  BY <1>6, <2>1, SamePlaceholders DEF Relist, TranslationTypes, TranslationTypeOK
<1>7. CASE UNCHANGED translationVars
  BY <1>7, SameGroups, SamePlaceholders DEF translationVars, TranslationTypes, TranslationTypeOK
<1>. QED  BY <1>1, <1>2, <1>3, <1>4, <1>5, <1>6, <1>7 DEF TranslationNext

\* The texts, the workbooks and the copies with the translators keep their types.
THEOREM TranslationTyping == TranslationSpec => []TranslationTypeOK
<1>1. TranslationInv => TranslationTypeOK
  BY DEF TranslationInv, TranslationTypes
<1>. QED  BY <1>1, TranslationInitInv, TranslationStepInv, PTL DEF TranslationSpec

\* For any keys, pages and texts, and workbooks of any age: what an import brings has
\* every placeholder of the English it translates, until a developer edits that English.
THEOREM PlaceholdersKept == TranslationSpec => []PlaceholdersSurvive
<1>1. TranslationInv => PlaceholdersSurvive
  BY DEF TranslationInv
<1>. QED  BY <1>1, TranslationInitInv, TranslationStepInv, PTL DEF TranslationSpec

-------------------------------------------------------------------------------

\* A page's place in the matrix is its own.
LEMMA PlaceOfBook ==
  ASSUME NEW b \in Books
  PROVE  PlaceOf(b) \in Nat /\ PlaceOf(b) \in DOMAIN PageOrder /\ PageOrder[PlaceOf(b)] = b
<1>1. PICK i \in DOMAIN PageOrder : PageOrder[i] = b
  BY DEF Books
<1>2. PlaceOf(b) \in DOMAIN PageOrder /\ PageOrder[PlaceOf(b)] = b
  BY <1>1 DEF PlaceOf
<1>3. PageOrder \in Seq(Books)
  BY TranslationAssumption
<1>4. DOMAIN PageOrder \subseteq Nat
  BY <1>3, LenProperties
<1>. QED  BY <1>2, <1>4

\* No two of the listed pages own a key, and one of those that have it does.
LEMMA AtMostOneOwner ==
  ASSUME listed \subseteq Books, NEW a \in listed, NEW b \in listed,
         NEW k \in Owned(a) \cap Owned(b)
  PROVE  a = b
<1>1. /\ PlaceOf(a) \in Nat /\ PageOrder[PlaceOf(a)] = a
      /\ PlaceOf(b) \in Nat /\ PageOrder[PlaceOf(b)] = b
  BY PlaceOfBook
<1>2. k \in KeysOf(a) /\ k \in KeysOf(b)
  BY DEF Owned
<1>3. ~(PlaceOf(a) < PlaceOf(b)) /\ ~(PlaceOf(b) < PlaceOf(a))
  BY <1>2 DEF Owned, Before
<1>4. PlaceOf(a) = PlaceOf(b)
  BY <1>1, <1>3
<1>. QED  BY <1>1, <1>4

LEMMA SomeOwner ==
  ASSUME listed \subseteq Books, NEW b \in listed, NEW k \in KeysOf(b)
  PROVE  \E a \in listed : k \in Owned(a)
<1>. DEFINE P == {PlaceOf(a) : a \in {c \in listed : k \in KeysOf(c)}}
<1>1. P \subseteq Nat /\ P # {}
  BY PlaceOfBook
<1>2. PICK p \in P : \A q \in P : ~(<<q, p>> \in OpToRel(<, Nat))
  <2>. HIDE DEF P
  <2>. QED  BY <1>1, WFMin, NatLessThanWellFounded
<1>3. \A q \in P : ~(q < p)
  BY <1>1, <1>2 DEF OpToRel
<1>4. PICK a \in listed : k \in KeysOf(a) /\ p = PlaceOf(a)
  BY <1>2
<1>5. ASSUME NEW c \in Before(a) PROVE k \notin KeysOf(c)
  <2>1. c \in listed /\ PlaceOf(c) < p
    BY <1>4, <1>5 DEF Before
  <2>. QED  BY <1>3, <2>1
<1>6. k \in Owned(a)
  BY <1>4, <1>5 DEF Owned
<1>. QED  BY <1>6

\* A text that some listed page has stands in one workbook.
LEMMA HadOnce ==
  ASSUME TranslationInv, inStep, NEW b \in listed, NEW k \in KeysOf(b)
  PROVE  InOneWorkbook(k)
<1>0. listed \subseteq Books /\ en \in FunctionsTo(English) /\ cy \in FunctionsTo(Texts)
  BY DEF TranslationInv, TranslationTypes, TranslationTypeOK
<1>1. PICK a \in listed : k \in Owned(a)
  BY <1>0, SomeOwner
<1>2. \A c \in listed : DOMAIN books[c] = Owned(c)
  BY <1>0, GroupTyping DEF TranslationInv
<1>3. {c \in listed : k \in DOMAIN books[c]} = {a}
  <2>1. ASSUME NEW c \in listed, k \in Owned(c) PROVE c = a
    BY <1>0, <1>1, <2>1, AtMostOneOwner
  <2>. QED  BY <1>1, <1>2, <2>1
<1>. QED  BY <1>3, FS_Singleton DEF InOneWorkbook

\* What a slot shows, in English or in Welsh, is what the export takes of it.
LEMMA ShownIsExported ==
  ASSUME NEW slot, NEW pair \in slot.pairs, NEW welsh \in BOOLEAN,
         ~Overlooked(slot, pair), ShownKey(pair, welsh) \in DOMAIN en
  PROVE  ShownKey(pair, welsh) \in ExportKeys(slot)
<1>1. ShownKey(pair, welsh) = ExportKey(pair)
  BY DEF ShownKey, ExportKey
<1>2. CASE ~slot.chosen
  BY <1>1, <1>2 DEF ExportKeys
<1>3. CASE slot.chosen /\ pair.own \in DOMAIN en
  BY <1>1, <1>3 DEF ExportKeys, ExportKey, ChosenKeys, OwnKeys
<1>4. CASE slot.chosen /\ pair.own \notin DOMAIN en
  <2>1. OwnKeys(slot) = {}
    BY <1>4 DEF Overlooked
  <2>. QED  BY <1>1, <1>4, <2>1 DEF ExportKeys, ExportKey, ChosenKeys
<1>. QED  BY <1>2, <1>3, <1>4 DEF ExportKeys

LEMMA EachInOneWorkbook == ASSUME TranslationInv PROVE FoundInOneWorkbook
<1>. SUFFICES ASSUME inStep, NEW b \in listed
     PROVE  /\ \A slot \in looks[b].found : \A pair \in slot.pairs, welsh \in BOOLEAN :
                  ~Overlooked(slot, pair) /\ ShownKey(pair, welsh) \in DOMAIN en
                     => InOneWorkbook(ShownKey(pair, welsh))
            /\ \A k \in MatrixKeys[b] \cap DOMAIN en : InOneWorkbook(k)
  BY DEF FoundInOneWorkbook
<1>1. ASSUME NEW slot \in looks[b].found, NEW pair \in slot.pairs, NEW welsh \in BOOLEAN,
             ~Overlooked(slot, pair), ShownKey(pair, welsh) \in DOMAIN en
      PROVE  InOneWorkbook(ShownKey(pair, welsh))
  <2>1. ShownKey(pair, welsh) \in ExportKeys(slot)
    BY <1>1, ShownIsExported
  <2>2. ShownKey(pair, welsh) \in KeysOf(b)
    BY <1>1, <2>1 DEF KeysOf
  <2>. QED  BY <2>2, HadOnce
<1>2. ASSUME NEW k \in MatrixKeys[b] \cap DOMAIN en PROVE InOneWorkbook(k)
  <2>1. k \in KeysOf(b)
    BY DEF KeysOf
  <2>. QED  BY <2>1, HadOnce
<1>. QED  BY <1>1, <1>2

\* What the workbooks of an export give for a key is the Welsh there is.
LEMMA GivenIsWelsh ==
  ASSUME TranslationInv, inStep, \A b \in Books \ listed : books[b] = NoRows, NEW k
  PROVE  /\ Given(books, k) # {} => k \in DOMAIN en /\ k \in DOMAIN cy /\ Given(books, k) = {cy[k]}
         /\ \A b \in Books : k \in DOMAIN books[b] => k \in DOMAIN en
<1>0. /\ listed \subseteq Books /\ en \in FunctionsTo(English) /\ cy \in FunctionsTo(Texts)
      /\ \A b \in listed : books[b] = Group(b)
  BY DEF TranslationInv, TranslationTypes, TranslationTypeOK
<1>1. ASSUME NEW b \in Books, k \in DOMAIN books[b]
      PROVE  /\ k \in DOMAIN en
             /\ books[b][k].welsh # NoText => k \in DOMAIN cy /\ books[b][k].welsh = cy[k]
  <2>1. b \in listed
    BY <1>1 DEF NoRows
  <2>2. k \in Owned(b) /\ books[b] = Group(b)
    BY <1>0, <1>1, <2>1, GroupTyping
  <2>3. books[b][k].welsh = IF k \in DOMAIN cy /\ cy[k] # en[k] THEN cy[k] ELSE NoText
    BY <2>2 DEF Group
  <2>. QED  BY <2>2, <2>3 DEF Owned, KeysOf
<1>2. ASSUME NEW text \in Given(books, k)
      PROVE  k \in DOMAIN en /\ k \in DOMAIN cy /\ text = cy[k]
  <2>1. PICK b \in Books : k \in DOMAIN books[b] /\ text = books[b][k].welsh /\ text # NoText
    BY DEF Given
  <2>. QED  BY <1>1, <2>1
<1>. QED  BY <1>1, <1>2

LEMMA ImportChangesNothing ==
  ASSUME TranslationInv, inStep, \A b \in Books \ listed : books[b] = NoRows
  PROVE  /\ Conflicts(books) = {} /\ GoneFrom(books) = {}
         /\ Lacking(books) \cap current = {}
         /\ \A k \in DOMAIN en \cap DOMAIN cy : Merged(books)[k] = cy[k]
<1>0. /\ books \in [Books -> Rows] /\ en \in FunctionsTo(English) /\ cy \in FunctionsTo(Texts)
  BY DEF TranslationInv, TranslationTypes, TranslationTypeOK
<1>1. ASSUME NEW k \in Conflicts(books) PROVE FALSE
  <2>1. Cardinality(Given(books, k)) > 1
    BY DEF Conflicts
  <2>2. Given(books, k) = {} \/ Given(books, k) = {cy[k]}
    BY GivenIsWelsh
  <2>3. Cardinality(Given(books, k)) \in {0, 1}
    BY <2>2, FS_EmptySet, FS_Singleton
  <2>. QED  BY <2>1, <2>3
<1>2. ASSUME NEW k \in GoneFrom(books) PROVE FALSE
  BY GivenIsWelsh DEF GoneFrom
<1>3. ASSUME NEW k \in Lacking(books) \cap current PROVE FALSE
  <2>1. PICK text \in Given(books, k) : ~(Placeholders(en[k]) \subseteq Placeholders(text))
    BY DEF Lacking
  <2>2. k \in DOMAIN en /\ k \in DOMAIN cy /\ text = cy[k]
    BY <2>1, GivenIsWelsh
  <2>. QED  BY <2>1, <2>2 DEF TranslationInv, PlaceholdersSurvive
<1>4. ASSUME NEW k \in DOMAIN en \cap DOMAIN cy PROVE Merged(books)[k] = cy[k]
  <2>1. CASE Given(books, k) # {}
    <3>1. Merged(books)[k] \in Given(books, k)
      BY <1>0, <2>1, MergedTyping
    <3>. QED  BY <2>1, <3>1, GivenIsWelsh
  <2>2. CASE Given(books, k) = {}
    BY <1>0, <2>2, MergedTyping
  <2>. QED  BY <2>1, <2>2
<1>. QED  BY <1>1, <1>2, <1>3, <1>4

\* For any keys, pages and texts: an export puts every text that it finds on a listed page
\* or that the matrix names for it into one workbook, under the key that the page shows
\* it by in English and in Welsh, and importing it again changes nothing.  (That it finds
\* the slots the page shows is a recursive walk, which the run checks of every site.)
THEOREM ExportComplete == TranslationSpec => [](FoundInOneWorkbook /\ ReimportChangesNothing)
<1>1. ASSUME TranslationInv PROVE FoundInOneWorkbook /\ ReimportChangesNothing
  BY <1>1, EachInOneWorkbook, ImportChangesNothing DEF ReimportChangesNothing
<1>. QED  BY <1>1, TranslationInitInv, TranslationStepInv, PTL DEF TranslationSpec

-------------------------------------------------------------------------------
(* The parts side by side.                                                   *)

LEMMA PartsInits ==
  PartsInit => /\ HistoryInit /\ SessionInit /\ ListInit
               /\ ConsentInit /\ HomeInit /\ TranslationInit
BY DEF PartsInit

LEMMA PartsSteps ==
  ASSUME [PartsNext]_<<part, historyVars, sessionVars, listVars, consentVars, homeVars,
                      translationVars>>
  PROVE  /\ [HistoryNext]_historyVars /\ [SessionNext]_sessionVars /\ [ListNext]_listVars
         /\ [ConsentNext]_consentVars /\ [HomeNext]_homeVars
         /\ [TranslationNext]_translationVars
BY DEF PartsNext

\* Each part behaves as its own specification says, whichever of them steps: what is
\* proved of a part alone holds of the service's parts side by side.
THEOREM PartsImplement ==
  PartsSpec => /\ HistorySpec /\ SessionSpec /\ ListSpec
               /\ ConsentSpec /\ HomeSpec /\ TranslationSpec
BY PartsInits, PartsSteps, PTL
   DEF PartsSpec, HistorySpec, SessionSpec, ListSpec, ConsentSpec, HomeSpec, TranslationSpec

\* Every part's state keeps its type, the one that steps and those that stand still.
THEOREM PartsTyping == PartsSpec => []PartsTypeOK
<1>1. PartsInit => part \in Parts
  BY DEF PartsInit
<1>2. /\ part \in Parts
      /\ [PartsNext]_<<part, historyVars, sessionVars, listVars, consentVars, homeVars,
                      translationVars>>
      => (part \in Parts)'
  BY DEF PartsNext
<1>3. PartsSpec => [](part \in Parts)
  BY <1>1, <1>2, PTL DEF PartsSpec
<1>4. /\ part \in Parts /\ HistoryTypeOK /\ SessionTypeOK /\ ListTypeOK
      /\ ConsentTypeOK /\ HomeTypeOK /\ TranslationTypeOK
      => PartsTypeOK
  BY DEF PartsTypeOK
<1>. QED
  BY <1>3, <1>4, PartsImplement, HistoryTyping, SessionTypes, ListTyping, ConsentTypes,
     HomeTyping, TranslationTyping, PTL

===============================================================================
