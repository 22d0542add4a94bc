---------------------------- MODULE AccountSession ----------------------------
(***************************************************************************)
(* Who is signed in and what they are let through to: plugins/             *)
(* require-auth.js, routes/auth, and the checks before a page's handler    *)
(* (common/routes/middleware, compliance/_middlewares/                     *)
(* current-compliance-scheme.js).                                          *)
(*                                                                         *)
(* One session in several tabs.  A request works on its own copy of the    *)
(* session, read whole when it begins and written back whole with its      *)
(* answer.  What the account service knows changes while requests run.     *)
(***************************************************************************)
EXTENDS FiniteSets

CONSTANTS
    Requests,  \* requests that may run at a time
    Accounts,  \* what the account service may answer of the user: the organisations, the
               \* role, the user's own id and whether the service is EPR Packaging
    SchemesOf, \* the schemes each operator organisation runs
    Targets,   \* the pages: whose, of which id, and whether basic users may see them
    Gone,      \* the account service does not know the user
    Nobody,    \* no user in the session
    Nowhere,   \* no page
    Unknown    \* where a sign-in should lead cannot be told, requests overlapped

Orgs == DOMAIN SchemesOf
Left == "left out" \* of the answer: the role and the id are optional

\* accountUserSchema.  "none" is a role not recognised, or a null.
Users == [orgs : SUBSET Orgs, role : {"approved", "basic", "none", Left},
          id : {"given", "none", Left}, packaging : BOOLEAN]

ASSUME SessionAssumption ==
    /\ Accounts \subseteq Users
    /\ \A p \in Targets : /\ p.who \in {"producer", "cso"} /\ p.basic \in BOOLEAN
                          /\ p.who = "producer" => p.id \in Orgs
    /\ \A o \in Orgs : IsFiniteSet(SchemesOf[o])
    /\ {Gone, Nobody} \cap Users = {} /\ {Nowhere, Unknown} \cap Targets = {} /\ Nowhere # Unknown

VARIABLES
    account,  \* what the account service knows now
    session,  \* the stored session
    req,      \* the requests
    intended  \* where a sign-in should lead

sessionVars == <<account, session, req, intended>>

\* credentials and user are only ever set together.
Session == [user : Users \cup {Nobody}, authReturnUrl : Targets \cup {Nowhere}]
Blank == [user |-> Nobody, authReturnUrl |-> Nowhere]

Phases == {"free", "refresh", "schemes", "role", "oidc",  \* under way
           "served", "forbidden", "error", "toSignIn", "signedIn", "notSignedIn"}
Answers == Phases \ {"free", "refresh", "schemes", "role", "oidc"}

Request ==
    [phase : Phases, copy : Session, target : Targets \cup {Nowhere},
     todo    : SUBSET Orgs,  \* operators whose schemes are still to be read
     missing : SUBSET Orgs,  \* operators the account service answered 404 for
     landed  : Targets \cup {Nowhere},
     \* For the properties: whether the account allowed it, or did not, at some moment
     \* of it up to when it read the account; another request ran beside it; where it
     \* was meant to lead.
     could : BOOLEAN, couldNot : BOOLEAN, beside : BOOLEAN, reset : BOOLEAN,
     meant : Targets \cup {Nowhere, Unknown}]

Free == [phase |-> "free", copy |-> Blank, target |-> Nowhere, todo |-> {}, missing |-> {},
         landed |-> Nowhere, could |-> FALSE, couldNot |-> FALSE, beside |-> FALSE,
         reset |-> FALSE, meant |-> Nowhere]

SessionTypeOK ==
    /\ account \in Accounts \cup {Gone}
    /\ session \in Session
    /\ req \in [Requests -> Request]
    /\ intended \in Targets \cup {Nowhere, Unknown}

SessionInit ==
    /\ account \in Accounts
    /\ session = Blank
    /\ req = [r \in Requests |-> Free]
    /\ intended = Nowhere

-------------------------------------------------------------------------------

\* schemeIdMatches, else the only scheme of the operator the path names.
Matches(o, id) == id \in SchemesOf[o] \/ (o = id /\ Cardinality(SchemesOf[o]) = 1)

\* approvedUser and allUsers.
RoleAllows(user, p) == user.role = "approved" \/ (p.basic /\ user.role = "basic")

BelongsTo(user, p) ==
    IF p.who = "producer" THEN p.id \in user.orgs ELSE \E o \in user.orgs : Matches(o, p.id)

Fits(user, p) == BelongsTo(user, p) /\ RoleAllows(user, p)

\* What the account service's answer a says to a sign-in (Nowhere), or to a page: of
\* the organisations always, of the role unless it leaves it out, and then the session's
\* counts.  For a user without an id the session's user counts alone.
Allowed(e, a) ==
    LET user == e.copy.user
        told == [a EXCEPT !.role = IF @ = Left THEN user.role ELSE @]
    IN IF e.target = Nowhere
       THEN a # Gone /\ a.packaging
       ELSE IF user.id # "given"
       THEN Fits(user, e.target)
       ELSE a # Gone /\ Fits(told, e.target)

Running(r) == req[r].phase # "free"

\* It has not read the account yet.
Unread(e) == e.phase \in {"refresh", "oidc"}

Watched(e, a) ==
    IF Unread(e)
    THEN [e EXCEPT !.could = @ \/ Allowed(e, a), !.couldNot = @ \/ ~Allowed(e, a)]
    ELSE e

\* A request begins with a copy of the session as it is stored.
Begin(r, phase, p) ==
    LET others == {q \in Requests \ {r} : Running(q)}
        begun  == [Free EXCEPT !.phase = phase, !.copy = session, !.target = p,
                               !.beside = others # {}, !.meant = intended]
    IN /\ ~Running(r)
       /\ req' = [q \in Requests |-> CASE q = r         -> Watched(begun, account)
                                       [] q \in others -> [req[q] EXCEPT !.beside = TRUE]
                                       [] OTHER        -> req[q]]
       /\ UNCHANGED <<account, session, intended>>

\* It ends, and keeps of what it has found what its answer is judged by.
Answer(r, phase) ==
    /\ req' = [req EXCEPT ![r].phase = phase, ![r].todo = {},
                          ![r].could = @ /\ phase = "served",
                          ![r].couldNot = @ /\ phase = "forbidden"]
    /\ UNCHANGED <<account, session, intended>>

-------------------------------------------------------------------------------
(* A protected page                                                          *)

\* require-auth: with credentials on to the checks, else to the sign-in (the address of
\* a page of the service is always one that isSafeReturnPath lets be kept).
AskFor(r, p) == Begin(r, IF session.user # Nobody THEN "refresh" ELSE "toSignIn", p)

OrBefore(old, new) == IF new = Left THEN old ELSE new

\* {...sessionUser, ...response.user}: what the answer leaves out stays as it was.
Kept(user, fresh) == [fresh EXCEPT !.role = OrBefore(user.role, @), !.id = OrBefore(user.id, @)]

\* currentOrganisation
Member(user, p) == p.who = "producer" /\ p.id \in user.orgs

\* currentOrganisation, or the start of currentComplianceScheme's walk.
CheckAs(r, user) ==
    /\ req' = [req EXCEPT ![r].copy.user = user,
                          ![r].todo = IF req[r].target.who = "cso" THEN user.orgs ELSE {},
                          ![r].phase = CASE req[r].target.who = "cso" -> "schemes"
                                         [] Member(user, req[r].target) -> "role"
                                         [] OTHER -> "forbidden"]
    /\ UNCHANGED <<account, session, intended>>

\* refreshSessionUser: the account service is asked for the user, if the session's has an id.
RefreshUser(r) ==
    LET user == req[r].copy.user
    IN /\ req[r].phase = "refresh"
       /\ \/ user.id # "given" /\ CheckAs(r, user)
          \/ user.id = "given" /\ Answer(r, "error")
          \/ user.id = "given" /\ account = Gone /\ Answer(r, "forbidden")
          \/ user.id = "given" /\ account # Gone /\ CheckAs(r, Kept(user, account))

\* Slip: the walk ends at the first operator without a scheme of that id.
BugLater(r, o) == {}

Later(r, o) == req[r].todo \ {o}

\* currentComplianceScheme: the operators' schemes, one operator at a time; a 404
\* goes on to the next, any other error ends it.
ReadSchemes(r) ==
    /\ req[r].phase = "schemes"
    /\ \/ req[r].todo = {} /\ Answer(r, "forbidden")
       \/ req[r].todo # {} /\ Answer(r, "error")
       \/ \E o \in req[r].todo :
            /\ \/ Matches(o, req[r].target.id) /\ req' = [req EXCEPT ![r].phase = "role"]
               \/ /\ ~Matches(o, req[r].target.id)
                  /\ req' = [req EXCEPT ![r].todo = Later(r, o)]
               \/ req' = [req EXCEPT ![r].todo = @ \ {o}, ![r].missing = @ \cup {o}]
            /\ UNCHANGED <<account, session, intended>>

\* approvedUser or allUsers, on the user of the request's copy, and the handler.
CheckRole(r) ==
    /\ req[r].phase = "role"
    /\ Answer(r, IF RoleAllows(req[r].copy.user, req[r].target) THEN "served" ELSE "forbidden")

-------------------------------------------------------------------------------
(* Signing in and out                                                        *)

\* The identity provider sends the browser back: with an error, without
\* credentials or a user id, or with the user's profile.
Callback(r) == Begin(r, "notSignedIn", Nowhere) \/ Begin(r, "oidc", Nowhere)

\* Slip: the address stays for the next sign-in.
BugUsed(copy) == copy.authReturnUrl

\* redirectAfterSignIn clears the address it used.
Used(copy) == Nowhere

\* validateSignInEligibility
Eligible(a) == a # Gone /\ a.packaging

\* handleSignInOidc after the account service's answer.
SignIn(r) ==
    /\ req[r].phase = "oidc"
    /\ \/ Answer(r, "notSignedIn")
       \/ /\ Eligible(account)
          /\ req' = [req EXCEPT ![r].phase = "signedIn",
                                ![r].landed = req[r].copy.authReturnUrl,
                                ![r].copy = [user |-> account,
                                             authReturnUrl |-> Used(req[r].copy)]]
          /\ UNCHANGED <<account, session, intended>>

\* clearCdpSession, of sign-out and clear-session alike.
SignOut ==
    /\ session' = Blank
    /\ intended' = IF \E r \in Requests : Running(r) THEN Unknown ELSE Nowhere
    /\ req' = [r \in Requests |-> IF Running(r) THEN [req[r] EXCEPT !.reset = TRUE, !.beside = TRUE]
                                  ELSE req[r]]
    /\ UNCHANGED account

\* The answer goes out and the copy is written back.  After a reset the browser may
\* hold either session's cookie, whichever answer came last.
Commit(r) ==
    LET e == req[r]
        left == IF e.phase = "toSignIn" THEN [e.copy EXCEPT !.authReturnUrl = e.target] ELSE e.copy
    IN /\ e.phase \in Answers
       /\ session' \in {left} \cup (IF e.reset THEN {session} ELSE {})
       /\ intended' = IF e.beside
                      THEN Unknown
                      ELSE CASE e.phase = "toSignIn" -> e.target
                             [] e.phase = "signedIn" -> Nowhere
                             [] OTHER                -> intended
       /\ req' = [req EXCEPT ![r] = Free]
       /\ UNCHANGED account

-------------------------------------------------------------------------------

\* The account service learns something new: an enrolment, a role, a removal.
AccountChanges ==
    \E a \in (Accounts \cup {Gone}) \ {account} :
        /\ account' = a
        /\ req' = [r \in Requests |-> Watched(req[r], a)]
        /\ UNCHANGED <<session, intended>>

SessionNext ==
    \/ \E r \in Requests : \/ \E p \in Targets : AskFor(r, p)
                           \/ RefreshUser(r) \/ ReadSchemes(r) \/ CheckRole(r)
                           \/ Callback(r) \/ SignIn(r) \/ Commit(r)
    \/ SignOut
    \/ AccountChanges

SessionSpec == SessionInit /\ [][SessionNext]_sessionVars

-------------------------------------------------------------------------------

\* A page is shown, and a sign-in accepted, only if the account service's answer at
\* some moment of that very request, no later than it was read, allowed it: a session another tab wrote back
\* late, with an older membership or role, or a sign-in of long ago, never decides.
\* A page is refused only if at some such moment of the request the account did not
\* allow it, or an operator's schemes could not be found: no older copy of the user, and
\* no order in which the operators are asked, shuts a user out.  Two exceptions: a role
\* the answer leaves out is the one in the session the request began with; and for a user
\* whose answers gave no id the service is not asked, the session's user decides.
DecidedAsOfNow ==
    \A r \in Requests :
        /\ req[r].phase \in {"served", "signedIn"} => req[r].could
        /\ req[r].phase = "forbidden" => req[r].couldNot \/ req[r].missing # {}

\* A sign-in leads to the page last asked for without one, also after failed
\* attempts, and to the packaging service's home when none was asked for since the
\* last sign-in.  Requests that overlapped are the exception.
LandsWhereMeant ==
    \A r \in Requests :
        req[r].phase = "signedIn" /\ req[r].meant # Unknown => req[r].landed = req[r].meant
===============================================================================
