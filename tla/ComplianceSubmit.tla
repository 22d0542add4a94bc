--------------------------- MODULE ComplianceSubmit ---------------------------
(***************************************************************************)
(* Submitting a certificate (producers) or statement (schemes) of          *)
(* compliance for one organisation and year: certificate-submit,           *)
(* statement-submit and routes/_shared/compliance.                         *)
(*                                                                         *)
(* Drawing the page reads the obligations and caches what it shows in      *)
(* Redis, under the user; a submit declares the cached copy.  Two users of *)
(* the organisation, or two tabs of one, overlap at every await.           *)
(***************************************************************************)
EXTENDS Sequences, Naturals

CONSTANTS
    User,               \* the approved users of the organisation
    Tab,                \* their tabs
    UserOf,             \* whose tab it is
    MaxFigures,         \* bound: the versions the obligations go through
    MaxDeclarations     \* bound: the declarations made

ASSUME SubmitAssumption ==
    /\ UserOf \in [Tab -> User]
    /\ MaxFigures \in Nat \ {0}
    /\ MaxDeclarations \in Nat

VARIABLES
    register,   \* the API's declarations of the year: their statuses, oldest first
    figures,    \* the version of the obligations the API reports
    cache,      \* cache[u]: the figures of u's entry in Redis
    shown,      \* shown[t]: the page tab t shows
    pc,         \* pc[t]: where tab t's request stands
    req,        \* req[t]: what was requested
    found,      \* found[t]: the request found a submitted declaration
    payload,    \* payload[t]: the figures it read or would declare
    late        \* late[t]: a create t's request gave up on may still be carried out

vars == <<register, figures, cache, shown, pc, req, found, payload, late>>

NoFigures == 0

Status == {"Submitted", "Accepted", "Cancelled"}

\* Slip: a declaration the regulator has accepted no longer counts.
BugOnlySubmitted(ds) == \E i \in DOMAIN ds : ds[i] = "Submitted"

\* A declaration the regulator has accepted is still a submitted declaration.
SomeSubmitted(ds) == \E i \in DOMAIN ds : ds[i] \in {"Submitted", "Accepted"}

\* Slip: the entry is filed under the organisation and year alone.
BugSharedKey(t) == CHOOSE u \in User : TRUE

\* The entry is filed under the user, the organisation and the year.
CacheKey(t) == UserOf[t]

-------------------------------------------------------------------------------
(* Pages.  "away" stands for every page without the form, "success" among    *)
(* them for the one page that claims a declaration was made.                 *)

Page(name, shownFigures) == [page |-> name, figures |-> shownFigures]

\* Slip: a failed request ends in a page of its own, which no step knows.
BugErrorPage == Page("error", NoFigures)

Away == Page("away", NoFigures)

TypeOK ==
    /\ register \in Seq(Status)
    /\ figures \in Nat \ {NoFigures}
    /\ cache \in [User -> Nat]
    /\ shown \in [Tab -> [page : {"away", "submit", "success"}, figures : Nat]]
    /\ pc \in [Tab -> {"idle", "declarations", "obligations", "cache", "handler",
                       "writing", "creating", "created"}]
    /\ req \in [Tab -> {"none", "submitGet", "submitPost"}]
    /\ found \in [Tab -> BOOLEAN]
    /\ payload \in [Tab -> Nat]
    /\ late \in [Tab -> BOOLEAN]

Init ==
    /\ register = <<>>
    /\ figures = 1
    /\ cache = [u \in User |-> NoFigures]
    /\ shown = [t \in Tab |-> Away]
    /\ pc = [t \in Tab |-> "idle"]
    /\ req = [t \in Tab |-> "none"]
    /\ found = [t \in Tab |-> FALSE]
    /\ payload = [t \in Tab |-> NoFigures]
    /\ late = [t \in Tab |-> FALSE]

\* A tab opens the page at any time, and submits the form it shows.
Begin(t) ==
    /\ pc[t] = "idle"
    /\ \E kind \in {"submitGet", "submitPost"} :
          /\ kind = "submitPost" => shown[t].page = "submit"
          /\ req' = [req EXCEPT ![t] = kind]
    /\ pc' = [pc EXCEPT ![t] = "declarations"]
    /\ UNCHANGED <<register, figures, cache, shown, found, payload, late>>

Respond(t, page) ==
    /\ shown' = [shown EXCEPT ![t] = page]
    /\ pc' = [pc EXCEPT ![t] = "idle"]
    /\ req' = [req EXCEPT ![t] = "none"]
    /\ found' = [found EXCEPT ![t] = FALSE]
    /\ payload' = [payload EXCEPT ![t] = NoFigures]
    /\ UNCHANGED figures

-------------------------------------------------------------------------------
(* The pre-handlers, one read after the other.                               *)

ReadDeclarations(t) ==
    /\ pc[t] = "declarations"
    /\ found' = [found EXCEPT ![t] = SomeSubmitted(register)]
    /\ pc' = [pc EXCEPT ![t] = IF req[t] = "submitGet" THEN "obligations" ELSE "cache"]
    /\ UNCHANGED <<register, figures, cache, shown, req, payload, late>>

ReadObligations(t) ==
    /\ pc[t] = "obligations"
    /\ payload' = [payload EXCEPT ![t] = figures]
    /\ pc' = [pc EXCEPT ![t] = "handler"]
    /\ UNCHANGED <<register, figures, cache, shown, req, found, late>>

\* An entry that cannot be read counts as missing.
ReadCache(t) ==
    /\ pc[t] = "cache"
    /\ \E f \in {cache[CacheKey(t)], NoFigures} : payload' = [payload EXCEPT ![t] = f]
    /\ pc' = [pc EXCEPT ![t] = "handler"]
    /\ UNCHANGED <<register, figures, cache, shown, req, found, late>>

ReadFails(t) ==
    /\ pc[t] \in {"declarations", "obligations"}
    /\ Respond(t, Away)
    /\ UNCHANGED <<register, cache, late>>

-------------------------------------------------------------------------------
(* The handlers.                                                             *)

\* Goes to the declaration there is, or caches what it is about to show.
SubmitGet(t) ==
    /\ pc[t] = "handler" /\ req[t] = "submitGet"
    /\ IF found[t]
       THEN Respond(t, Away) /\ UNCHANGED <<register, cache, late>>
       ELSE /\ pc' = [pc EXCEPT ![t] = "writing"]
            /\ UNCHANGED <<register, figures, cache, shown, req, found, payload, late>>

\* The page follows the write; a write whose answer is lost ends in an error page.
WriteCache(t) ==
    /\ pc[t] = "writing"
    /\ cache' = [cache EXCEPT ![CacheKey(t)] = payload[t]]
    /\ \E page \in {Page("submit", payload[t]), Away} : Respond(t, page)
    /\ UNCHANGED <<register, late>>

WriteFails(t) ==
    /\ pc[t] = "writing"
    /\ Respond(t, Away)
    /\ UNCHANGED <<register, cache, late>>

\* A submit goes to the declaration there is, fails without a cached payload, shows
\* the form again when it is not filled in, or creates.
SubmitPost(t) ==
    /\ pc[t] = "handler" /\ req[t] = "submitPost"
    /\ UNCHANGED <<register, cache, late>>
    /\ IF found[t] \/ payload[t] = NoFigures
       THEN Respond(t, Away)
       ELSE \/ Respond(t, Page("submit", payload[t]))
            \/ /\ pc' = [pc EXCEPT ![t] = "creating"]
               /\ UNCHANGED <<figures, shown, req, found, payload>>

-------------------------------------------------------------------------------
(* Creating: sent once, never retried.  The API may refuse, may carry it out *)
(* and lose the answer, and may carry it out after the caller gave up.       *)
(* Whether it refuses a second declaration of a year the code cannot tell.   *)

Add == /\ Len(register) < MaxDeclarations
       /\ register' = Append(register, "Submitted")

ApiCreates(t) ==
    /\ pc[t] = "creating"
    /\ Add
    /\ \/ /\ pc' = [pc EXCEPT ![t] = "created"]
          /\ UNCHANGED <<figures, shown, req, found, payload>>
       \/ Respond(t, Away)
    /\ UNCHANGED <<cache, late>>

ApiRefuses(t) ==
    /\ pc[t] = "creating"
    /\ Respond(t, Away)
    /\ UNCHANGED <<register, cache, late>>

GiveUp(t) ==
    /\ pc[t] = "creating" /\ ~late[t]
    /\ late' = [late EXCEPT ![t] = TRUE]
    /\ Respond(t, Away)
    /\ UNCHANGED <<register, cache>>

LateCreate(t) ==
    /\ late[t]
    /\ Add
    /\ late' = [late EXCEPT ![t] = FALSE]
    /\ UNCHANGED <<figures, cache, shown, pc, req, found, payload>>

\* The entry is deleted before the redirect to the success page, which an answer
\* without a body does not reach.
ClearCache(t) ==
    /\ pc[t] = "created"
    /\ cache' = [cache EXCEPT ![CacheKey(t)] = NoFigures]
    /\ \E page \in {Page("success", NoFigures), Away} : Respond(t, page)
    /\ UNCHANGED <<register, late>>

ClearFails(t) ==
    /\ pc[t] = "created"
    /\ Respond(t, Away)
    /\ UNCHANGED <<register, cache, late>>

-------------------------------------------------------------------------------
(* What happens meanwhile: notes are accepted and recycling data arrives,    *)
(* the regulator accepts or cancels, an entry expires.                       *)

FiguresMove ==
    /\ figures < MaxFigures
    /\ figures' = figures + 1
    /\ UNCHANGED <<register, cache, shown, pc, req, found, payload, late>>

Regulates(i) ==
    /\ register[i] # "Cancelled"
    /\ \E s \in {"Accepted", "Cancelled"} :
          s # register[i] /\ register' = [register EXCEPT ![i] = s]
    /\ UNCHANGED <<figures, cache, shown, pc, req, found, payload, late>>

Expires(u) ==
    /\ cache[u] # NoFigures
    /\ cache' = [cache EXCEPT ![u] = NoFigures]
    /\ UNCHANGED <<register, figures, shown, pc, req, found, payload, late>>

Server(t) ==
    \/ ReadDeclarations(t) \/ ReadObligations(t) \/ ReadCache(t) \/ ReadFails(t)
    \/ SubmitGet(t) \/ WriteCache(t) \/ WriteFails(t) \/ SubmitPost(t)
    \/ ApiCreates(t) \/ ApiRefuses(t) \/ GiveUp(t) \/ ClearCache(t) \/ ClearFails(t)

Next ==
    \/ \E t \in Tab : Begin(t) \/ Server(t) \/ LateCreate(t)
    \/ FiguresMove
    \/ \E i \in DOMAIN register : Regulates(i)
    \/ \E u \in User : Expires(u)

Spec == Init /\ [][Next]_vars

-------------------------------------------------------------------------------

\* "The organisation must not be able to submit again for that year": never two
\* declarations of one year that stand.
OneSubmitted ==
    \A i, j \in DOMAIN register :
        {register[i], register[j]} \subseteq {"Submitted", "Accepted"} => i = j

\* What a submit declares is what its page shows, although it is read back from a
\* cache that others write and the figures have moved since (for users who submit
\* from one tab at a time).
DeclaresWhatIsShown ==
    \A t \in Tab : pc[t] = "creating" => shown[t] = Page("submit", payload[t])

\* The submits that found nothing submitted and have not declared yet: each holds a
\* permit of the register until its create is answered, and leaves one behind when it
\* gives up.
Outstanding(t) ==
    /\ req[t] = "submitPost" /\ ~found[t]
    /\ pc[t] \in {"cache", "handler", "creating"}

Permits == Tab \X {"request", "late"}

Held == {k \in Permits : IF k[2] = "request" THEN Outstanding(k[1]) ELSE late[k[1]]}

Register == INSTANCE DeclarationRegister WITH Permit <- Permits, permits <- Held

\* Whatever is lost, retried or late, a declaration follows a finding of its own
\* submit that nothing was submitted, and each finding is good for one.
RegisterKept == Register!RegisterSpec
===============================================================================
