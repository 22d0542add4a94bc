---------------------------- MODULE CookieConsent ----------------------------
(***************************************************************************)
(* Analytics and the consent to it, in one browser with several tabs: the  *)
(* server's part (common/helpers/cookie-consent.js, plugins/               *)
(* cookie-consent.js, routes/cookies, the layout that draws the tags) and  *)
(* the page's (client/javascripts/cookies.js).  Analytics is configured.   *)
(*                                                                         *)
(* The tabs share one cookie jar: the policy, and whether any of Google's  *)
(* cookies is there.  A request carries the jar of the moment it is sent;  *)
(* answers come in any order.                                              *)
(***************************************************************************)
EXTENDS FiniteSets

CONSTANT Tabs

ASSUME TabsAssumption == Tabs # {}

VARIABLES
    policy,  \* the consent cookie: not confirmed, analytics accepted or rejected
    ga,      \* whether the browser holds Google's cookies
    tab,     \* the page each tab shows
    asked,   \* the policy a tab's next page was drawn with, once it is asked for
    cached   \* the page the tab would restore from its back/forward cache

consentVars == <<policy, ga, tab, asked, cached>>

Preferences == {"yes", "no"}
Policies == Preferences \cup {"unset"}

Page ==
    [open   : BOOLEAN,
     banner : BOOLEAN,        \* the question is shown
     posts  : SUBSET Preferences, \* preferences under way to the server
     runs   : BOOLEAN,        \* the tags are loaded and consent is granted to them
     \* For the properties: it took the cookies away when it came and ran no tags
     \* since; the policy changed under it or two of its own answers overlapped.
     dry     : BOOLEAN,
     excused : BOOLEAN]

Closed == [open |-> FALSE, banner |-> FALSE, posts |-> {}, runs |-> FALSE, dry |-> FALSE,
           excused |-> FALSE]

ConsentTypeOK ==
    /\ policy \in Policies
    /\ ga \in BOOLEAN
    /\ tab \in [Tabs -> Page] /\ cached \in [Tabs -> Page]
    /\ asked \in [Tabs -> Policies \cup {"none"}]

ConsentInit ==
    /\ policy \in Policies
    /\ ga = (policy = "yes")
    /\ tab = [t \in Tabs |-> Closed]
    /\ cached = [t \in Tabs |-> Closed]
    /\ asked = [t \in Tabs |-> "none"]

-------------------------------------------------------------------------------

\* hasAcceptedAnalytics
Accepted(p) == p = "yes"

\* Slip: nothing is cleaned up when a page arrives.
BugCleaned(p) == ga

\* cleanupStaleCookies
Cleaned(p) == IF Accepted(p) THEN ga ELSE FALSE

\* removeAnalytics: the answer takes back the cookies that were sent for it.
TakenBack(drawn) == IF Accepted(drawn) THEN {} ELSE {FALSE}

\* The layout draws the tags for a policy that is confirmed and accepted.
TagsDrawn(p) == p = "yes"

\* A page drawn with `drawn` arrives while the jar holds p.
Arrived(drawn, p) ==
    [Closed EXCEPT !.open = TRUE, !.banner = (drawn = "unset"), !.runs = TagsDrawn(drawn),
                   !.dry = ~Accepted(p) /\ ~TagsDrawn(drawn), !.excused = (drawn # p /\ TagsDrawn(drawn))]

\* The policy changes to p by what tab t did: the tags that run in the others do
\* not hear of it.
Changed(p, t) ==
    [s \in Tabs |-> IF s # t /\ tab[s].runs THEN [tab[s] EXCEPT !.excused = TRUE] ELSE tab[s]]

-------------------------------------------------------------------------------
(* Pages                                                                     *)

\* What the cache keeps of a page; it is restored as it was left.
Frozen(page) == [Closed EXCEPT !.open = TRUE, !.banner = page.banner, !.runs = page.runs]

\* A page is asked for, with the jar as it is: applyCookieConsentToView.
Ask(t) ==
    /\ asked[t] = "none"
    /\ asked' = [asked EXCEPT ![t] = policy]
    /\ UNCHANGED <<policy, ga, tab, cached>>

\* It arrives, with the cookies that were sent taken back unless it was drawn with
\* consent; then initCookieBanner.  The page left may go to the back/forward cache,
\* unless it waits for an answer.
Arrive(t) ==
    /\ asked[t] # "none"
    /\ tab' = [tab EXCEPT ![t] = Arrived(asked[t], policy)]
    /\ ga' \in {Cleaned(policy)} \cup TakenBack(asked[t])
    /\ cached' \in {cached} \cup (IF tab[t].open /\ tab[t].posts = {}
                                  THEN {[cached EXCEPT ![t] = Frozen(tab[t])]} ELSE {})
    /\ asked' = [asked EXCEPT ![t] = "none"]
    /\ UNCHANGED policy

\* Slip: the guard looks at the page, not at the jar.
BugGuard(t) == TRUE

Guard(t) == Accepted(policy)

\* setupBfcacheGuard: a page that comes back stays only if analytics is accepted now,
\* else the cookies go and it is loaded anew.
Restore(t) ==
    /\ cached[t].open /\ asked[t] = "none"
    /\ IF Guard(t)
       THEN /\ tab' = [tab EXCEPT ![t] = cached[t]]
            /\ UNCHANGED <<ga, asked>>
       ELSE /\ ga' = FALSE
            /\ tab' = [tab EXCEPT ![t] = Closed]
            /\ asked' = [asked EXCEPT ![t] = policy]
    /\ cached' = [cached EXCEPT ![t] = Closed]
    /\ UNCHANGED policy

\* The tags write their cookies whenever they please.
TagsWrite(t) ==
    /\ tab[t].runs /\ ~ga
    /\ ga' = TRUE
    /\ UNCHANGED <<policy, tab, asked, cached>>

-------------------------------------------------------------------------------
(* Answering                                                                 *)

Posted(t, choice) ==
    [tab EXCEPT ![t].posts = @ \cup {choice}, ![t].excused = @ \/ tab[t].posts # {}]

\* The banner's buttons; each waits for its own answer.
ClickAccept(t) ==
    /\ tab[t].banner /\ "yes" \notin tab[t].posts
    /\ tab' = Posted(t, "yes")
    /\ UNCHANGED <<policy, ga, asked, cached>>

ClickReject(t) ==
    /\ tab[t].banner /\ "no" \notin tab[t].posts
    /\ tab' = [Posted(t, "no") EXCEPT ![t].runs = FALSE]
    /\ ga' = FALSE
    /\ UNCHANGED <<policy, asked, cached>>

\* The server's answer sets the cookie (updatePolicy); the page hides the question
\* and, for "yes", loads the tags.
Succeed(t, choice) ==
    /\ choice \in tab[t].posts
    /\ policy' = choice
    /\ tab' = [Changed(choice, t) EXCEPT
                 ![t].posts = @ \ {choice}, ![t].banner = FALSE,
                 ![t].runs = @ \/ choice = "yes", ![t].dry = @ /\ choice = "no"]
    /\ UNCHANGED <<ga, asked, cached>>

\* A form is posted by the browser itself, which redirects to a page: the form of the
\* cookies page, or the banner's after its answer failed.  It may fail as well.
PostForm(t, choice) ==
    /\ policy' \in {choice, policy}
    /\ tab' = [Changed(policy', t) EXCEPT ![t] = Closed]
    /\ ga' = IF policy' = "no" THEN FALSE ELSE ga
    /\ asked' = [asked EXCEPT ![t] = policy']
    /\ UNCHANGED cached

SaveSettings(t, choice) == tab[t].open /\ tab[t].posts = {} /\ PostForm(t, choice)
FallBack(t, choice) == choice \in tab[t].posts /\ PostForm(t, choice)

\* The consent cookie expires, or the user deletes it.
Expire ==
    /\ policy # "unset"
    /\ policy' = "unset"
    /\ tab' = [t \in Tabs |-> IF tab[t].runs THEN [tab[t] EXCEPT !.excused = TRUE] ELSE tab[t]]
    /\ UNCHANGED <<ga, asked, cached>>

ConsentNext ==
    \/ \E t \in Tabs :
         \/ Ask(t) \/ Arrive(t) \/ Restore(t) \/ TagsWrite(t)
         \/ ClickAccept(t) \/ ClickReject(t)
         \/ \E choice \in Preferences :
                Succeed(t, choice) \/ SaveSettings(t, choice) \/ FallBack(t, choice)
    \/ Expire

ConsentSpec == ConsentInit /\ [][ConsentNext]_consentVars

-------------------------------------------------------------------------------

\* Tags run in a page only while analytics is accepted, whether the page was loaded,
\* restored or answered in.  Two things are not kept from it, and are the exceptions:
\* a policy changed elsewhere under a page that is open, and an answer that was given
\* before the other of the same page had come back.
RunsOnlyAccepted ==
    \A t \in Tabs : tab[t].runs => policy = "yes" \/ tab[t].excused

\* A page that may have Google's cookies, or that will look after them when it comes.
HasThem(t) == asked[t] # "none" \/ (tab[t].open /\ ~tab[t].dry)

\* While the service is open in the browser, Google's cookies outlive the consent only
\* as long as a page that came while it was given, or ran the tags, is not loaded anew,
\* or a page is on its way: then the last of them takes them away.
CookiesGoWithTheTags ==
    ga /\ policy # "yes" => (\A t \in Tabs : ~tab[t].open) \/ \E t \in Tabs : HasThem(t)
===============================================================================
