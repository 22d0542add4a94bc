--------------------------- MODULE NavigationHistory ---------------------------
(***************************************************************************)
(* The pages one session has walked through and the Back link of the page  *)
(* it is on: common/helpers/navigation/navigation-history-store.js,        *)
(* back-link.js and plugins/navigation-history.js.                         *)
(*                                                                         *)
(* An address is a page (the path) and a query.  The link is resolved      *)
(* before the handler, the visit recorded after it.  Requests are taken    *)
(* one at a time; what overlapping requests do to a session is the subject *)
(* of AccountSession and BulkAccept.                                       *)
(***************************************************************************)
EXTENDS Ordering

CONSTANTS
    Pages,       \* pages behind the sign-in
    PublicPages, \* pages isPublicPath lets anyone see, which are never recorded
    Forms,       \* the pages that are forms
    Queries,     \* the query strings, "" among them
    Packaging,   \* a page of another site the configuration allows as a back link
    Landing,     \* the page a submitted form redirects to
    MaxHistory   \* MAX_NAVIGATION_HISTORY

ASSUME HistoryAssumption ==
    /\ Forms \subseteq Pages /\ Landing \in Pages /\ "" \in Queries
    /\ Packaging \notin Pages \cup PublicPages
    /\ Pages \cap PublicPages = {} /\ "" \notin Pages \cup PublicPages \cup {Packaging}
    /\ MaxHistory \in Nat /\ MaxHistory > 1

VARIABLES
    history,  \* navigationHistory
    blocked,  \* navigationBlockedPaths
    viewed,   \* the page in the browser, its Back link and how it was reached
    following, \* the redirect the browser is following
    moved,    \* whether the forms' job is done, so that they redirect when opened
    submitted \* forms submitted and not asked for since (for the properties)

historyVars == <<history, blocked, viewed, following, moved, submitted>>

Url == [page : Pages \cup PublicPages, query : Queries]
Home == [page |-> Packaging, query |-> ""]
AnyUrl == Url \cup {Home}

\* No address: no redirect being followed, no Referer header, no page clicked from.
NoUrl == [page |-> "", query |-> ""]

\* What the browser shows: an address and its Back link.  For the properties: the
\* page whose Back link led here, and whether either of the two was listed in the
\* history when it was clicked.
Views == [url : AnyUrl, back : AnyUrl, from : AnyUrl \cup {NoUrl}, listed : BOOLEAN]

AtHome == [url |-> Home, back |-> Home, from |-> NoUrl, listed |-> FALSE]

HistoryTypeOK ==
    /\ history \in Seq(AnyUrl) /\ Len(history) <= MaxHistory
    /\ blocked \subseteq Pages \cup PublicPages
    /\ viewed \in Views
    /\ following \in [url : Url \cup {NoUrl}, referer : AnyUrl \cup {NoUrl},
                    from : AnyUrl \cup {NoUrl}, hops : 0 .. 1]
    /\ moved \in BOOLEAN
    /\ submitted \subseteq Forms

Idling == [url |-> NoUrl, referer |-> NoUrl, from |-> NoUrl, hops |-> 0]

HistoryInit ==
    /\ history = <<>>
    /\ blocked = {}
    /\ viewed = AtHome
    /\ following = Idling
    /\ moved = FALSE
    /\ submitted = {}

-------------------------------------------------------------------------------
(* navigation-history-store.js                                               *)

Internal(u) == u.page # Packaging

\* The last entry that is the address itself, else the last for the same path.
Positions(u) ==
    LET exact == {i \in DOMAIN history : history[i] = u}
    IN IF exact # {}
       THEN exact
       ELSE {i \in DOMAIN history : Internal(history[i]) /\ history[i].page = u.page}

InHistory(u) == Positions(u) # {}
Latest(places) == CHOOSE i \in places : \A j \in places : j <= i
Position(u) == Latest(Positions(u))

\* Slip: nothing is cut off.
BugNewest(h) == h

\* The newest entries, as many as are kept.
Newest(h) == SubSeq(h, IF Len(h) > MaxHistory THEN Len(h) - MaxHistory + 1 ELSE 1, Len(h))

\* Entries the Back link of u may point to.
Candidates(u) ==
    LET at == Positions(u)
    IN {i \in DOMAIN history :
           /\ history[i].page \notin blocked
           /\ IF at # {} THEN i < Latest(at) ELSE history[i].page # u.page}

\* Slip: the entries after the page are kept, as a log would.
BugStored(u, referer) == Newest(Append(history, u))

\* setStoredNavigationPreviousUrl: the first page is preceded by where it was
\* entered from; going back to a page cuts what came after it.
Stored(u, referer) ==
    LET seeded == history = <<>> /\ referer # NoUrl /\ referer # u
        cut    == CASE seeded       -> IF referer.page = u.page THEN <<>> ELSE <<referer>>
                    [] InHistory(u) -> SubSeq(history, 1, Position(u) - 1)
                    [] OTHER        -> history
    IN Newest(Append(cut, u))

-------------------------------------------------------------------------------
(* back-link.js                                                              *)

\* The page the Referer header names, if it may be a back link.
RefererLink(u, referer) ==
    IF referer # u /\ referer.page \notin blocked THEN referer ELSE NoUrl

\* Slip: the referer is used whether or not the page is in the history.
BugBackLink(u, referer) ==
    LET before == Candidates(u)
    IN CASE before # {} -> history[Latest(before)]
         [] before = {} /\ RefererLink(u, referer) # NoUrl -> RefererLink(u, referer)
         [] OTHER -> Home

\* resolveBackLinkHref: the entry before the page; for a page that has no entry
\* yet, where it was reached from; else the packaging service's home.
BackLink(u, referer) ==
    LET before == Candidates(u)
    IN CASE before # {} -> history[Latest(before)]
         [] before = {} /\ ~InHistory(u) /\ RefererLink(u, referer) # NoUrl ->
               RefererLink(u, referer)
         [] OTHER -> Home

-------------------------------------------------------------------------------
(* The browser                                                               *)

\* A GET answered below 400 (a redirect is) of a page that is not public.
RecordNavigation(u, referer) ==
    IF u.page \in Pages
    THEN /\ history' = Stored(u, RefererLink(u, referer))
         /\ blocked' = blocked \ {u.page}
    ELSE UNCHANGED <<history, blocked>>

\* A form whose job is done redirects to the landing page.
Redirects(u) == moved /\ u.page \in Forms

\* The page or the error page of an address, with its Back link.
View(u, referer, from, hops) ==
    [url |-> u, back |-> BackLink(u, referer),
     from |-> IF hops = 0 THEN from ELSE NoUrl,
     listed |-> InHistory(u) \/ InHistory(from)]

Get(u, referer, from, hops) ==
    \/ \* The page is there.
       /\ ~Redirects(u)
       /\ viewed' = View(u, referer, from, hops)
       /\ following' = Idling
       /\ RecordNavigation(u, referer)
       /\ submitted' = submitted \ {u.page}
    \/ \* It redirects, which is recorded too; the Referer stays the same.
       /\ Redirects(u)
       /\ following' = [url |-> [page |-> Landing, query |-> ""], referer |-> referer,
                      from |-> from, hops |-> 1]
       /\ RecordNavigation(u, referer)
       /\ submitted' = submitted \ {u.page}
       /\ UNCHANGED viewed
    \/ \* It fails: an error page, nothing recorded.
       /\ viewed' = View(u, referer, from, hops)
       /\ following' = Idling
       /\ submitted' = submitted \ {u.page}
       /\ UNCHANGED <<history, blocked>>

\* A link, a typed address or the browser's own buttons, with any Referer the
\* browser may send: none, the page it is on, or the other site's.
Visit ==
    /\ following = Idling
    /\ \E u \in Url, referer \in {NoUrl, viewed.url, Home} : Get(u, referer, NoUrl, 0)
    /\ UNCHANGED moved

ClickBack ==
    /\ following = Idling
    /\ IF Internal(viewed.back)
       THEN Get(viewed.back, viewed.url, viewed.url, 0)
       ELSE /\ viewed' = AtHome
            /\ UNCHANGED <<history, blocked, following, submitted>>
    /\ UNCHANGED moved

FollowRedirect ==
    /\ following # Idling
    /\ Get(following.url, following.referer, following.from, following.hops)
    /\ UNCHANGED moved

\* Slip: the form is taken out of the history and not blocked.
BugBlock(form) == {}

Block(form) == {form}

\* A form is submitted and answers with a redirect: removeStoredNavigationPath.
Submit ==
    /\ following = Idling
    /\ viewed.url.page \in Forms
    /\ blocked' = blocked \cup Block(viewed.url.page)
    /\ history' = EntriesAt(history, {i \in DOMAIN history : history[i].page # viewed.url.page})
    /\ following' = [url |-> [page |-> Landing, query |-> ""], referer |-> viewed.url,
                   from |-> NoUrl, hops |-> 0]
    /\ submitted' = submitted \cup {viewed.url.page}
    /\ moved' \in {moved, TRUE}
    /\ UNCHANGED viewed

\* What a form is for is done, here or by another user, or asked for anew.
Moved ==
    /\ moved' = ~moved
    /\ UNCHANGED <<history, blocked, viewed, following, submitted>>

\* Signing out resets the session and leads to the packaging service.
Leave ==
    /\ following = Idling
    /\ history' = <<>> /\ blocked' = {} /\ submitted' = {}
    /\ viewed' = AtHome
    /\ UNCHANGED <<following, moved>>

HistoryNext == Leave \/ Visit \/ ClickBack \/ FollowRedirect \/ Submit \/ Moved

HistorySpec == HistoryInit /\ [][HistoryNext]_historyVars

-------------------------------------------------------------------------------

\* A page has one place in the history, whatever its query: visiting it again
\* never leaves a second entry behind that Back would stop at twice.
OnePlacePerPage ==
    \A i, j \in DOMAIN history :
        Internal(history[i]) /\ history[i].page = history[j].page => i = j

\* A form that was submitted is behind no Back link until it is asked for again,
\* whichever way it left the history and however long ago.
SubmittedFormNotBehind ==
    following = Idling => viewed.back.page \notin submitted

\* Back never leads to the very address it is on, and following it from one page to
\* another, with either of them in the history, never shows a Back link to the
\* first: "once the current page is in the stack, trust the stack only".  Two
\* exceptions.  Of two pages that are both outside the history (public pages, which
\* are never recorded, and error pages) each gets its Back link from the Referer,
\* and they do send the user to and fro.  And a page that only redirects is recorded
\* as a page: Back leads through it.
NoBackLoop ==
    /\ viewed.url # Home => viewed.back # viewed.url
    /\ viewed.from # NoUrl /\ viewed.listed /\ viewed.from.page # viewed.url.page
          => viewed.back.page # viewed.from.page
===============================================================================
