----------------------------- MODULE NoteListing -----------------------------
(***************************************************************************)
(* The list of notes awaiting acceptance: every page of the API's listing  *)
(* is fetched in turn while the listing changes (routes/_shared/prns/      *)
(* load-awaiting-acceptance-prns.js), filtered by year, cut into pages and *)
(* linked (prns-pagination.js, the list handler of prns-list-routes.js).   *)
(*                                                                         *)
(* A note is its place in the order asked for, so the listing is a set.    *)
(* A page the API answers may be of the listing as it was before its last  *)
(* change: each page is cached on its own.                                 *)
(***************************************************************************)
EXTENDS Ordering, FiniteSetsExt, SequencesExt

CONSTANTS
    Notes,      \* the notes, numbered in the order of the listing
    Acceptable, \* those that may be accepted into the year of the list
    FetchSize,  \* FETCH_PAGE_SIZE
    ApiSize,    \* the largest page the API answers
    ListSizes   \* the page sizes the list may be asked for

ASSUME ListingAssumption ==
    /\ Notes \subseteq Nat /\ IsFiniteSet(Notes) /\ Acceptable \subseteq Notes
    /\ FetchSize \in Nat \ {0} /\ ApiSize \in Nat \ {0}
    /\ ListSizes \subseteq Nat \ {0}

VARIABLES
    listing, \* the notes awaiting acceptance
    older,   \* the listing before its last change, as a cache may still hold it
    want,    \* the list page asked for: of how many rows, where it redirected from,
             \* whether the list's form is posted to it
    walk,    \* the walk over the API's pages
    drawn,   \* the list page in the browser
    steady   \* notes whose place did not change while the walk went on

listVars == <<listing, older, want, walk, drawn, steady>>

NoList == [rows |-> <<>>, total |-> 0, page |-> 0, size |-> 1, posted |-> FALSE]
NoWish == [page |-> 0, size |-> 1, came |-> 0, posted |-> FALSE]
Resting == [next |-> 0, count |-> 0, size |-> FetchSize, got |-> <<>>]

NoteBound == Cardinality(Notes)

ListTypeOK ==
    /\ listing \subseteq Notes /\ older \subseteq Notes
    /\ want \in [page : 0 .. NoteBound + 1, size : ListSizes \cup {1}, came : 0 .. NoteBound + 1,
                 posted : BOOLEAN]
    /\ walk.next \in 0 .. NoteBound + 2 /\ walk.count \in 0 .. NoteBound
    /\ walk.size \in 1 .. FetchSize
    /\ walk.got \in Seq(Notes)
    /\ drawn \in [rows : Seq(Notes), total : 0 .. NoteBound, page : 0 .. NoteBound + 1,
                  size : ListSizes \cup {1}, posted : BOOLEAN]
    /\ steady \subseteq Notes

ListInit ==
    /\ listing \in SUBSET Notes
    /\ older = listing
    /\ want = NoWish
    /\ walk = Resting
    /\ drawn = NoList
    /\ steady = {}

-------------------------------------------------------------------------------
(* The API                                                                   *)

Slice(seq, page, size) ==
    LET last == IF page * size > Len(seq) THEN Len(seq) ELSE page * size
    IN IF (page - 1) * size < last THEN SubSeq(seq, (page - 1) * size + 1, last) ELSE <<>>

\* The page, and the size it was cut at, of the listing or of what a cache holds.
ApiAnswers(page, size) ==
    LET cut == IF size <= ApiSize THEN size ELSE ApiSize
    IN {[prns |-> Slice(InOrder(l), page, cut), total |-> Cardinality(l), size |-> cut] :
            l \in {listing, older}}

-------------------------------------------------------------------------------
(* The walk over the pages                                                   *)

Ceil(a, b) == (a + b - 1) \div b

\* pageSizeFromFirstResponse
PageSize(first) ==
    IF first.size < FetchSize /\ Len(first.prns) = first.size THEN first.size ELSE FetchSize

\* Slip: pages are put one after another.
BugUnseen(got, items) == items

\* appendUnseenPrns: a note already there is left out.
Unseen(got, items) == EntriesAt(items, {i \in DOMAIN items : items[i] \notin ToSet(got)})

Walking == walk.next > 0

FetchFirst ==
    /\ walk.next = 1
    /\ \E first \in ApiAnswers(1, FetchSize) :
        walk' = [next |-> 2, count |-> Ceil(first.total, PageSize(first)),
                 size |-> PageSize(first), got |-> first.prns]
    /\ UNCHANGED <<listing, older, want, drawn, steady>>

\* The next page, up to the count the first answer gave.
FetchLater ==
    /\ walk.next > 1 /\ walk.next <= walk.count
    /\ \E answer \in ApiAnswers(walk.next, walk.size) :
        walk' = [walk EXCEPT !.next = @ + 1, !.got = @ \o Unseen(@, answer.prns)]
    /\ UNCHANGED <<listing, older, want, drawn, steady>>

-------------------------------------------------------------------------------
(* The list page                                                             *)

\* clampPrnsPage
Clamp(page, count) ==
    CASE count < 1 \/ page < 1         -> 1
      [] count >= 1 /\ page > count    -> count
      [] OTHER                         -> page

Ellipsis == 0
Between(a, b) == [k \in 1 .. (IF b < a THEN 0 ELSE b - a + 1) |-> a + k - 1]

\* buildPageList
PageList(current, count) ==
    LET before == IF current - 1 > 3 THEN <<1, Ellipsis, current - 1>> ELSE Between(1, current - 1)
        after  == IF count - current > 3 THEN <<current + 1, Ellipsis, count>>
                  ELSE Between(current + 1, count)
    IN before \o <<current>> \o after

StartWalk ==
    /\ walk' = [Resting EXCEPT !.next = 1]
    /\ steady' = {n \in listing \cap older : PlaceIn(n, listing) = PlaceIn(n, older)}
    /\ UNCHANGED <<listing, older>>

\* A list page is asked for, with any page number and size.
Open ==
    /\ ~Walking
    /\ \E page \in 1 .. NoteBound + 1, size \in ListSizes :
        want' = [page |-> page, size |-> size, came |-> 0, posted |-> FALSE]
    /\ drawn' = NoList
    /\ StartWalk

\* The list's form is sent with nothing ticked, to the address it was drawn at: the
\* notes are read anew for it.  (With something ticked nothing of them is drawn: what is
\* selected is BulkAccept's.)
PostNothing ==
    /\ ~Walking /\ drawn.rows # <<>>
    /\ want' = [page |-> drawn.page, size |-> drawn.size, came |-> 0, posted |-> TRUE]
    /\ drawn' = NoList
    /\ StartWalk

Matching == EntriesAt(walk.got, {i \in DOMAIN walk.got : walk.got[i] \in Acceptable})

\* Slip: the page after the last is asked for instead.
BugValidPage(page, count) == Clamp(page, count + 1)

ValidPage(page, count) == Clamp(page, count)

\* loadAwaitingAcceptancePrns' cut and the list handlers: an empty page beyond the
\* end redirects to the last that can hold rows, which is loaded anew.  The list drawn
\* with the error of a post is never redirected.
AnswerList ==
    LET total == Len(Matching)
        rows  == Slice(Matching, want.page, want.size)
        valid == ValidPage(want.page, Ceil(total, want.size))
    IN /\ Walking /\ walk.next > 1 /\ walk.next > walk.count
       /\ IF ~want.posted /\ rows = <<>> /\ total > 0 /\ valid # want.page
          THEN /\ want' = [page |-> valid, size |-> want.size, came |-> want.page, posted |-> FALSE]
               /\ StartWalk
               /\ UNCHANGED drawn
          ELSE /\ drawn' = [rows |-> rows, total |-> total, page |-> want.page, size |-> want.size,
                            posted |-> want.posted]
               /\ want' = NoWish /\ walk' = Resting /\ steady' = {}
               /\ UNCHANGED <<listing, older>>

\* A note is issued, or accepted, rejected or cancelled by someone; the caches age.
Changes(l) ==
    /\ listing' = l
    /\ older' = listing
    /\ steady' = {n \in steady \cap l : PlaceIn(n, l) = PlaceIn(n, listing)}
    /\ UNCHANGED <<want, walk, drawn>>

NotesChange == Walking /\ \E n \in Notes : Changes(IF n \in listing THEN listing \ {n} ELSE listing \cup {n})

\* A page of the API cannot be read: the whole list is an error page.
Fail ==
    /\ Walking
    /\ want' = NoWish /\ walk' = Resting /\ steady' = {}
    /\ UNCHANGED <<listing, older, drawn>>

ListNext == FetchFirst \/ FetchLater \/ Open \/ PostNothing \/ AnswerList \/ Fail \/ NotesChange

ListSpec == ListInit /\ [][ListNext]_listVars

-------------------------------------------------------------------------------

\* However the API's pages overlap, a note stands once in the list: its total counts
\* the rows and no row can be ticked twice.  And a note that keeps its place is never
\* lost from it, whatever is issued or taken behind it, and whatever page size the API
\* cuts its answers at.
NotesListedOnce ==
    /\ IsInjective(walk.got)
    /\ Walking /\ walk.next > 1 /\ walk.next > walk.count => steady \subseteq ToSet(walk.got)

\* Every row can be reached.  A redirect beyond the end goes to an earlier page, so
\* redirects end however the listing shrinks meanwhile; a page is drawn without rows
\* only if the whole list has none, or as the answer to a form sent with nothing ticked,
\* which the code does not redirect; and the links built for a page, such a one too, lead
\* to the first and the last page and both neighbours, each once and in order, with an
\* ellipsis for two pages or more.  (The template draws them with the table: not for a
\* page without rows unless the list is filtered by material.)
RowsReached ==
    LET count   == Ceil(drawn.total, drawn.size)
        current == Clamp(drawn.page, count)
        links   == PageList(current, count)
        linked  == {p \in ToSet(links) : p # Ellipsis}
    IN /\ want.came > 0 => want.page < want.came
       /\ drawn.rows = <<>> => drawn.total = 0 \/ drawn.posted
       /\ count > 1 =>
          /\ {1, count, current} \cup ({current - 1, current + 1} \cap (1 .. count)) \subseteq linked
          /\ linked \subseteq 1 .. count
          /\ \A i \in 1 .. Len(links) - 1 :
                IF links[i + 1] = Ellipsis
                THEN links[i + 2] - links[i] > 2
                ELSE links[i] = Ellipsis \/ links[i + 1] = links[i] + 1
===============================================================================
