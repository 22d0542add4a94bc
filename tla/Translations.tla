----------------------------- MODULE Translations -----------------------------
(***************************************************************************)
(* The Welsh texts: exported to one workbook per page, filled in by        *)
(* translators, imported again (scripts/translations), and shown           *)
(* (common/helpers/i18n/translate.js).                                     *)
(*                                                                         *)
(* A text is its words and its placeholders, each plain ({{year}}) or      *)
(* written otherwise, with spaces in it or encoded braces.  A slot is a    *)
(* place of a page where a text stands.  It has a pair of keys: a          *)
(* component's text may have a key of the page's own, else it has the      *)
(* shared one; any other text has the one key twice.  A chosen slot has    *)
(* the pairs of all the texts of its component, of which the page shows    *)
(* the one that its handler names.  What the export finds on a page and    *)
(* what the page shows is TemplateScan's; here it is given.  Order, notes  *)
(* and layout of the workbooks are left out.                               *)
(***************************************************************************)
EXTENDS Integers, Sequences, FiniteSets

CONSTANTS
    Keys,      \* the translation keys
    PageOrder, \* the pages, in the order of the page matrix
    Sites,     \* the templates, by their files
    LookOf(_, _), \* of a site and a page: the slots found and shown, [pairs, chosen]
    MatrixKeys, \* of a page: the keys the matrix itself gives it
    English,   \* texts developers write: [words, holes], a hole [name, plain]
    Welsh,     \* texts translators write
    MaxEdits   \* bound: the developers' edits

NoText == [words |-> "", holes |-> {}]
Books == {PageOrder[i] : i \in DOMAIN PageOrder}

ASSUME TranslationAssumption ==
    /\ PageOrder \in Seq(Books)
    /\ \A i, j \in DOMAIN PageOrder : PageOrder[i] = PageOrder[j] => i = j
    /\ \A site \in Sites : Books \subseteq DOMAIN site
    /\ MatrixKeys \in [Books -> SUBSET Keys]
    /\ English \cap Welsh = {} /\ NoText \notin English \cup Welsh
    /\ English # {} /\ MaxEdits \in Nat

VARIABLES
    en,       \* en.json
    cy,       \* cy.json
    looks,    \* what the export finds on the pages, and what they show
    listed,   \* the pages the matrix lists
    books,    \* the workbooks of the repository
    returned, \* the workbooks that came back from the translators
    edits,    \* the developers' edits so far
    \* For the properties: the books are as exported from the present texts; the keys
    \* whose English has not changed since their Welsh was imported.
    inStep, current

translationVars == <<en, cy, looks, listed, books, returned, edits, inStep, current>>

Texts == English \cup Welsh
FunctionsTo(S) == UNION {[ks -> S] : ks \in SUBSET Keys}
Rows == FunctionsTo([english : English, welsh : Welsh \cup English \cup {NoText}])
NoRows == [k \in {} |-> NoText]

TranslationTypeOK ==
    /\ en \in FunctionsTo(English) /\ cy \in FunctionsTo(Texts)
    /\ listed \subseteq Books /\ DOMAIN looks = Books
    /\ books \in [Books -> Rows] /\ returned \in [Books -> Rows]
    /\ edits \in 0 .. MaxEdits /\ inStep \in BOOLEAN /\ current \subseteq Keys

TranslationInit ==
    /\ looks \in {[b \in Books |-> LookOf(site, b)] : site \in Sites}
    /\ \E text \in English : en = [k \in Keys |-> text]
    /\ cy = en
    /\ listed = Books
    /\ books = [b \in Books |-> NoRows]
    /\ returned = books
    /\ edits = 0 /\ inStep = FALSE /\ current = {}

-------------------------------------------------------------------------------
(* Which key stands in a slot, and which placeholders in a text              *)

\* resolveComponentLocaleKey, when the page is shown.
ShownKey(pair, welsh) ==
    IF pair.own \in DOMAIN en \/ (welsh /\ pair.own \in DOMAIN cy) THEN pair.own ELSE pair.shared

\* resolveComponentTranslationKey, when the page is exported.
ExportKey(pair) == IF pair.own \in DOMAIN en THEN pair.own ELSE pair.shared

\* listComponentTranslationKeys: the texts of the page's own component, if it has one.
OwnKeys(slot) == {pair.own : pair \in slot.pairs} \cap DOMAIN en
ChosenKeys(slot) ==
    IF OwnKeys(slot) # {} THEN OwnKeys(slot) ELSE {pair.shared : pair \in slot.pairs}

ExportKeys(slot) ==
    IF slot.chosen THEN ChosenKeys(slot) ELSE {ExportKey(pair) : pair \in slot.pairs}

\* getPageTranslationKeys: what the templates name, and what the matrix does
\* (translationKeys, translationKeyPrefixes, the texts right under the localeBase).
KeysOf(b) == (MatrixKeys[b] \cup UNION {ExportKeys(slot) : slot \in looks[b].found}) \cap DOMAIN en

\* extractPlaceholders: by their names, however they are written.
Placeholders(text) == {hole.name : hole \in text.holes}

\* interpolate, when the page is shown: the plain ones alone.
Interpolated(text) == {hole.name : hole \in {h \in text.holes : h.plain}}

-------------------------------------------------------------------------------
(* Exporting                                                                 *)

PlaceOf(b) == CHOOSE i \in DOMAIN PageOrder : PageOrder[i] = b
Before(b) == {a \in listed : PlaceOf(a) < PlaceOf(b)}

\* The first page with a key owns it.
Owned(b) == KeysOf(b) \ UNION {KeysOf(a) : a \in Before(b)}

\* buildTranslationRowsForPage: Welsh that is the English is left blank.
Group(b) ==
    [k \in Owned(b) |->
        [english |-> en[k],
         welsh   |-> IF k \in DOMAIN cy /\ cy[k] # en[k] THEN cy[k] ELSE NoText]]

\* Slip: a workbook counts as unchanged while its English is.
BugUnchanged(rows, group) ==
    DOMAIN rows = DOMAIN group /\ \A k \in DOMAIN rows : rows[k].english = group[k].english

\* workbookMatchesComparisonData
Unchanged(rows, group) == rows = group

\* exportTranslations, page after page; one that fails stops it.  The workbook of a
\* page no longer listed stays.
Export ==
    /\ \E done \in 0 .. Len(PageOrder) :
         LET written == {b \in listed : PlaceOf(b) <= done}
         IN /\ books' = [b \in Books |->
                            IF b \in written /\ ~Unchanged(books[b], Group(b))
                            THEN Group(b) ELSE books[b]]
            /\ inStep' = (inStep \/ written = listed)
    /\ UNCHANGED <<en, cy, looks, listed, returned, edits, current>>

\* The workbooks go to the translators and come back, a few of the texts filled in.
Translate ==
    /\ returned' = books
    /\ UNCHANGED <<en, cy, looks, listed, books, edits, inStep, current>>

FillIn ==
    /\ \E b \in Books : \E k \in DOMAIN returned[b], text \in Welsh :
          returned' = [returned EXCEPT ![b][k].welsh = text]
    /\ UNCHANGED <<en, cy, looks, listed, books, edits, inStep, current>>

-------------------------------------------------------------------------------
(* Importing                                                                 *)

\* The Welsh that a directory of workbooks gives for a key.
Given(dir, k) == {dir[b][k].welsh : b \in {a \in Books : k \in DOMAIN dir[a]}} \ {NoText}

\* rejectConflictingTranslations
Conflicts(dir) == {k \in Keys : Cardinality(Given(dir, k)) > 1}

\* buildWelshTranslations refuses a row of a key that is gone, filled in or not.
GoneFrom(dir) == (UNION {DOMAIN dir[b] : b \in Books}) \ DOMAIN en

\* Slip: the placeholders are counted, not compared.
BugLacking(dir) ==
    {k \in DOMAIN en : \E text \in Given(dir, k) : 
                       Cardinality(Placeholders(text)) < Cardinality(Placeholders(en[k]))}

\* validateTranslatedRowPlaceholders
Lacking(dir) ==
    {k \in DOMAIN en : \E text \in Given(dir, k) :
                          ~(Placeholders(en[k]) \subseteq Placeholders(text))}

\* buildWelshTranslations: the shape is the English, a blank cell keeps what was there.
Merged(dir) ==
    [k \in DOMAIN en |->
        CASE Given(dir, k) # {}                       -> CHOOSE text \in Given(dir, k) : TRUE
          [] Given(dir, k) = {} /\ k \in DOMAIN cy    -> cy[k]
          [] OTHER                                    -> en[k]]

\* Anything wrong with any row, and nothing is imported.
Import(dir) ==
    /\ Conflicts(dir) = {} /\ GoneFrom(dir) = {} /\ Lacking(dir) = {}
    /\ cy' = Merged(dir)
    /\ current' = current \cup {k \in DOMAIN en : Given(dir, k) # {} \/ cy'[k] = en[k]}
    /\ inStep' = (inStep /\ cy' = cy)
    /\ UNCHANGED <<en, looks, listed, books, returned, edits>>

-------------------------------------------------------------------------------
(* The developers                                                            *)

Edit(k) ==
    /\ edits < MaxEdits /\ edits' = edits + 1
    /\ inStep' = FALSE /\ current' = current \ {k}
    /\ \/ \E text \in English :
            en' = [j \in DOMAIN en \cup {k} |-> IF j = k THEN text ELSE en[j]]
       \/ en' = [j \in DOMAIN en \ {k} |-> en[j]]
    /\ UNCHANGED <<cy, looks, listed, books, returned>>

Relist(b) ==
    /\ edits < MaxEdits /\ edits' = edits + 1
    /\ inStep' = FALSE
    /\ listed' = IF b \in listed THEN listed \ {b} ELSE listed \cup {b}
    /\ UNCHANGED <<en, cy, looks, books, returned, current>>

TranslationNext ==
    \/ Export \/ Translate \/ FillIn \/ Import(books) \/ Import(returned)
    \/ \E k \in Keys : Edit(k)
    \/ \E b \in Books : Relist(b)

TranslationSpec == TranslationInit /\ [][TranslationNext]_translationVars

-------------------------------------------------------------------------------

\* A Welsh text names every placeholder its English names, however old the workbook it
\* came from: only a text whose English was changed after it was imported may lack one.
\* The Welsh page then fills in every year and name that the English page fills in, with
\* one exception: a placeholder that the translator wrote with spaces or encoded braces
\* passes the import and is never filled in.
PlaceholdersSurvive ==
    \A k \in current \cap DOMAIN en \cap DOMAIN cy :
        /\ Placeholders(en[k]) \subseteq Placeholders(cy[k])
        /\ \A name \in Interpolated(en[k]) \ Interpolated(cy[k]) :
              \E hole \in cy[k].holes : hole.name = name /\ ~hole.plain

\* The scan of a page's templates finds every slot the page shows.
ScanFindsShown == \A b \in Books : looks[b].usual => looks[b].shown \subseteq looks[b].found

\* Of a chosen slot, the shared text that the page falls back to because its own record
\* has others and not this one: the export takes the record for the whole component.
Overlooked(slot, pair) ==
    slot.chosen /\ pair.own \notin DOMAIN en /\ OwnKeys(slot) # {}

InOneWorkbook(k) == Cardinality({b \in listed : k \in DOMAIN books[b]}) = 1

\* The texts of the slots found, in either language, and those the matrix names.
FoundInOneWorkbook ==
    inStep => \A b \in listed :
        /\ \A slot \in looks[b].found : \A pair \in slot.pairs, welsh \in BOOLEAN :
              ~Overlooked(slot, pair) /\ ShownKey(pair, welsh) \in DOMAIN en
                 => InOneWorkbook(ShownKey(pair, welsh))
        /\ \A k \in MatrixKeys[b] \cap DOMAIN en : InOneWorkbook(k)

\* The workbooks just exported can be imported, and that changes no translation.
ReimportChangesNothing ==
    inStep /\ (\A b \in Books \ listed : books[b] = NoRows) =>
        /\ Conflicts(books) = {} /\ GoneFrom(books) = {}
        /\ Lacking(books) \cap current = {}
        /\ \A k \in DOMAIN en \cap DOMAIN cy : Merged(books)[k] = cy[k]

\* An export carries every text that the slots of a listed page show, in either language,
\* in exactly one workbook, since it finds those slots; and importing it again changes no
\* translation.  Exceptions are a page that is not drawn as usual, a shared text that a
\* chosen slot falls back to past the page's own record, a text that a handler selects
\* and the matrix does not name, a workbook left from a page no longer listed, and a
\* translation its English has outgrown, which makes the import fail.
ExportCarriesAll == ScanFindsShown /\ FoundInOneWorkbook /\ ReimportChangesNothing
===============================================================================
