SPECIFICATION PartsSpec
CONSTANTS
    about = about
    form = form
    view = view
    cookies = cookies
    signedOut = signedOut
    packaging = packaging
    r1 = r1
    r2 = r2
    acme = acme
    bravo = bravo
    s1 = s1
    s2 = s2
    t1 = t1
    t2 = t2
    Pages <- MCPages
    PublicPages <- MCPublicPages
    Forms <- MCForms
    Queries <- MCQueries
    Packaging = packaging
    Landing = view
    MaxHistory = 3
    Requests <- MCRequests
    Accounts <- MCAccounts
    SchemesOf <- MCSchemesOf
    Targets <- MCTargets
    Gone = Gone
    Nobody = Nobody
    Nowhere = Nowhere
    Unknown = Unknown
    Notes = {1, 2, 3, 4, 5}
    Acceptable = {1, 2, 3, 4, 5}
    FetchSize = 3
    ApiSize = 2
    ListSizes = {1, 2}
    Tabs <- MCTabs
    Year = 2026
    Months = {12, 13, 14, 25}
    Figures <- MCFigures
    Named = {"Paper", "Glass", "GlassRemelt"}
    MaxDeclared = 2
    Keys = {"own", "shared"}
    PageOrder <- MCPageOrder
    Sites <- MCSites
    LookOf <- Look
    MatrixKeys <- MCMatrixKeys
    PlainSite <- MCPlainSite
    NoFile = NoFile
    English <- MCEnglish
    Welsh <- MCWelsh
    MaxEdits = 2
INVARIANTS
    PartsTypeOK
    OnePlacePerPage
    SubmittedFormNotBehind
    NoBackLoop
    DecidedAsOfNow
    LandsWhereMeant
    NotesListedOnce
    RowsReached
    RunsOnlyAccepted
    CookiesGoWithTheTags
    TilesKeepTheDeadline
    TablesAddUp
    PlaceholdersSurvive
    
CHECK_DEADLOCK FALSE
