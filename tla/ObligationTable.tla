---------------------------- MODULE ObligationTable ----------------------------
(***************************************************************************)
(* The tables of what is owed and met, by material, that the obligations   *)
(* pages and the certificates and statements draw: certificate-submit/     *)
(* obligation-presenter.js, and the calculation of one material's          *)
(* obligation (material-calculation-view-model.js).                        *)
(*                                                                         *)
(* The API's obligations are a function from the materials it has figures  *)
(* for.  Of the four tonnages two pairs are treated alike: `due` stands    *)
(* for what is to be met and outstanding, `got` for what is accepted and   *)
(* awaits acceptance.  Order and names of the rows are left out.           *)
(***************************************************************************)
EXTENDS Integers, FiniteSetsExt

Glassy == {"GlassRemelt", "Glass"}

\* No figure: the table shows a dash.
Dash == -1

\* A figure the API may leave out.
Amount(x) == IF x = Dash THEN 0 ELSE x

\* nullableTonnage and toRow
ToRow(o) ==
    [due |-> IF o.status = "NoDataYet" THEN Dash ELSE o.due, got |-> o.got, status |-> o.status]

\* glassRow: glass the API has no figures for owes nothing and has met it.
GlassRow(list, m) ==
    IF m \in DOMAIN list THEN ToRow(list[m]) ELSE [due |-> 0, got |-> 0, status |-> "Met"]

\* deriveOverallStatus
OverallStatus(rows) ==
    LET statuses == {rows[m].status : m \in DOMAIN rows}
    IN CASE "NotMet" \in statuses                            -> "NotMet"
         [] "NotMet" \notin statuses /\ "Met" \in statuses   -> "Met"
         [] OTHER                                            -> "NoDataYet"

\* reduce over the rows' tonnages.
Added(tonnages) == MapThenSumSet(LAMBDA m : tonnages[m], DOMAIN tonnages)

\* sumRows, with the status of the row it becomes: a sum of nothing but dashes is a
\* dash where the page asks for it.
SumOf(rows, dashes) ==
    [due    |-> IF dashes /\ \A m \in DOMAIN rows : rows[m].due = Dash
                THEN Dash
                ELSE Added([m \in DOMAIN rows |-> Amount(rows[m].due)]),
     got    |-> Added([m \in DOMAIN rows |-> rows[m].got]),
     status |-> OverallStatus(rows)]

GlassRows(list) == [m \in Glassy |-> GlassRow(list, m)]

\* Slip: remaining glass is left in the main table, beside the row that sums it.
BugMainRows(list, dashes) ==
    [m \in (DOMAIN list \ {"GlassRemelt"}) \cup {"GlassAggregate"} |->
        IF m = "GlassAggregate" THEN SumOf(GlassRows(list), dashes) ELSE ToRow(list[m])]

\* The main table has one row for both kinds of glass.
MainRows(list, dashes) ==
    [m \in (DOMAIN list \ Glassy) \cup {"GlassAggregate"} |->
        IF m = "GlassAggregate" THEN SumOf(GlassRows(list), dashes) ELSE ToRow(list[m])]

\* The totals rows; that of the main table holds the overall status.
Totals(list, dashes) == SumOf(MainRows(list, dashes), dashes)
GlassTotals(list, dashes) == SumOf(GlassRows(list), dashes)

\* buildObligationTables: the tables of the obligations page.
HomeTables(list) == [main |-> MainRows(list, TRUE), glass |-> GlassRows(list)]

\* standardCalculation and glassCalculation: the obligation a material's page
\* explains, nothing when no waste was reported.
Calculation(list, slug) ==
    LET raw(m)   == IF m \in DOMAIN list THEN Amount(list[m].due) ELSE 0
        waste(m) == m \in DOMAIN list /\ list[m].reported
    IN IF slug = "glass"
       THEN IF waste("Glass") THEN raw("GlassRemelt") + raw("Glass") ELSE Dash
       ELSE IF waste(slug) THEN raw(slug) ELSE Dash
===============================================================================
