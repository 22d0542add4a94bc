----------------------------- MODULE MCServicePages -----------------------------
(***************************************************************************)
(* A small instance of each of the service's parts.  What the pages look   *)
(* like is what TemplateScan finds of any of the sites.                    *)
(***************************************************************************)
EXTENDS ServicePages, TemplateScan, TLC

CONSTANTS about, form, view, cookies, signedOut, packaging, r1, r2, acme, bravo, s1, s2, t1, t2

\* Walking: three pages, one of them a form, and two public ones.
MCPages == {about, form, view}
MCPublicPages == {cookies, signedOut}
MCForms == {form}
MCQueries == {"", "q"}

\* Signing in: two operators; answers of an approved and a basic user, one that leaves
\* the id out, and one that leaves the role out and takes the id away.
MCRequests == {r1, r2}
MCSchemesOf == acme :> {s1} @@ bravo :> {s2}
MCAccounts == {[orgs |-> {acme}, role |-> "approved", id |-> Left, packaging |-> FALSE],
               [orgs |-> {acme, bravo}, role |-> "basic", id |-> "given", packaging |-> TRUE],
               [orgs |-> {bravo}, role |-> Left, id |-> "none", packaging |-> FALSE]}
MCTargets == {[who |-> "producer", id |-> acme, basic |-> FALSE],
              [who |-> "cso", id |-> s2, basic |-> TRUE]}

MCTabs == {t1, t2}

\* A material not met, one met that owes nothing, and one without data.
MCFigures ==
    {[status |-> "NotMet", due |-> 2, got |-> 1, reported |-> TRUE],
     [status |-> "Met", due |-> Dash, got |-> 1, reported |-> FALSE],
     [status |-> "NoDataYet", due |-> 1, got |-> 2, reported |-> TRUE]}

\* Templates.
MCPageOrder == <<"submit", "view">>
MCSlot(t) == [pairs |-> {[own |-> t, shared |-> "shared"]}, chosen |-> FALSE]
MCPiece(texts, calls, includes, opens) ==
    [texts |-> {MCSlot(t) : t \in texts},
     calls |-> calls, includes |-> includes, opens |-> opens]
MCFile(extends, imports, top, blocks) ==
    [extends |-> extends, imports |-> imports, top |-> top, blocks |-> blocks]
MCMacro(text, imports, calls) ==
    MCFile(NoFile, imports, MCPiece({text}, calls, {}, {}), <<>>)
MCSite(submit, step, layout, n, part_) ==
    "submit" :> submit @@ "step" :> step @@ "layout" :> layout @@
    "view" :> MCFile("layout", <<>>, Nothing, "content" :> MCPiece({"shared"}, {}, {}, {})) @@
    "m" :> MCMacro("m", <<>>, {}) @@ "n" :> n @@ "part" :> part_

\* A layout with a footer and a note in it, a middle template with a block of its own, a page that extends
\* either, two macros, one of which may use the other, and an included file.
MCLayouts ==
    {MCFile(NoFile, imports, MCPiece({}, {}, includes, {}),
            "content" :> Nothing @@ "footer" :> MCPiece({"foot"}, calls, {}, {"note"})
              @@ "note" :> MCPiece({"note"}, {}, {}, {})) :
        imports \in {<<>>, <<"m">>}, calls \in SUBSET {"m"}, includes \in SUBSET {"part"}}
MCSteps ==
    {MCFile("layout", imports, Nothing,
            "content" :> MCPiece({"step"}, calls, {}, {"lead"}) @@ "lead" :> MCPiece({"lead"}, {}, {}, {})) :
        imports \in {<<>>, <<"n">>}, calls \in SUBSET {"n"}}
MCSubmits ==
    {MCFile(extends, imports, MCPiece({"set"}, {}, {}, {}), block :> MCPiece({"own"}, calls, includes, {})) :
        extends \in {"layout", "step"}, block \in {"content", "lead", "footer"},
        imports \in {<<>>, <<"m">>, <<"n">>, <<"m", "n">>, <<"n", "m">>},
        calls \in SUBSET {"m", "n"}, includes \in SUBSET {"part"}}
MCMacros(text, uses) == {MCMacro(text, <<>>, {})} \cup {MCMacro(text, <<u>>, c) : u \in uses, c \in SUBSET uses}

\* A macro is imported where it is called.
MCImported(file) ==
    (file.top.calls \cup UNION {file.blocks[b].calls : b \in DOMAIN file.blocks}) \subseteq ToSet(file.imports)
MCFilesOf(files) == {f \in files : MCImported(f)}

\* The site of the other parts: a page with a text of its own, and one whose component
\* shows either of two texts, one with a key of the page's own and one with a shared key.
MCChosen ==
    [pairs |-> {[own |-> "own", shared |-> "other"], [own |-> "ownOther", shared |-> "shared"]},
     chosen |-> TRUE]
MCPlainSite ==
    [MCSite(MCFile("layout", <<>>, Nothing, "content" :> MCPiece({"own"}, {}, {}, {})),
            MCFile("layout", <<>>, Nothing, <<>>),
            MCFile(NoFile, <<>>, Nothing, "content" :> Nothing),
            MCMacro("n", <<>>, {}), MCMacro("part", <<>>, {}))
     EXCEPT !["view"].blocks = "content" :> [Nothing EXCEPT !.texts = {MCChosen}]]
\* What no file of the page reads is left as it is.
MCRead(file) == UNION {file.blocks[b].includes : b \in DOMAIN file.blocks} \cup file.top.includes
MCSites ==
    {MCPlainSite} \cup
    {MCSite(submit, step, layout, n, part_) :
        <<submit, step, layout, n, part_>> \in
            {f \in MCFilesOf(MCSubmits) \X MCFilesOf(MCSteps) \X MCFilesOf(MCLayouts)
                      \X MCFilesOf(MCMacros("n", {"m"})) \X MCFilesOf(MCMacros("part", {"m", "n"})) :
                /\ f[1].extends = "step" \/ f[2].imports = <<>>
                /\ "part" \in MCRead(f[1]) \cup MCRead(f[3]) \/ f[5].imports = <<>>
                /\ \/ "n" \in ToSet(f[1].imports) \cup ToSet(f[2].imports) \cup ToSet(f[5].imports)
                   \/ f[4].imports = <<>>}}

\* The matrix names a text for one of the pages.
MCMatrixKeys == "submit" :> {} @@ "view" :> {"own"}

\* A year left out, asked for, translated by mistake, and written with spaces.
MCHole(name, plain) == [name |-> name, plain |-> plain]
MCEnglish == {[words |-> "en", holes |-> h] : h \in {{}, {MCHole("year", TRUE)}}}
MCWelsh ==
    {[words |-> "cy", holes |-> {h}] :
        h \in {MCHole("year", TRUE), MCHole("blwyddyn", TRUE), MCHole("year", FALSE)}}
===============================================================================
