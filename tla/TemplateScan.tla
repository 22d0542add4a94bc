----------------------------- MODULE TemplateScan -----------------------------
(***************************************************************************)
(* Which texts a page shows, as the export finds them by reading the       *)
(* page's templates (scripts/translations/translation-utils.js), and as    *)
(* the template engine would draw them.                                    *)
(*                                                                         *)
(* Templates are a function from files to what stands in them: the file    *)
(* they extend, the macros they import, their blocks, and what stands      *)
(* outside of blocks, which for a macro or an included file is all of it.  *)
(* Where in a file a text stands is left out, and so are the templates of  *)
(* govuk-frontend, which hold no texts of this service. A macro called in  *)
(* the midst of an expression, in another call's arguments say, is not put *)
(* in by the scan; the calls here are those that stand alone, and the      *)
(* macros called otherwise (a flash label, the PDF button, the logos) are  *)
(* handed their texts by the page.                                         *)
(***************************************************************************)
EXTENDS Sequences, SequencesExt

CONSTANT NoFile

Nothing == [texts |-> {}, calls |-> {}, includes |-> {}, opens |-> {}]

Join(a, b) == [f \in DOMAIN a |-> a[f] \cup b[f]]
JoinAll(pieces) == [f \in DOMAIN Nothing |-> UNION {p[f] : p \in pieces}]

\* findBlockRegions: the blocks that stand in no other.
OuterBlocks(file) ==
    DOMAIN file.blocks \ UNION {file.blocks[b].opens : b \in DOMAIN file.blocks}

\* loadExtendsChain: the page first, the layout last; a file is read once.
RECURSIVE Chain(_, _, _)
Chain(site, f, seen) ==
    IF f = NoFile \/ f \in seen THEN <<>>
    ELSE <<f>> \o Chain(site, site[f].extends, seen \cup {f})

-------------------------------------------------------------------------------
(* Reading: blocks are places <<file, block>>                                *)

Body(site, place) == site[place[1]].blocks[place[2]]
OpenedIn(site, place) == {<<place[1], b>> : b \in Body(site, place).opens}

RECURSIVE Within(_, _)
Within(site, places) ==
    IF places = {} THEN {}
    ELSE places \cup Within(site, UNION {OpenedIn(site, p) : p \in places})

\* applyBlockOverrides, one child after the other: the outermost blocks of the text
\* are taken over by the child's of that name, and lose their tags either way; those
\* within them are outermost for the next.
RECURSIVE BlockBodies(_, _, _, _)
BlockBodies(site, rest, done, open) ==
    IF rest = <<>>
    THEN done \cup Within(site, open)
    ELSE LET child == Last(rest)
             taken == {IF p[2] \in OuterBlocks(site[child]) THEN <<child, p[2]>> ELSE p : p \in open}
         IN BlockBodies(site, Front(rest), done \cup taken,
                        UNION {OpenedIn(site, p) : p \in taken})

\* inlineTemplateReferences: the imported files, then the included ones, each read by
\* itself and at most once for the whole page; then the calls of the macros that were
\* read here, in the order of their imports (inlineMacroCalls).
RECURSIVE Inlined(_, _, _, _)
RECURSIVE ReadEach(_, _, _)
Inlined(site, text, imports, visited) ==
    LET macros   == ReadEach(site, imports, visited)
        included == ReadEach(site, SetToSeq(text.includes), macros.visited)
        whole    == FoldLeft(LAMBDA acc, f : Join(acc, f.text), text, included.read)
    IN [text    |-> FoldLeft(LAMBDA acc, f : IF f.name \in acc.calls THEN Join(acc, f.text) ELSE acc,
                             whole, macros.read),
        visited |-> included.visited]
ReadEach(site, names, visited) ==
    IF names = <<>> THEN [read |-> <<>>, visited |-> visited]
    ELSE IF Head(names) \in visited THEN ReadEach(site, Tail(names), visited)
    ELSE LET f     == Head(names)
             found == Inlined(site, site[f].top, site[f].imports, visited \cup {f})
             rest  == ReadEach(site, Tail(names), found.visited)
         IN [read    |-> <<[name |-> f, text |-> found.text]>> \o rest.read,
             visited |-> rest.visited]

\* extractTopLevelTemplateContent: the texts that children set outside of their blocks.
SetOutside(site, chain) == UNION {site[f].top.texts : f \in ToSet(Front(chain))}

\* buildUsageOrderedTemplateSource: the layout with the blocks filled in, the macros
\* and included files put in, and what the children set outside of blocks.
Scanned(site, page) ==
    LET chain  == Chain(site, page, {})
        layout == site[Last(chain)]
        places == BlockBodies(site, Front(chain), {}, {<<Last(chain), b>> : b \in OuterBlocks(layout)})
        source == JoinAll({layout.top} \cup {Body(site, p) : p \in places})
        imports == FlattenSeq([i \in DOMAIN chain |-> site[chain[i]].imports])
    IN Inlined(site, source, imports, ToSet(chain)).text.texts
         \cup SetOutside(site, chain)

-------------------------------------------------------------------------------
(* Drawing, as Nunjucks does                                                 *)

\* A block is drawn as the first file of the chain that has it has it.
Drawn(site, chain, b) ==
    LET having == {i \in DOMAIN chain : b \in DOMAIN site[chain[i]].blocks}
    IN <<chain[CHOOSE i \in having : \A j \in having : i <= j], b>>

RECURSIVE DrawnWithin(_, _, _)
DrawnWithin(site, chain, blocks) ==
    LET places == {Drawn(site, chain, b) : b \in blocks}
    IN IF blocks = {} THEN {}
       ELSE places \cup DrawnWithin(site, chain, UNION {Body(site, p).opens : p \in places})

DrawnText(site, page) ==
    LET chain  == Chain(site, page, {})
        layout == site[Last(chain)]
    IN JoinAll({layout.top} \cup {Body(site, p) : p \in DrawnWithin(site, chain, OuterBlocks(layout))}
                 \cup {[Nothing EXCEPT !.texts = SetOutside(site, chain)]})

RECURSIVE Reached(_, _)
Reached(next, files) ==
    LET more == UNION {next[f] : f \in files}
    IN IF more \subseteq files THEN files ELSE Reached(next, files \cup more)

UsedBy(site, page) ==
    LET text == DrawnText(site, page)
    IN Reached([f \in DOMAIN site |-> site[f].top.calls \cup site[f].top.includes],
               text.calls \cup text.includes)

Shown(site, page) ==
    DrawnText(site, page).texts \cup UNION {site[f].top.texts : f \in UsedBy(site, page)}

-------------------------------------------------------------------------------

\* The macros a text calls, itself or through the files it includes.
CalledBy(site, text) ==
    text.calls \cup UNION {site[f].top.calls :
                             f \in Reached([g \in DOMAIN site |-> site[g].top.includes], text.includes)}

\* The files read because these are.
ReadThrough(site, files) ==
    Reached([f \in DOMAIN site |-> ToSet(site[f].imports) \cup site[f].top.includes], files)

\* The scan reads as the engine draws as long as a template overrides no block but those
\* its parent opens, and what is imported and not called brings in nothing the page uses.
Conventional(site, page) ==
    LET chain == Chain(site, page, {})
        used  == UsedBy(site, page)
        Idle(f, text) == ToSet(site[f].imports) \ CalledBy(site, text)
    IN /\ \A i \in 1 .. Len(chain) - 2 :
             DOMAIN site[chain[i]].blocks \cap UNION {DOMAIN site[chain[j]].blocks : j \in i + 2 .. Len(chain)} = {}
       /\ \A f \in ToSet(chain) :
             ReadThrough(site, Idle(f, DrawnText(site, page))) \cap used = {}
       /\ \A f \in used : ReadThrough(site, Idle(f, site[f].top)) \cap used = {}

\* What the export finds on a page, what the page shows, and whether it is drawn as usual.
Look(site, page) ==
    [found |-> Scanned(site, page), shown |-> Shown(site, page), usual |-> Conventional(site, page)]
===============================================================================
