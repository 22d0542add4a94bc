----------------------------- MODULE MCBulkAccept -----------------------------
EXTENDS BulkAccept, TLC

CONSTANTS p1, p2, t1, t2

\* A standard note and a December waste note of the same year.
MCPrn           == {p1, p2}
MCDecemberWaste == {p2}
MCIssuedYear    == [p \in MCPrn |-> 2027]

\* November, when both are accepted into 2027: December opens the choice.
MCNovember == {MonthIndex(2027, December) - 1}

\* ... and January and February, when the December waste is accepted into 2028.
MCWinter == MCNovember \cup {MonthIndex(2028, January), MonthIndex(2028, February)}

MCNone == {}

MCOneTab  == {t1}
MCTwoTabs == {t1, t2}
MCQueryYears == {2027}
MCBothYears  == {2027, 2028}

MCEitherStep == {0, 1}
MCOneMonth   == {1}

\* With two tabs both notes are December waste, so that they can be exchanged too.
MCSymmetry == Permutations(MCTwoTabs) \cup Permutations(MCPrn)

TabSymmetry == Permutations(MCTwoTabs)
===============================================================================
