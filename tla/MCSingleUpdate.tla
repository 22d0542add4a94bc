---------------------------- MODULE MCSingleUpdate ----------------------------
EXTENDS SingleUpdate

CONSTANTS p, t

\* One note and one tab: to it, another tab is one more of the others who accept.
MCPrn    == {p}
MCTab    == {t}
MCNoteOf == [u \in MCTab |-> p]

\* Either December waste or a standard note.
MCNone == {}

\* From the last month of 2027 alone, over the two of the choice, to 2028 alone.
MC2027   == [q \in MCPrn |-> 2027]
MCWinter == MonthIndex(2027, December) - 1 .. MonthIndex(2028, February)

\* The month in which a standard note of 2027 is closed.
MCFebruary == {MonthIndex(2028, February)}

\* 2025 December waste moves from 2025 to 2026 when January 2026 ends.
MC2025        == [q \in MCPrn |-> 2025]
MCJanuary2026 == {MonthIndex(2026, January)}

MCEitherStep == {0, 1}
===============================================================================
