-------------------------- MODULE MCComplianceSubmit --------------------------
EXTENDS ComplianceSubmit, TLC

CONSTANTS u1, u2, t1, t2

\* Two users of one organisation, with a tab each.
MCUser   == {u1, u2}
MCTab    == {t1, t2}
MCUserOf == (t1 :> u1) @@ (t2 :> u2)
===============================================================================
