----------------------------- MODULE MCApiClient -----------------------------
(***************************************************************************)
(* Two calls of one server process, at any distance of each other.  A unit *)
(* is about seven seconds; the proportions of the defaults (30 s in all,   *)
(* 10 s an attempt, 5 s a check, a buffer of 60 s) are kept roughly.       *)
(***************************************************************************)
EXTENDS ApiClient

CONSTANTS c1, c2

MCCalls == {c1, c2}

\* Reads and writes beside each other and beside the checks.
MCMixes ==
    {[c \in MCCalls |-> IF c = c1 THEN m[1] ELSE m[2]] :
        m \in {<<"read", "write">>, <<"read", "apiHealth">>, <<"write", "accountHealth">>,
               <<"apiHealth", "accountHealth">>, <<"accountHealth", "plainHealth">>}}
===============================================================================
