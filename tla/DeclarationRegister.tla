-------------------------- MODULE DeclarationRegister --------------------------
(***************************************************************************)
(* What submitting promises about the declarations of one organisation and *)
(* one year, whoever submits and whatever becomes of the answers: each     *)
(* time someone finds that nothing is submitted, at most one declaration   *)
(* may follow, and none follows a finding that something is.  So a second  *)
(* declaration needs a finding older than the first.                       *)
(***************************************************************************)
EXTENDS Sequences, Naturals

CONSTANT Permit     \* the findings that may be outstanding at a time

VARIABLES
    register,   \* the statuses of the declarations, in the order they were made
    permits     \* the findings no declaration has followed yet

SomeStands(ds) == \E i \in DOMAIN ds : ds[i] \in {"Submitted", "Accepted"}

Find(k) ==
    /\ ~SomeStands(register) /\ k \notin permits
    /\ permits' = permits \cup {k}
    /\ UNCHANGED register

Declare(k) ==
    /\ k \in permits
    /\ register' = Append(register, "Submitted")
    /\ permits' = permits \ {k}

Forgo(k) ==
    /\ k \in permits
    /\ permits' = permits \ {k}
    /\ UNCHANGED register

\* A request its sender gave up on may be carried out all the same.
HandOn(k, l) ==
    /\ k \in permits /\ l \notin permits
    /\ permits' = (permits \ {k}) \cup {l}
    /\ UNCHANGED register

Regulate(i) ==
    /\ register[i] \in {"Submitted", "Accepted"}
    /\ \E s \in {"Accepted", "Cancelled"} : register' = [register EXCEPT ![i] = s]
    /\ UNCHANGED permits

RegisterInit == register = <<>> /\ permits = {}

RegisterNext ==
    \/ \E k \in Permit : Find(k) \/ Declare(k) \/ Forgo(k)
    \/ \E k, l \in Permit : HandOn(k, l)
    \/ \E i \in DOMAIN register : Regulate(i)

RegisterSpec == RegisterInit /\ [][RegisterNext]_<<register, permits>>
===============================================================================
