----------------------------- MODULE MCAppKeys -----------------------------
(***************************************************************************)
(* Small instances of AppKeys for TLC.                                     *)
(***************************************************************************)
EXTENDS AppKeys, TLC

\* Config entries without and with an allow list.
Unscoped == [k \in Provisioned |-> NoScope]
Scoped == [k \in Provisioned |-> [m |-> "m1", p |-> All]]

\* PATCH bodies: no scope field, one of them, or one cleared.
NoFields == {NoWant}
SetModels == {[m |-> "m1", p |-> Unset]}
ClearModels == {[m |-> All, p |-> Unset]}
Unrestricted == {NoScope}
Restricted == {[m |-> All, p |-> "m1"]}

ThreadSymmetry == Permutations(Threads)
=============================================================================
