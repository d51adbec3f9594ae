----------------------------- MODULE KeystoreAbs -----------------------------
(***************************************************************************)
(* What the keystore promises its user: one store that every command reads *)
(* and replaces in a single step.                                          *)
(***************************************************************************)
EXTENDS KeystoreOps

VARIABLE store

Init == store = EmptyStore

Execute(c) == store' \in Outcomes(store, c)

Next == \E c \in Commands : Execute(c)

Spec == Init /\ [][Next]_store
=============================================================================
