----------------------------- MODULE MCKeystore -----------------------------
EXTENDS Keystore, TLC

CONSTANTS a, b, none, i1, i2, i3

(* What a user types as a name may be empty. *)
AnyNames == {a, b, none}
TwoNames == {a, b}

ThreeInodes == {i1, i2, i3}

Posix == {TRUE}
Both == {TRUE, FALSE}
=============================================================================
