------------------------------- MODULE Amounts -------------------------------
(***************************************************************************)
(* Amounts as the CLI and the terminal UI handle them                      *)
(* (cli/internal/cli/tui.go): a human amount is two strings of digits, one *)
(* before and one after the point, and a base amount is one string.        *)
(***************************************************************************)
EXTENDS Integers, Sequences, SequencesExt

Digits == 0..9

(* A human amount that validHumanAmount lets through, as humanToBase       *)
(* splits it at the first point: it has a digit that is not zero.          *)
ValidHumanAmount(human) ==
  \E i \in DOMAIN human.int \cup DOMAIN human.frac :
    \/ i \in DOMAIN human.int /\ human.int[i] # 0
    \/ i \in DOMAIN human.frac /\ human.frac[i] # 0

(* strings.TrimLeft(s, "0") *)
TrimLeft(digits) ==
  LET zero == {i \in 0..Len(digits) : \A j \in 1..i : digits[j] = 0}
      n == CHOOSE i \in zero : \A j \in zero : j <= i
  IN SubSeq(digits, n + 1, Len(digits))

(* strings.TrimRight(s, "0") *)
TrimRight(digits) == Reverse(TrimLeft(Reverse(digits)))

Zeros(n) == [i \in 1..n |-> 0]

(* Seeded fault: a fraction that is too long is not cut. *)
HumanToBaseUncut(human, decimals) ==
  LET filled == human.int \o human.frac \o Zeros(decimals - Len(human.frac))
  IN IF TrimLeft(filled) = <<>> THEN <<0>> ELSE TrimLeft(filled)

(* The fraction is cut or filled to the decimals of the token. *)
HumanToBase(human, decimals) ==
  LET frac == IF Len(human.frac) > decimals
              THEN SubSeq(human.frac, 1, decimals)
              ELSE human.frac \o Zeros(decimals - Len(human.frac))
      combined == TrimLeft(human.int \o frac)
  IN IF combined = <<>> THEN <<0>> ELSE combined

BaseToHuman(base, decimals) ==
  IF base = <<>> \/ decimals <= 0 THEN [int |-> base, frac |-> <<>>]
  ELSE LET b == IF Len(base) <= decimals
                THEN Zeros(decimals - Len(base) + 1) \o base ELSE base
           cut == Len(b) - decimals
       IN [int |-> SubSeq(b, 1, cut), frac |-> TrimRight(SubSeq(b, cut + 1, Len(b)))]

-----------------------------------------------------------------------------

(* What the strings mean: a number, digit by digit, and a number over a    *)
(* power of ten.                                                           *)
PrefixValues(digits) ==
  LET value[n \in 0..Len(digits)] ==
        IF n = 0 THEN 0 ELSE 10 * value[n - 1] + digits[n]
  IN value

Number(digits) == PrefixValues(digits)[Len(digits)]

Scaled(human, places) ==
  Number(human.int \o human.frac \o Zeros(places - Len(human.frac)))
=============================================================================
