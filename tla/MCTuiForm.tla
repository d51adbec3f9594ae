----------------------------- MODULE MCTuiForm ------------------------------
EXTENDS TuiSend, TLC

CONSTANTS m1, m2, native, stable

(* Two options, one of them with two fee methods; one option without any;  *)
(* no option.                                                              *)
MCCoreQuotes ==
  {<<[messenger |-> m1, fees |-> <<native>>], [messenger |-> m2, fees |-> <<stable, native>>]>>,
   <<[messenger |-> m2, fees |-> <<>>]>>,
   <<>>}

(* Two routes of two messengers; a single route. *)
MCNextQuotes ==
  {<<[messenger |-> m1, fees |-> <<>>], [messenger |-> m2, fees |-> <<>>]>>,
   <<[messenger |-> m2, fees |-> <<>>]>>}

CONSTANTS c1, c2, n1, n2, n3

(* Two tokens of one symbol on a chain, and one on another. *)
MCRefOf ==
  [t \in {c1, n1, n3} |-> "SOL:USDC"] @@ [t \in {c2, n2} |-> "ETH:USDC"]
    @@ NoToken :> ":"

MCListing == <<n1, n2, n3>>
=============================================================================
