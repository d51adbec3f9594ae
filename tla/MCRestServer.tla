---------------------------- MODULE MCRestServer ----------------------------
EXTENDS RestServer

(* Two tokens of one chain, one of another, and a yield token on top of    *)
(* the first: it is found by its own address and by that of the first.     *)
T1 == [chain |-> "ETH", addr |-> "a1", inner |-> "a1"]
T2 == [chain |-> "ETH", addr |-> "a2", inner |-> "a2"]
T3 == [chain |-> "SOL", addr |-> "a3", inner |-> "a3"]
Y1 == [chain |-> "ETH", addr |-> "y1", inner |-> "a1"]

MCTokens == {T1, T2, T3, Y1}

MCFirstLists ==
  [l \in Lists |-> CASE l = "swap" -> {T1, T3}
                     [] l = "pool" -> {T1, T2}
                     [] l = "yield" -> {Y1}]

MCEvmChains == {"ETH"}
=============================================================================
