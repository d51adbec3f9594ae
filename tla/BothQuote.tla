------------------------------ MODULE BothQuote ------------------------------
(***************************************************************************)
(* `bridge quote --api both` (cli/internal/cli/bridge_next.go              *)
(* runBothQuote): two goroutines ask Core and NEXT for a quote, each puts  *)
(* its result on its channel however it ends, and the command reads both   *)
(* channels, renders what came and says which side delivers more.          *)
(***************************************************************************)
EXTENDS Amounts, FiniteSets

CONSTANTS
  Humans,      \* the amounts a user types
  Places,      \* the decimals a token may have
  Fees         \* what an option takes, in tenths of the amount

(* Assumed of the constants by the modules that run this one. *)
BothQuoteConstants ==
  /\ Places \subseteq Nat \ {0} /\ Fees \subseteq 0..9
  /\ \A h \in Humans : h.int \in Seq(Digits) /\ h.frac \in Seq(Digits)

Sides == {"core", "next"}

VARIABLES
  typed,    \* the amount of --amount
  decimals, \* of the source and of the destination token
  pc,       \* of each goroutine, and of the command under "main"
  res,      \* each goroutine's result: err, and the fees of its options
  base,     \* the amount in the source's base units NEXT was asked for
  channel,  \* coreCh and nextCh, of one result each
  winner    \* "none", or the side of the recommendation

quoteVars == <<typed, decimals, pc, res, base, channel, winner>>

BothQuoteInit ==
  /\ typed \in Humans
  /\ decimals \in [source : Places, destination : Places]
  /\ pc = [core |-> "tokens", next |-> "tokens", main |-> "core"]
  /\ res = [s \in Sides |-> [err |-> FALSE, fees |-> {}]]
  /\ base = <<>>
  /\ channel = [s \in Sides |-> <<>>]
  /\ winner = "none"

-----------------------------------------------------------------------------
(* The goroutines *)

NextPc(s) ==
  CASE pc[s] = "tokens" -> "source"
    [] pc[s] = "source" -> "destination"
    [] pc[s] = "destination" -> IF s = "next" THEN "convert" ELSE "quote"
    [] pc[s] = "convert" -> "quote"

(* The token list, or one token reference: not there, and the goroutine    *)
(* returns.                                                                *)
Look(s) ==
  /\ pc[s] \in {"tokens", "source", "destination"}
  /\ \/ pc' = [pc EXCEPT ![s] = NextPc(s)] /\ UNCHANGED res
     \/ /\ pc' = [pc EXCEPT ![s] = "return"]
        /\ res' = [res EXCEPT ![s].err = TRUE]
  /\ UNCHANGED <<typed, decimals, base, channel, winner>>

(* NEXT is asked in base units; Core's request takes the amount as typed.  *)
Convert ==
  /\ pc["next"] = "convert"
  /\ IF ValidHumanAmount(typed)
     THEN /\ base' = HumanToBase(typed, decimals.source)
          /\ pc' = [pc EXCEPT !["next"] = NextPc("next")]
          /\ UNCHANGED res
     ELSE /\ pc' = [pc EXCEPT !["next"] = "return"]
          /\ res' = [res EXCEPT !["next"].err = TRUE]
          /\ UNCHANGED base
  /\ UNCHANGED <<typed, decimals, channel, winner>>

(* An API answers with its options or fails; Core refuses an amount that   *)
(* is not positive.                                                        *)
AskQuote(s) ==
  /\ pc[s] = "quote"
  /\ pc' = [pc EXCEPT ![s] = "return"]
  /\ \/ res' = [res EXCEPT ![s].err = TRUE]
     \/ /\ s = "core" => ValidHumanAmount(typed)
        /\ \E fees \in SUBSET Fees : res' = [res EXCEPT ![s].fees = fees]
  /\ UNCHANGED <<typed, decimals, base, channel, winner>>

(* Seeded fault: an early return sends nothing. *)
SendResultAtTheEnd(s) ==
  /\ pc[s] = "return"
  /\ ~res[s].err
  /\ Len(channel[s]) < 1
  /\ channel' = [channel EXCEPT ![s] = Append(@, res[s])]
  /\ pc' = [pc EXCEPT ![s] = "ended"]
  /\ UNCHANGED <<typed, decimals, res, base, winner>>

(* The deferred send, which runs however the goroutine returns. *)
SendResult(s) ==
  /\ pc[s] = "return"
  /\ Len(channel[s]) < 1
  /\ channel' = [channel EXCEPT ![s] = Append(@, res[s])]
  /\ pc' = [pc EXCEPT ![s] = "ended"]
  /\ UNCHANGED <<typed, decimals, res, base, winner>>

-----------------------------------------------------------------------------
(* The command *)

(* `core := <-coreCh` and `nx := <-nextCh` *)
Receive(s) ==
  /\ pc["main"] = s
  /\ channel[s] # <<>>
  /\ channel' = [channel EXCEPT ![s] = Tail(@)]
  /\ pc' = [pc EXCEPT !["main"] = IF s = "core" THEN "next" ELSE "render"]
  /\ UNCHANGED <<typed, decimals, res, base, winner>>

(* Amounts below are rationals: [n, over], with n over 10^over. *)
Unscaled(human) ==
  [n |-> Number(human.int \o human.frac), over |-> Len(human.frac)]

LessThan(x, y) == x.n * 10^y.over < y.n * 10^x.over

(* What an option leaves of an amount of base units of the source token,   *)
(* in base units of the destination token.                                 *)
Delivered(amount, fee) ==
  (amount.n * 10^decimals.destination * (10 - fee))
    \div (10^(amount.over + decimals.source) * 10)

(* The best of some amounts, 0 if there is none, as shown: over 10^places. *)
BestOf(outs, places) ==
  [n |-> CHOOSE o \in outs \cup {0} : \A p \in outs : p <= o, over |-> places]

(* bestCoreOut reads the estimates as they come, of the amount as typed.   *)
BestCoreOut ==
  BestOf({Delivered(Unscaled(typed), fee) : fee \in res["core"].fees}, 0)

(* bestNextOut takes amountOut by the destination token's decimals.        *)
BestNextOut ==
  BestOf({Delivered([n |-> Number(base), over |-> 0], fee) : fee \in res["next"].fees},
         decimals.destination)

PickWinner == IF LessThan(BestCoreOut, BestNextOut) THEN "next" ELSE "core"

(* Seeded fault: one failure ends the command. *)
RenderOnlyBoth ==
  /\ pc["main"] = "render"
  /\ IF \E s \in Sides : res[s].err
     THEN pc' = [pc EXCEPT !["main"] = "failed"] /\ UNCHANGED winner
     ELSE pc' = [pc EXCEPT !["main"] = "rendered"] /\ winner' = PickWinner
  /\ UNCHANGED <<typed, decimals, res, base, channel>>

(* Both failed, and the command ends with netErr; or what came is rendered *)
(* and, if both did, compared.                                             *)
Render ==
  /\ pc["main"] = "render"
  /\ IF \A s \in Sides : res[s].err
     THEN pc' = [pc EXCEPT !["main"] = "failed"]
     ELSE pc' = [pc EXCEPT !["main"] = "rendered"]
  /\ winner' = IF \A s \in Sides : ~res[s].err THEN PickWinner ELSE "none"
  /\ UNCHANGED <<typed, decimals, res, base, channel>>

Side(s) == Look(s) \/ AskQuote(s) \/ SendResult(s) \/ (s = "next" /\ Convert)

Main == Receive("core") \/ Receive("next") \/ Render

BothQuoteNext == Main \/ \E s \in Sides : Side(s)

(* Requests end, by the client's timeout if by nothing else, and the       *)
(* goroutines and the command keep running.                                *)
QuoteFairness == WF_quoteVars(Main) /\ \A s \in Sides : WF_quoteVars(Side(s))

BothQuoteSpec == BothQuoteInit /\ [][BothQuoteNext]_quoteVars /\ QuoteFairness

-----------------------------------------------------------------------------

Ended == pc["main"] \in {"failed", "rendered"}

(* Either side may fail at any step: what the other side quoted is still   *)
(* rendered, the command fails only if both did, and only two quotes are   *)
(* compared (bridge_next.go:95-96).                                        *)
EitherSideMayFail ==
  Ended =>
    /\ \A s \in Sides : pc[s] = "ended" /\ channel[s] = <<>>
    /\ (pc["main"] = "failed") <=> \A s \in Sides : res[s].err
    /\ (winner # "none") <=> \A s \in Sides : ~res[s].err

(* The command ends, whichever side fails and wherever.                    *)
QuoteReturns == <>Ended

(* NEXT is asked for the amount typed, short of less than one base unit,   *)
(* and shows it as such.                                                   *)
TypedIsAsked ==
  base # <<>> =>
    LET places == IF Len(typed.frac) > decimals.source
                  THEN Len(typed.frac) ELSE decimals.source
        asked == Scaled(BaseToHuman(base, decimals.source), places)
        meant == Scaled(typed, places)
        unit == Number(<<1>> \o Zeros(places - decimals.source))
    IN asked <= meant /\ meant < asked + unit

(* What a side would deliver of the amount typed. *)
WouldDeliver(s) ==
  BestOf({Delivered([n |-> Number(HumanToBase(typed, decimals.source)), over |-> 0], fee) :
            fee \in res[s].fees},
         decimals.destination)

(* The recommended side delivers no less than the other                    *)
(* (bridge_next.go:91-93).                                                 *)
WinnerDeliversMore ==
  winner # "none" => \A s \in Sides : ~LessThan(WouldDeliver(winner), WouldDeliver(s))
=============================================================================
