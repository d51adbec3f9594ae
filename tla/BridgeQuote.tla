----------------------------- MODULE BridgeQuote -----------------------------
(***************************************************************************)
(* BridgeQuoteService.getQuote (rest-api/src/service): an option for every *)
(* messenger both tokens support, with a payment for every fee payment     *)
(* method the API offers.  Every call of the SDK is an await, between two  *)
(* of which the API's answers change.  Amounts are integers in the         *)
(* smallest unit; what the SDK returns for an amount is abstracted to the  *)
(* amount it was asked for.                                                *)
(***************************************************************************)
EXTENDS Integers, Sequences

CONSTANTS
  Amounts,     \* the amounts to quote
  Fees,        \* the fees the API may ask
  MaxMessengers  \* bound on the messengers two tokens have in common

ASSUME QuoteConstants ==
  /\ Amounts \subseteq Nat \ {0}
  /\ Fees \subseteq Nat
  /\ MaxMessengers \in Nat \ {0}

VARIABLES
  qpc,         \* where the quote is
  amount,      \* the amount to quote
  todo,        \* the messengers without an option yet, the current one first
  offer,       \* the fee of each method, as answered for this messenger
  methods,     \* the methods without a payment yet, the current one first
  payment,     \* the payment under construction
  payments,    \* those of the current option
  options      \* the messengers with an option

qvars == <<qpc, amount, todo, offer, methods, payment, payments, options>>

Messengers ==
  <<"ALLBRIDGE", "WORMHOLE", "CCTP", "CCTP_V2", "OFT", "X_RESERVE">>

Methods == <<"NATIVE", "STABLECOIN", "ABR">>

MethodSet == {Methods[i] : i \in 1..Len(Methods)}

None == -1  \* no fee offered, or a field the payment does not have

Pooled == {"ALLBRIDGE", "WORMHOLE"}

Charged == {"CCTP", "CCTP_V2", "OFT", "X_RESERVE"}

NoPayment ==
  [method |-> "NATIVE", fee |-> None, pending |-> FALSE, received |-> None,
   lp |-> None, transfer |-> None]

QuoteInit ==
  /\ qpc = "closed"
  /\ amount = 0
  /\ todo = <<>>
  /\ offer = [m \in MethodSet |-> None]
  /\ methods = <<>>
  /\ payment = NoPayment
  /\ payments = {}
  /\ options = <<>>

(* The part of the amount that is bridged if the method's fee is taken. *)
Routed(method, fee) ==
  IF method = "STABLECOIN" THEN amount - fee ELSE amount

-----------------------------------------------------------------------------

(* detectMessengers: ALLBRIDGE always, the others if both tokens have them. *)
Open ==
  \E a \in Amounts, common \in SUBSET {Messengers[i] : i \in 2..6} :
    LET supported(m) == m = "ALLBRIDGE" \/ m \in common
    IN /\ amount' = a
       /\ todo' = SelectSeq(Messengers, supported)
       /\ Len(todo') <= MaxMessengers
       /\ options' = <<>>
       /\ qpc' = "gasFees"
       /\ UNCHANGED <<offer, methods, payment, payments>>

(* The fees for the current messenger; an error ends the quote. *)
GasFees ==
  /\ qpc = "gasFees"
  /\ \/ /\ offer' \in [MethodSet -> Fees \cup {None}]
        /\ methods' = Methods
        /\ payments' = {}
        /\ qpc' = "method"
        /\ UNCHANGED <<amount, todo, payment, options>>
     \/ qpc' = "error" /\ UNCHANGED <<amount, todo, offer, methods, payment,
                                      payments, options>>

(* On to the next method, as every `continue` of the loop does. *)
NextMethod ==
  /\ methods' = Tail(methods)
  /\ payment' = NoPayment
  /\ qpc' = "method"

(* A method is skipped if the API does not offer it, or if its fee leaves  *)
(* nothing to bridge.                                                      *)
Method ==
  /\ qpc = "method"
  /\ methods # <<>>
  /\ LET method == Head(methods)
         fee == offer[method]
     IN IF fee = None \/ Routed(method, fee) <= 0
        THEN NextMethod
        ELSE /\ payment' = [NoPayment EXCEPT !.method = method, !.fee = fee]
             /\ qpc' = "pending"
             /\ UNCHANGED methods
  /\ UNCHANGED <<amount, todo, offer, payments, options>>

(* getPendingSafe: an error only leaves the information out. *)
Pending ==
  /\ qpc = "pending"
  /\ \E known \in BOOLEAN : payment' = [payment EXCEPT !.pending = known]
  /\ qpc' = "receive"
  /\ UNCHANGED <<amount, todo, offer, methods, payments, options>>

(* Seeded fault: what is received is asked for the whole amount. *)
CalcReceiveWhole ==
  /\ qpc = "receive"
  /\ \/ /\ payment' = [payment EXCEPT !.received = amount]
        /\ qpc' = "lp"
        /\ UNCHANGED methods
     \/ NextMethod
  /\ UNCHANGED <<amount, todo, offer, payments, options>>

(* calcReceive: the fee is deducted only if it is paid in stablecoin.  An  *)
(* error of the SDK comes back as an empty amount, and skips the method.   *)
CalcReceive ==
  /\ qpc = "receive"
  /\ \/ /\ payment' = [payment EXCEPT !.received =
                         IF payment.method = "STABLECOIN"
                         THEN amount - payment.fee ELSE amount]
        /\ qpc' = "lp"
        /\ UNCHANGED methods
     \/ NextMethod
  /\ UNCHANGED <<amount, todo, offer, payments, options>>

(* swapAndBridgeDetails, for the messengers that use the pools; its error  *)
(* ends the quote.                                                         *)
LpFee ==
  /\ qpc = "lp"
  /\ \/ /\ payment' = [payment EXCEPT !.lp =
                         IF Head(todo) \in Pooled
                         THEN Routed(payment.method, payment.fee) ELSE None]
        /\ qpc' = "transferFee"
     \/ Head(todo) \in Pooled /\ qpc' = "error" /\ UNCHANGED payment
  /\ UNCHANGED <<amount, todo, offer, methods, payments, options>>

(* getTransferFee: a share of what is bridged, or none.  The share of OFT  *)
(* is asked anew, which may fail.                                          *)
TransferFee ==
  /\ qpc = "transferFee"
  /\ \/ /\ Head(todo) \in Charged
        /\ \E share \in BOOLEAN :
             payments' = payments \cup
               {[payment EXCEPT !.transfer =
                   IF share THEN Routed(payment.method, payment.fee) ELSE 0]}
        /\ NextMethod
     \/ /\ Head(todo) \notin Charged
        /\ payments' = payments \cup {payment}
        /\ NextMethod
     \/ /\ Head(todo) = "OFT"
        /\ qpc' = "error"
        /\ UNCHANGED <<methods, payment, payments>>
  /\ UNCHANGED <<amount, todo, offer, options>>

(* The option of a messenger is complete. *)
Option ==
  /\ qpc = "method"
  /\ methods = <<>>
  /\ options' = Append(options, Head(todo))
  /\ todo' = Tail(todo)
  /\ qpc' = IF Tail(todo) = <<>> THEN "done" ELSE "gasFees"
  /\ UNCHANGED <<amount, offer, methods, payment, payments>>

QuoteStep ==
  GasFees \/ Method \/ Pending \/ CalcReceive \/ LpFee \/ TransferFee \/ Option

-----------------------------------------------------------------------------

(* Every payment shows amounts that belong together: what is received, the *)
(* LP fee and the transfer fee are those of one amount, the one that is    *)
(* left of the quoted amount when the fee shown is paid, and something is  *)
(* left.  Three places compute that amount, across several awaits.         *)
QuoteIsOneAmount ==
  \A p \in payments :
    LET left == IF p.method = "STABLECOIN" THEN amount - p.fee ELSE amount
    IN /\ left > 0
       /\ p.received = left
       /\ p.lp \in {None, left}
       /\ p.transfer \in {None, 0, left}
=============================================================================
