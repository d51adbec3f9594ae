------------------------------ MODULE RestPlans ------------------------------
(***************************************************************************)
(* The handlers of the REST API (rest-api/src/controller), each as the     *)
(* plan its body follows: which tokens it looks up and whether a failure   *)
(* there is caught, when it checks enumerations and amounts, which chains  *)
(* it accepts, and what becomes of a failed call of the SDK.  Every        *)
(* handler first refuses a request that lacks a required parameter.        *)
(***************************************************************************)
EXTENDS Sequences

(* A lookup is a sequence of requests to the API; the stages of a request  *)
(* search the same answer, one after the other.                            *)
Swap  == <<<<"swap">>>>
Pool  == <<<<"pool">>>>
Cyd   == <<<<"cyd">>>>
Inner == <<<<"inner">>>>

(* Seeded fault: the search over all lists leaves the pools out. *)
AnyButPool == <<<<"swap">>, <<"cyd", "inner">>>>

Any   == <<<<"swap">>, <<"pool">>, <<"cyd", "inner">>>>

(* getTokenByAddressAndType *)
OfType(t) == CASE t = "yield" -> Cyd [] t = "pool" -> Pool [] t = "bridge" -> Swap

(* What a handler does unless its own plan says otherwise: it calls the    *)
(* SDK inside a try and answers 400 if that fails.                         *)
Plan ==
  [lookups  |-> <<>>,     \* the tokens it looks up, in order
   caught   |-> TRUE,     \* the lookups are inside the try
   onChain  |-> FALSE,    \* the lookup is limited to one chain
   absent   |-> "reject", \* a token that is not found: "reject" or "empty"
   enums    |-> "none",   \* enumerations: "first", "late" or not checked
   chains   |-> "any",    \* of the two tokens: "one", "two" or "any"
   fee      |-> FALSE,    \* it converts a relayer fee outside the try
   amount   |-> FALSE,    \* it converts an amount
   evm      |-> FALSE,    \* only tokens of EVM and Tron chains
   quote    |-> FALSE,    \* the call is BridgeQuoteService.getQuote
   calls    |-> <<"reject">>] \* its calls of the SDK that reach the network,
                          \* each as what a failure of it comes to:
                          \* "reject", "escape" or "blank"

-----------------------------------------------------------------------------
(* transfers.controller.ts *)

Approve(t) ==
  [Plan EXCEPT !.lookups = <<OfType(t)>>, !.caught = FALSE, !.enums = "late",
               !.evm = t # "yield"]

BridgeApprove == Approve("bridge")

Pair == [Plan EXCEPT !.lookups = <<Swap, Swap>>, !.caught = FALSE]

(* SDKService.send: the transaction, and its conversion if one is asked.   *)
Send(convert) == IF convert THEN <<"reject", "reject">> ELSE <<"reject">>

RawSwap(convert) ==
  [Pair EXCEPT !.chains = "one", !.enums = "late", !.amount = TRUE,
               !.calls = Send(convert)]

RawBridge(convert) == [RawSwap(convert) EXCEPT !.chains = "two"]

RestoreTx == Plan

TrustLine == Plan

RawOptIn == [Plan EXCEPT !.enums = "late"]

TransferTime == [Pair EXCEPT !.enums = "late", !.calls = <<>>]

TransferStatus == [Plan EXCEPT !.enums = "first"]

PendingInfo == Pair

SwapDetails == Pair

BridgeDetails == Pair

(* The pools are refreshed first if that is asked. *)
AmountToBeReceived(refreshing) ==
  [Pair EXCEPT !.enums = "late", !.fee = TRUE, !.amount = TRUE,
               !.calls = IF refreshing THEN <<"reject", "blank">>
                                       ELSE <<"blank">>]

AmountToSend(refreshing) == AmountToBeReceived(refreshing)

BridgeAllowance ==
  [Plan EXCEPT !.lookups = <<Swap>>, !.caught = FALSE, !.evm = TRUE]

CheckAllowance(t) ==
  [Plan EXCEPT !.lookups = <<OfType(t)>>, !.caught = FALSE, !.amount = TRUE,
               !.evm = t # "yield"]

CheckBridgeAllowance == CheckAllowance("bridge")

Quote == [Pair EXCEPT !.amount = TRUE, !.quote = TRUE]

-----------------------------------------------------------------------------
(* tokens.controller.ts, but for /chains, which is in ChainDetails *)

GetTokens(t, limited) ==
  [Plan EXCEPT !.enums = IF limited THEN "first" ELSE "none",
               !.calls = IF t = "yield" THEN <<"reject">> ELSE <<"escape">>]

TokenBalance == [Plan EXCEPT !.lookups = <<Any>>]

NativeBalance == [Plan EXCEPT !.enums = "first"]

TokenDetails(limited) ==
  [Plan EXCEPT !.lookups = <<Any>>, !.onChain = limited, !.absent = "empty",
               !.enums = IF limited THEN "first" ELSE "none", !.calls = <<>>]

GasFee == [Pair EXCEPT !.caught = TRUE, !.enums = "first"]

GasBalance == [Plan EXCEPT !.enums = "first"]

ExtraGasLimits == GasFee

BalanceLine == Plan

OptInCheck == [Plan EXCEPT !.enums = "late"]

-----------------------------------------------------------------------------
(* pool.controller.ts *)

OfPool == [Plan EXCEPT !.lookups = <<Pool>>]

PoolApprove == [OfPool EXCEPT !.evm = TRUE]

Deposit == [OfPool EXCEPT !.enums = "first", !.amount = TRUE]

Withdraw == [OfPool EXCEPT !.enums = "first", !.amount = TRUE]

ClaimRewards == [OfPool EXCEPT !.enums = "first"]

CheckPoolAllowance == [OfPool EXCEPT !.amount = TRUE, !.evm = TRUE]

PoolInfoByServer == OfPool

PoolInfoFromBlockchain == OfPool

PoolAllowance == [OfPool EXCEPT !.evm = TRUE]

UserPoolInfo == [OfPool EXCEPT !.calls = <<"reject", "reject">>]

ToBeDeposited == [OfPool EXCEPT !.amount = TRUE]

ToBeWithdrawn == [OfPool EXCEPT !.amount = TRUE]

VUsdFromAmount == [OfPool EXCEPT !.enums = "first"]

AmountFromVUsd == OfPool

FormatApr == [Plan EXCEPT !.amount = TRUE, !.calls = <<>>]

-----------------------------------------------------------------------------
(* yield.controller.ts and utils.controller.ts *)

YieldTokens == [Plan EXCEPT !.calls = <<"escape">>]

OfYield == [Plan EXCEPT !.lookups = <<Inner>>]

OfCyd == [Plan EXCEPT !.lookups = <<Cyd>>]

YieldAllowance == OfYield

CheckYieldAllowance == [OfYield EXCEPT !.amount = TRUE]

YieldBalance == OfCyd

YieldToBeDeposited == [OfYield EXCEPT !.amount = TRUE]

YieldToBeWithdrawn == [OfCyd EXCEPT !.amount = TRUE]

ApproveYield == OfYield

DepositYield == [OfYield EXCEPT !.amount = TRUE]

WithdrawYield == [OfCyd EXCEPT !.amount = TRUE]

Utilities == Plan

-----------------------------------------------------------------------------

Types == {"bridge", "pool", "yield"}

Plans ==
  {Approve(t) : t \in Types} \cup {CheckAllowance(t) : t \in Types}
    \cup {GetTokens(t, b) : t \in Types, b \in BOOLEAN}
    \cup (UNION {{TokenDetails(b), RawSwap(b), RawBridge(b),
                  AmountToBeReceived(b), AmountToSend(b)} : b \in BOOLEAN})
    \cup {BridgeApprove, RestoreTx, TrustLine, RawOptIn, TransferTime,
          TransferStatus, PendingInfo, SwapDetails, BridgeDetails,
          BridgeAllowance, CheckBridgeAllowance, Quote, TokenBalance,
          NativeBalance, GasFee, GasBalance, ExtraGasLimits, BalanceLine,
          OptInCheck, PoolApprove, Deposit, Withdraw, ClaimRewards,
          CheckPoolAllowance, PoolInfoByServer, PoolInfoFromBlockchain,
          PoolAllowance, UserPoolInfo, ToBeDeposited, ToBeWithdrawn,
          VUsdFromAmount, AmountFromVUsd, FormatApr, YieldTokens,
          YieldAllowance, CheckYieldAllowance, YieldBalance,
          YieldToBeDeposited, YieldToBeWithdrawn, ApproveYield, DepositYield,
          WithdrawYield, Utilities}
=============================================================================
