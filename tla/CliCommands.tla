----------------------------- MODULE CliCommands -----------------------------
(***************************************************************************)
(* The commands of the CLI that use the Core REST API (cli/internal/cli),  *)
(* each as the steps of its function: what it checks before and between    *)
(* its requests, and which parameters each request carries.  They use the  *)
(* hand-written client (cli/internal/api/client.go), which takes any path  *)
(* and any parameters.                                                     *)
(***************************************************************************)
EXTENDS TypedClient, Sequences

(* Steps: a check of the user's input, a look into the keystore, a request *)
(* whose failure ends the command, one whose failure is passed over, and   *)
(* the signing and sending of a transaction.                               *)
User == [is |-> "user"]

Wallet == [is |-> "wallet"]

Get(query) == [is |-> "get", query |-> query]

Try(query) == [is |-> "try", query |-> query]

Chain == [is |-> "chain"]

(* resolve: configuration, clients and output format. *)
Resolve == <<User>>

(* resolveTokenRef, of the source and of the destination. *)
Tokens == <<User, User>>

(* resolveAddressRef: an address, or the address of a wallet. *)
AddressRef == <<User, Wallet>>

-----------------------------------------------------------------------------
(* chains.go, tokens.go, balance.go *)

FetchChains == Query("/chains", {}, {"type"})

FetchTokens == Query("/tokens", {}, {"type"})

FetchTokenBalance == Query("/token/balance", {"address", "token"}, {})

FetchNative == Query("/token/native/balance", {"chain", "address"}, {})

FetchGasBalance == Query("/gas/balance", {"chain", "address"}, {})

ChainsList == Resolve \o <<Get(FetchChains)>>

ChainsShow == Resolve \o <<Get(FetchChains), User>>

TokensList == Resolve \o <<User, Get(FetchTokens)>>

TokensShow == Resolve \o <<Get(FetchTokens), User>>

Balance ==
  Resolve \o <<User, Get(FetchTokens), Try(FetchNative), Try(FetchGasBalance),
               Try(FetchTokenBalance)>>

-----------------------------------------------------------------------------
(* bridge.go, bridge_plan.go *)

BridgeRoutes == Resolve \o <<Get(FetchTokens)>>

CoreQuote ==
  Resolve \o <<User, User, Get(FetchTokens)>> \o Tokens
    \o <<Get(Query("/bridge/quote", Pair \cup {"amount"}, {}))>>

(* `calc send` and `calc receive`. *)
Calc(path) ==
  Resolve \o <<User, Get(FetchTokens)>> \o Tokens
    \o <<Get(Query(path, Pair \cup {"amount"}, {}))>>

(* Seeded fault: --messenger is not sent. *)
RawBridgeQueryShort ==
  Query("/raw/bridge", Pair \cup {"amount", "sender", "recipient", "feePaymentMethod"},
        {"fee", "extraGas"})

RawBridgeQuery ==
  Query("/raw/bridge", Pair \cup {"amount", "sender", "recipient",
                                  "messenger", "feePaymentMethod"},
        {"fee", "extraGas"})

(* With --sender and --recipient the plan includes the transaction. *)
BridgePlan(withTx) ==
  Resolve \o <<User>> \o AddressRef \o AddressRef
    \o <<User, Get(FetchTokens)>> \o Tokens
    \o <<Get(Query("/bridge/quote", Pair \cup {"amount"}, {}))>>
    \o (IF withTx THEN <<Get(RawBridgeQuery)>> ELSE <<>>)

-----------------------------------------------------------------------------
(* tx.go *)

TxBuildBridge ==
  Resolve \o AddressRef \o AddressRef \o <<User, Get(FetchTokens)>> \o Tokens
    \o <<Get([RawBridgeQuery EXCEPT !.optional = @ \cup {"outputFormat"}])>>

TxBuildApprove ==
  Resolve \o <<User, Get(Query("/raw/approve",
                               {"owner", "spender", "tokenAddress", "chainSymbol"},
                               {"amount"}))>>

TxBuildSwap ==
  Resolve \o AddressRef \o AddressRef \o <<User, Get(FetchTokens)>> \o Tokens
    \o <<Get(Query("/raw/swap", Pair \cup {"amount", "sender", "recipient"}, {}))>>

TxBuildClaim ==
  Resolve \o <<User, Get(Query("/raw/claim",
                               {"owner", "chainSymbol", "txId"}, {}))>>

PoolQuery(path) ==
  Query(path, {"owner", "chainSymbol", "tokenAddress", "amount"}, {})

TxBuildDeposit == Resolve \o <<User, Get(PoolQuery("/raw/deposit"))>>

TxBuildWithdraw == Resolve \o <<User, Get(PoolQuery("/raw/withdraw"))>>

-----------------------------------------------------------------------------
(* stellar.go, algorand.go *)

TrustlineCheck ==
  Resolve \o <<User, Get(Query("/check/stellar/balanceline", Owned, {}))>>

TrustlineAdd ==
  Resolve \o <<User, Get(Query("/raw/stellar/trustline", Owned, {}))>>

OptinCheck ==
  Resolve \o <<User, Get(Query("/check/algorand/optin", Owned, {}))>>

OptinAdd ==
  Resolve \o <<User, Get(Query("/raw/algorand/optin", Owned, {}))>>

-----------------------------------------------------------------------------
(* bridge_send.go, transfers.go, tui.go: the requests of the commands that *)
(* SendCore, TransferWatch and TuiForm model.                              *)

AllowanceQuery ==
  Query("/check/bridge/allowance", Owned \cup {"amount"}, {"feePaymentMethod"})

SendPreflight ==
  <<Try(FetchTokenBalance), User, Try(AllowanceQuery), User, Try(FetchNative)>>

SendApprove ==
  <<Get(AllowanceQuery),
    Get(Query("/raw/bridge/approve", Owned,
              {"amount", "messenger", "feePaymentMethod"})),
    Chain, Chain>>

(* The longest run: with --approve, and an allowance that is too small. *)
BridgeSend ==
  Resolve \o <<User, Wallet, User, Get(FetchTokens)>> \o Tokens
    \o SendPreflight
    \o <<Get([RawBridgeQuery EXCEPT !.optional = @ \cup {"outputFormat"}]),
         User, Wallet>>
    \o SendApprove \o <<Chain, Chain>>

TransfersStatus ==
  Resolve \o <<User, Get(Query("/transfer/status", {"chain", "txId"}, {}))>>

(* The UI shows a failed request and goes on. *)
TuiQuote ==
  Resolve \o <<Try(FetchTokens),
               Try(Query("/bridge/quote", Pair \cup {"amount"}, {}))>>

-----------------------------------------------------------------------------

(* The commands whose requests follow the handlers, and the others. *)
Fitting ==
  {ChainsList, ChainsShow, TokensList, TokensShow, Balance, BridgeRoutes,
   CoreQuote, BridgePlan(TRUE), BridgePlan(FALSE), TxBuildBridge,
   TxBuildSwap, BridgeSend, TransfersStatus, TuiQuote}

Misfits ==
  {Calc("/bridge/send/calculate"), Calc("/bridge/receive/calculate"),
   TxBuildApprove, TxBuildClaim, TxBuildDeposit, TxBuildWithdraw,
   TrustlineCheck, TrustlineAdd, OptinCheck, OptinAdd}
=============================================================================
