----------------------------- MODULE TypedClient -----------------------------
(***************************************************************************)
(* The typed client of the REST API (cli/internal/api/gen/openapi.gen.go), *)
(* generated from a snapshot of the API's Swagger document: of each        *)
(* endpoint the parameters its request always carries, which are the plain *)
(* fields of its Params, and those it carries if they are set, which are   *)
(* pointers.                                                               *)
(***************************************************************************)
EXTENDS RestForms

(* A request: where it goes, and its parameters. *)
Query(path, always, optional) ==
  [path |-> path, always |-> always, optional |-> optional]

-----------------------------------------------------------------------------

NewGetBridgeAllowanceRequest ==
  Query("/bridge/allowance", Owned, {"feePaymentMethod", "contractAddress"})

NewBridgeDetailsRequest ==
  Query("/bridge/details", Pair \cup {"amount"}, {})

NewBridgeQuoteRequest ==
  Query("/bridge/quote", Pair \cup {"amount"}, {})

NewGetAmountToBeReceivedRequest ==
  Query("/bridge/receive/calculate", Pair \cup {"amount", "messenger"},
        {"refreshingPools", "relayerFeeInStables"})

NewGetAmountToSendRequest ==
  Query("/bridge/send/calculate", Pair \cup {"amount", "messenger"},
        {"refreshingPools", "relayerFeeInStables"})

NewChainDetailsMapRequest ==
  Query("/chains", {}, {"type"})

NewCheckAlgorandAssetOptInRequest ==
  Query("/check/algorand/optin", {"sender", "id"}, {"type"})

NewCheckAllowanceRequest ==
  Query("/check/allowance", Owned \cup {"amount"},
        {"type", "feePaymentMethod", "contractAddress"})

NewCheckBridgeAllowanceRequest ==
  Query("/check/bridge/allowance", Owned \cup {"amount"},
        {"feePaymentMethod", "contractAddress"})

NewCheckPoolAllowanceRequest ==
  Query("/check/pool/allowance", Owned \cup {"amount"}, {"feePaymentMethod"})

NewCheckBalanceLineRequest ==
  Query("/check/stellar/balanceline", {"address", "token"}, {})

NewCheckYieldAllowanceRequest ==
  Query("/check/yield/allowance", Owned \cup {"amount"}, {})

NewGetGasBalanceRequest ==
  Query("/gas/balance", {"address", "chain"}, {})

NewGetExtraGasMaxLimitsRequest ==
  Query("/gas/extra/limits", Pair, {"messenger"})

NewGetGasFeeOptionsRequest ==
  Query("/gas/fee", Pair \cup {"messenger"}, {})

NewGetAmountFromVUsdRequest ==
  Query("/liquidity/amount-from-vusd/calculate",
        {"vUsdAmount", "tokenAddress"},
        {})

NewFormatAprRequest ==
  Query("/liquidity/apr/format", {"apr"}, {})

NewGetAmountToBeDepositedRequest ==
  Query("/liquidity/deposit/calculate", {"amount", "tokenAddress"}, {})

NewGetUserPoolInfoRequest ==
  Query("/liquidity/details", Owned, {})

NewGetVUsdFromAmountRequest ==
  Query("/liquidity/vusd/calculate",
        {"amount", "amountFormat", "tokenAddress"},
        {})

NewGetAmountToBeWithdrawnRequest ==
  Query("/liquidity/withdrawn/calculate", Owned \cup {"amount"}, {})

NewGetPendingStatusInfoRequest ==
  Query("/pending/info", Pair \cup {"amount"}, {})

NewGetPoolAllowanceRequest ==
  Query("/pool/allowance", Owned, {"feePaymentMethod"})

NewGetPoolInfoFromBlockchainRequest ==
  Query("/pool/info/blockchain", {"tokenAddress"}, {})

NewGetPoolInfoByServerRequest ==
  Query("/pool/info/server", {"tokenAddress"}, {})

NewBuildRawTransactionAssetOptInRequest ==
  Query("/raw/algorand/optin", {"id", "sender"}, {"type"})

NewApproveRequest ==
  Query("/raw/approve", Owned,
        {"amount", "type", "messenger", "feePaymentMethod", "contractAddress"})

NewGetRawSwapAndBridgeRequest ==
  Query("/raw/bridge",
        Pair \cup {"amount", "sender", "recipient", "messenger",
                   "feePaymentMethod"},
        SolanaFee \cup {"fee", "extraGas", "solanaPayTxFeeWithStablecoinSwap",
                        "contractAddress", "outputFormat"})

NewBridgeApproveRequest ==
  Query("/raw/bridge/approve", Owned,
        {"amount", "messenger", "feePaymentMethod", "contractAddress"})

NewClaimRewardsRequest ==
  Query("/raw/claim", Owned, SolanaFee)

NewDepositRequest ==
  Query("/raw/deposit", Owned \cup {"amount"}, SolanaFee)

NewPoolApproveRequest ==
  Query("/raw/pool/approve", Owned, {"amount"})

NewSimulateAndCheckRestoreTxRequiredSorobanRequest ==
  Query("/raw/stellar/restore", {"xdrTx", "sender"}, {})

NewBuildChangeTrustLineXdrTxRequest ==
  Query("/raw/stellar/trustline", {"sender", "tokenAddress"}, {"limit"})

NewGetRawSwapRequest ==
  Query("/raw/swap", Pair \cup {"amount", "sender", "recipient"},
        SolanaFee \cup {"minimumReceiveAmount",
                        "solanaPayTxFeeWithStablecoinSwap", "contractAddress",
                        "outputFormat"})

NewWithdrawRequest ==
  Query("/raw/withdraw", Owned \cup {"amount"}, SolanaFee)

NewApproveYieldRequest ==
  Query("/raw/yield/approve", Owned, {"amount"})

NewDepositYieldRequest ==
  Query("/raw/yield/deposit", Owned \cup {"amount", "minVirtualAmount"}, {})

NewWithdrawYieldRequest ==
  Query("/raw/yield/withdraw", {"amount", "ownerAddress", "yieldAddress"}, {})

NewSwapDetailsRequest ==
  Query("/swap/details", Pair \cup {"amount"}, {})

NewGetTokenBalanceRequest ==
  Query("/token/balance", {"address", "token"}, {})

NewGetTokenByChainAndAddressRequest ==
  Query("/token/details", {"address"}, {"chain"})

NewGetTokenNativeBalanceRequest ==
  Query("/token/native/balance", {"address", "chain"}, {})

NewGetTokensRequest ==
  Query("/tokens", {}, {"type", "chain"})

NewGetTransferStatusRequest ==
  Query("/transfer/status", {"chain", "txId"}, {})

NewGetTransferTimeRequest ==
  Query("/transfer/time", Pair \cup {"messenger"}, {})

NewSolanaAddMemoRequest ==
  Query("/utils/solana/add-memo", {"tx", "memo"}, {})

NewSponsorWrapRawTxRequest ==
  Query("/utils/solana/replace-fee-payer", {"sponsor", "tx"}, {"fundLamports"})

NewConfirmSorobanTxRequest ==
  Query("/utils/soroban/confirm", {"hash"}, {"secondsToWait"})

NewSendTransactionSorobanRequest ==
  Query("/utils/soroban/send", {"xdrTx"}, {})

NewSubmitTransactionStellarRequest ==
  Query("/utils/stellar/submit", {"xdrTx"}, {})

NewSuiBuildSendTxFromCustomTxRequest ==
  Query("/utils/sui/build-send-from-custom-tx",
        {"baseTx", "inputCoin", "params"},
        {})

NewSuiRaw2Base64Request ==
  Query("/utils/sui/raw2base64", {"rawTx"}, {})

NewTronRaw2HexRequest ==
  Query("/utils/tron/raw2hex", {"rawTx"}, {})

NewGetYieldAllowanceRequest ==
  Query("/yield/allowance", Owned, {})

NewGetYieldTokenBalanceRequest ==
  Query("/yield/balance", {"address", "token"}, {})

NewGetYieldAmountToBeDepositedRequest ==
  Query("/yield/deposit/calculate", {"amount", "tokenAddress"}, {})

NewGetYieldTokensRequest ==
  Query("/yield/tokens", {}, {})

NewGetYieldAmountToBeWithdrawnRequest ==
  Query("/yield/withdrawn/calculate",
        {"amount", "ownerAddress", "yieldAddress"},
        {})
-----------------------------------------------------------------------------

Builders ==
  {NewGetBridgeAllowanceRequest, NewBridgeDetailsRequest,
   NewBridgeQuoteRequest, NewGetAmountToBeReceivedRequest,
   NewGetAmountToSendRequest, NewChainDetailsMapRequest,
   NewCheckAlgorandAssetOptInRequest, NewCheckAllowanceRequest,
   NewCheckBridgeAllowanceRequest, NewCheckPoolAllowanceRequest,
   NewCheckBalanceLineRequest, NewCheckYieldAllowanceRequest,
   NewGetGasBalanceRequest, NewGetExtraGasMaxLimitsRequest,
   NewGetGasFeeOptionsRequest, NewGetAmountFromVUsdRequest,
   NewFormatAprRequest, NewGetAmountToBeDepositedRequest,
   NewGetUserPoolInfoRequest, NewGetVUsdFromAmountRequest,
   NewGetAmountToBeWithdrawnRequest, NewGetPendingStatusInfoRequest,
   NewGetPoolAllowanceRequest, NewGetPoolInfoFromBlockchainRequest,
   NewGetPoolInfoByServerRequest, NewBuildRawTransactionAssetOptInRequest,
   NewApproveRequest, NewGetRawSwapAndBridgeRequest, NewBridgeApproveRequest,
   NewClaimRewardsRequest, NewDepositRequest, NewPoolApproveRequest,
   NewSimulateAndCheckRestoreTxRequiredSorobanRequest,
   NewBuildChangeTrustLineXdrTxRequest, NewGetRawSwapRequest,
   NewWithdrawRequest, NewApproveYieldRequest, NewDepositYieldRequest,
   NewWithdrawYieldRequest, NewSwapDetailsRequest, NewGetTokenBalanceRequest,
   NewGetTokenByChainAndAddressRequest, NewGetTokenNativeBalanceRequest,
   NewGetTokensRequest, NewGetTransferStatusRequest,
   NewGetTransferTimeRequest, NewSolanaAddMemoRequest,
   NewSponsorWrapRawTxRequest, NewConfirmSorobanTxRequest,
   NewSendTransactionSorobanRequest, NewSubmitTransactionStellarRequest,
   NewSuiBuildSendTxFromCustomTxRequest, NewSuiRaw2Base64Request,
   NewTronRaw2HexRequest, NewGetYieldAllowanceRequest,
   NewGetYieldTokenBalanceRequest, NewGetYieldAmountToBeDepositedRequest,
   NewGetYieldTokensRequest, NewGetYieldAmountToBeWithdrawnRequest}
=============================================================================
