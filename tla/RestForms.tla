------------------------------ MODULE RestForms ------------------------------
(***************************************************************************)
(* The query parameters of the REST API (rest-api/src/controller): of each *)
(* route the parameters whose handler calls requireQueryParam, or does     *)
(* without, and the others that it reads.                                  *)
(***************************************************************************)
Owned == {"ownerAddress", "tokenAddress"}

Pair == {"sourceToken", "destinationToken"}

SolanaFee == {"solanaTxFeeParams", "solanaTxFeeValue"}

(* One form for several routes. *)
Forms(routes, must, may) ==
  {[path |-> r, must |-> must, may |-> may] : r \in routes}

-----------------------------------------------------------------------------

TransfersForms ==
  LET payment == Pair \cup {"amount", "sender", "recipient"}
      anyRaw == SolanaFee \cup {"solanaPayTxFeeWithStablecoinSwap",
                                "contractAddress", "outputFormat"}
      method == {"feePaymentMethod", "contractAddress"}
  IN Forms({"/raw/approve"}, Owned, method \cup {"amount", "type", "messenger"})
     \cup Forms({"/raw/bridge/approve"}, Owned, method \cup {"amount", "messenger"})
     \cup Forms({"/raw/swap"}, payment, anyRaw \cup {"minimumReceiveAmount"})
     \cup Forms({"/raw/bridge"}, payment \cup {"messenger", "feePaymentMethod"},
              anyRaw \cup {"fee", "extraGas"})
     \cup Forms({"/raw/stellar/restore"}, {"xdrTx", "sender"}, {})
     \cup Forms({"/raw/stellar/trustline"}, {"sender", "tokenAddress"}, {"limit"})
     \cup Forms({"/raw/algorand/optin"}, {"id", "sender"}, {"type"})
     \cup Forms({"/transfer/time"}, Pair \cup {"messenger"}, {})
     \cup Forms({"/transfer/status"}, {"chain", "txId"}, {})
     \cup Forms({"/pending/info", "/swap/details", "/bridge/details",
               "/bridge/quote"}, Pair \cup {"amount"}, {})
     \cup Forms({"/bridge/receive/calculate", "/bridge/send/calculate"},
              Pair \cup {"amount", "messenger"},
              {"relayerFeeInStables", "refreshingPools"})
     \cup Forms({"/bridge/allowance"}, Owned, method)
     \cup Forms({"/check/allowance"}, Owned \cup {"amount"}, method \cup {"type"})
     \cup Forms({"/check/bridge/allowance"}, Owned \cup {"amount"}, method)

TokensForms ==
  Forms({"/chains"}, {}, {"type"})
  \cup Forms({"/tokens"}, {}, {"chain", "type"})
  \cup Forms({"/token/balance", "/check/stellar/balanceline"},
           {"address", "token"}, {})
  \cup Forms({"/token/native/balance", "/gas/balance"}, {"address", "chain"}, {})
  \cup Forms({"/token/details"}, {"address"}, {"chain"})
  \cup Forms({"/gas/fee"}, Pair \cup {"messenger"}, {})
  \cup Forms({"/gas/extra/limits"}, Pair, {"messenger"})
  \cup Forms({"/check/algorand/optin"}, {"id", "sender"}, {"type"})

PoolForms ==
  Forms({"/raw/pool/approve"}, Owned, {"amount"})
  \cup Forms({"/raw/deposit", "/raw/withdraw"}, Owned \cup {"amount"}, SolanaFee)
  \cup Forms({"/raw/claim"}, Owned, SolanaFee)
  \cup Forms({"/check/pool/allowance"}, Owned \cup {"amount"}, {"feePaymentMethod"})
  \cup Forms({"/pool/info/server", "/pool/info/blockchain"}, {"tokenAddress"}, {})
  \cup Forms({"/pool/allowance"}, Owned, {"feePaymentMethod"})
  \cup Forms({"/liquidity/details"}, Owned, {})
  \cup Forms({"/liquidity/deposit/calculate"}, {"amount", "tokenAddress"}, {})
  \cup Forms({"/liquidity/withdrawn/calculate"}, Owned \cup {"amount"}, {})
  \cup Forms({"/liquidity/vusd/calculate"},
           {"amount", "amountFormat", "tokenAddress"}, {})
  \cup Forms({"/liquidity/amount-from-vusd/calculate"},
           {"vUsdAmount", "tokenAddress"}, {})
  \cup Forms({"/liquidity/apr/format"}, {"apr"}, {})

YieldForms ==
  Forms({"/yield/tokens"}, {}, {})
  \cup Forms({"/yield/allowance"}, Owned, {})
  \cup Forms({"/check/yield/allowance"}, Owned \cup {"amount"}, {})
  \cup Forms({"/yield/balance"}, {"address", "token"}, {})
  \cup Forms({"/yield/deposit/calculate"}, {"amount", "tokenAddress"}, {})
  \cup Forms({"/yield/withdrawn/calculate", "/raw/yield/withdraw"},
           {"amount", "ownerAddress", "yieldAddress"}, {})
  \cup Forms({"/raw/yield/approve"}, Owned, {"amount"})
  \cup Forms({"/raw/yield/deposit"}, Owned \cup {"amount", "minVirtualAmount"}, {})

UtilsForms ==
  Forms({"/utils/solana/add-memo"}, {"tx", "memo"}, {})
  \cup Forms({"/utils/solana/replace-fee-payer"}, {"sponsor", "tx"},
           {"fundLamports"})
  \cup Forms({"/utils/stellar/submit", "/utils/soroban/send"}, {"xdrTx"}, {})
  \cup Forms({"/utils/soroban/confirm"}, {"hash"}, {"secondsToWait"})
  \cup Forms({"/utils/sui/build-send-from-custom-tx"},
           {"baseTx", "inputCoin", "params"}, {})
  \cup Forms({"/utils/sui/raw2base64", "/utils/tron/raw2hex"}, {"rawTx"}, {})

AllForms ==
  TransfersForms \cup TokensForms \cup PoolForms \cup YieldForms \cup UtilsForms

FormOf(route) == CHOOSE form \in AllForms : form.path = route

(* requireQueryParam: absent or blank, a required parameter is refused. *)
Refused(route, filled) == ~(FormOf(route).must \subseteq filled)
=============================================================================
