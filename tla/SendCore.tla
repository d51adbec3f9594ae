------------------------------ MODULE SendCore ------------------------------
(***************************************************************************)
(* `bridge send` against the Core REST API (cli/internal/cli/              *)
(* bridge_send.go): pre-flight checks, /raw/bridge, confirmation, unlock,  *)
(* the approve flow, signing and broadcasting, run by run against the      *)
(* sender's account.  Every call may fail.  Solana has no approve flow.    *)
(* The runs repeat one transfer, with one messenger.                       *)
(***************************************************************************)
EXTENDS SourceChain

CONSTANT
  ApproveAmounts  \* what --approve-amount may be, in whole transfers: 0 is less than one

(* Assumed of the constants by the modules that run this one. *)
ApproveAmountsConstant == ApproveAmounts \subseteq Nat

VARIABLES
  pc,           \* the call the run is about to make
  run,          \* runs so far
  opts,         \* flags of the run
  ownSpender,   \* the messenger spends by the contract the allowance check reads
  bridgeNonce,  \* the nonce Sign gives the bridge transaction
  approveNonce, \* the nonce Sign gives the approve transaction
  consented,    \* the user has confirmed (or passed --yes) and unlocked the key
  checked,      \* what the run last learnt of the allowance
  verdict       \* how the run returned: "open" until it does

runVars == <<pc, run, opts, ownSpender, bridgeNonce, approveNonce, consented, checked,
             verdict>>

vars == <<chainVars, runVars>>

(* Any --approve-amount is passed on, also one below the transfer; left    *)
(* empty, the amount of the transfer is approved: 1.                       *)
Flags == [dry : BOOLEAN, approve : BOOLEAN, skipChecks : BOOLEAN,
          approveAmount : {1} \cup ApproveAmounts]

Pcs == {"idle", "tokens", "preflight", "rawBridge", "confirm", "unlock", "allowance",
        "rawApprove", "approveCast", "wait", "sign", "bridgeCast", "ended"}

TypeOK ==
  /\ ChainTypeOK
  /\ pc \in Pcs
  /\ run \in 0..MaxRuns
  /\ opts \in Flags
  /\ ownSpender \in BOOLEAN
  /\ bridgeNonce \in Nat
  /\ approveNonce \in Nat
  /\ consented \in BOOLEAN
  /\ checked \in {"unknown", "enough", "low"}
  /\ verdict \in {"open", "ok", "failed"}

Init ==
  /\ ChainInit
  /\ pc = "idle"
  /\ run = 0
  /\ opts = [dry |-> FALSE, approve |-> FALSE, skipChecks |-> FALSE,
             approveAmount |-> 1]
  /\ ownSpender \in BOOLEAN
  /\ bridgeNonce = 0
  /\ approveNonce = 0
  /\ consented = FALSE
  /\ checked = "unknown"
  /\ verdict = "open"

-----------------------------------------------------------------------------

Goto(step) == pc' = step /\ UNCHANGED verdict

Return(v) == pc' = "ended" /\ verdict' = v

(* The loaded transaction, the key and the last check stay as they are. *)
Keep == UNCHANGED <<bridgeNonce, approveNonce, consented, checked>>

(* A call fails, the user declines, or the wallet does not match: the run  *)
(* returns the error.                                                      *)
GiveUp == Return("failed") /\ Keep

(* The nonce the signer gives the API's transaction: the one the API put   *)
(* in it, pending when it was built; parseUint64 of an absent one is 0.    *)
NoncesOfRaw == IF Ordered THEN {0, PendingNonce} ELSE {PendingNonce}

Start(o) ==
  /\ pc \in {"idle", "ended"}
  /\ run < MaxRuns
  /\ run' = run + 1
  /\ opts' = o
  /\ pc' = "tokens"
  /\ verdict' = "open"
  /\ consented' = FALSE
  /\ checked' = "unknown"
  /\ UNCHANGED <<chainVars, ownSpender, bridgeNonce, approveNonce>>

(* Tokens, wallet and sender. *)
Tokens ==
  /\ pc = "tokens"
  /\ \/ GiveUp
     \/ /\ Goto(IF opts.dry \/ opts.skipChecks THEN "rawBridge" ELSE "preflight")
        /\ Keep
  /\ UNCHANGED <<chainVars, run, opts, ownSpender>>

(* What GET /check/bridge/allowance may find.  It is asked without the     *)
(* messenger, so that of one with a contract of its own it reads another   *)
(* allowance than the transfer will use.                                   *)
Readings ==
  IF ownSpender THEN {IF allowance >= 1 THEN "enough" ELSE "low"} ELSE {"enough", "low"}

(* runPreflight: only without --approve is a low allowance an error, and   *)
(* a check that fails to answer is not.                                    *)
Preflight ==
  /\ pc = "preflight"
  /\ \/ GiveUp
     \/ /\ \/ opts.approve /\ UNCHANGED checked
           \/ ~opts.approve /\ checked' = "unknown"
           \/ ~opts.approve /\ "enough" \in Readings /\ checked' = "enough"
        /\ Goto("rawBridge")
        /\ UNCHANGED <<bridgeNonce, approveNonce, consented>>
  /\ UNCHANGED <<chainVars, run, opts, ownSpender>>

(* Seeded fault: the approve flow runs before the confirmation. *)
RawBridgeUnconfirmed ==
  /\ pc = "rawBridge"
  /\ bridgeNonce' \in NoncesOfRaw
  /\ Goto(IF opts.approve THEN "allowance" ELSE "confirm")
  /\ UNCHANGED <<approveNonce, consented, checked, chainVars, run, opts, ownSpender>>

(* GET /raw/bridge; a dry run prints the transaction and returns. *)
RawBridge ==
  /\ pc = "rawBridge"
  /\ \/ GiveUp
     \/ /\ bridgeNonce' \in NoncesOfRaw
        /\ IF opts.dry THEN Return("ok") ELSE Goto("confirm")
        /\ UNCHANGED <<approveNonce, consented, checked>>
  /\ UNCHANGED <<chainVars, run, opts, ownSpender>>

(* confirmSend: --yes, or the user answers yes on a terminal. *)
Confirm ==
  /\ pc = "confirm"
  /\ \/ GiveUp
     \/ Goto("unlock") /\ Keep
  /\ UNCHANGED <<chainVars, run, opts, ownSpender>>

(* Passphrase, decryption, signer and broadcaster; --approve is refused    *)
(* for the families that have no approve flow.                             *)
Unlock ==
  /\ pc = "unlock"
  /\ \/ GiveUp
     \/ /\ opts.approve => family # "SOL"
        /\ consented' = TRUE
        /\ Goto(IF opts.approve THEN "allowance" ELSE "sign")
        /\ UNCHANGED <<bridgeNonce, approveNonce, checked>>
  /\ UNCHANGED <<chainVars, run, opts, ownSpender>>

(* The approve flow: an allowance found enough is taken as it is. *)
CheckAllowance ==
  /\ pc = "allowance"
  /\ \/ GiveUp
     \/ /\ checked' \in Readings
        /\ Goto(IF checked' = "enough" THEN "sign" ELSE "rawApprove")
        /\ UNCHANGED <<bridgeNonce, approveNonce, consented>>
  /\ UNCHANGED <<chainVars, run, opts, ownSpender>>

(* GET /raw/bridge/approve, with the messenger, and the signature of what  *)
(* it returns.                                                             *)
RawApprove ==
  /\ pc = "rawApprove"
  /\ \/ GiveUp
     \/ /\ approveNonce' \in NoncesOfRaw
        /\ Goto("approveCast")
        /\ UNCHANGED <<bridgeNonce, consented, checked>>
  /\ UNCHANGED <<chainVars, run, opts, ownSpender>>

CastApprove ==
  /\ pc = "approveCast"
  /\ \E answer \in Answers :
       /\ Submit(Tx("approve", run, approveNonce, opts.approveAmount), answer)
       /\ IF answer = "ok" THEN Goto("wait") ELSE Return("failed")
  /\ UNCHANGED <<run, opts, ownSpender, bridgeNonce, approveNonce, consented, checked>>

(* Seeded fault: the deadline is taken for a receipt. *)
WaitApproveAnyhow ==
  /\ pc = "wait"
  /\ Goto("sign")
  /\ Keep
  /\ UNCHANGED <<chainVars, run, opts, ownSpender>>

(* WaitForReceipt, on EVM and on Tron: mined, reverted, or the deadline.   *)
WaitApprove ==
  /\ pc = "wait"
  /\ \/ GiveUp
     \/ /\ MinedAs("approve", run, "ok")
        /\ Goto("sign")
        /\ Keep
  /\ UNCHANGED <<chainVars, run, opts, ownSpender>>

(* The transaction /raw/bridge returned before the approve flow is signed. *)
Sign ==
  /\ pc = "sign"
  /\ \/ GiveUp
     \/ Goto("bridgeCast") /\ Keep
  /\ UNCHANGED <<chainVars, run, opts, ownSpender>>

CastBridge ==
  /\ pc = "bridgeCast"
  /\ \E answer \in Answers :
       /\ Submit(Tx("bridge", run, bridgeNonce, 0), answer)
       /\ Return(IF answer = "ok" THEN "ok" ELSE "failed")
  /\ UNCHANGED <<run, opts, ownSpender, bridgeNonce, approveNonce, consented, checked>>

RunStep ==
  \/ Tokens \/ Preflight \/ RawBridge \/ Confirm \/ Unlock \/ CheckAllowance
  \/ RawApprove \/ CastApprove \/ WaitApprove \/ Sign \/ CastBridge

World == ChainStep /\ UNCHANGED runVars

Next == (\E o \in Flags : Start(o)) \/ RunStep \/ World

Spec == Init /\ [][Next]_vars

-----------------------------------------------------------------------------

(* No transaction reaches the node, the approval included, before the user *)
(* has confirmed the transfer and unlocked the key for this run.           *)
NothingSentUnasked ==
  Sent("approve", run) \cup Sent("bridge", run) # {} => consented /\ ~opts.dry

(* A transfer whose allowance the preflight or the approve flow has found  *)
(* or made fails for want of it for four reasons only: the check read the  *)
(* allowance of another contract than the messenger's, an approval was of  *)
(* less than the transfer, or another program or another run has used the  *)
(* allowance since.  No order of waits, blocks, lost answers and repeated  *)
(* runs is a reason by itself.                                             *)
LackHasACause ==
  (opts.approve \/ checked = "enough") /\ MinedAs("bridge", run, "noallowance") =>
    \/ ~ownSpender /\ checked = "enough"
    \/ \E t \in OnChain : t.kind = "approve" /\ t.allows = 0
    \/ rivals > 0
    \/ \E t \in OnChain : t.kind = "bridge" /\ t.run # run

(* A run implements the promise of `bridge send`. *)
Approval ==
  IF Sent("approve", run) = {} THEN "none"
  ELSE IF MinedAs("approve", run, "ok") THEN "settled"
  ELSE IF MinedAs("approve", run, "reverted") THEN "reverted" ELSE "sent"

Promise == INSTANCE Transfer WITH
  waits <- TRUE,
  dry <- opts.dry,
  approval <- Approval,
  bridge <- IF Sent("bridge", run) = {} THEN "none" ELSE "sent",
  verdict <- verdict

KeepsPromise == Promise!Spec
=============================================================================
