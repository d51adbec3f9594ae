---------------------------- MODULE SendCoreProofs ---------------------------
(***************************************************************************)
(* What SendCore promises, for any number of runs and of rivals, and for   *)
(* any amounts of --approve-amount.                                        *)
(***************************************************************************)
EXTENDS SendCore, SourceChainProofs

(* The runs' own steps that neither submit a transaction nor start a run.  *)
Inner ==
  \/ Tokens \/ Preflight \/ RawBridge \/ Confirm \/ Unlock \/ CheckAllowance
  \/ RawApprove \/ WaitApprove \/ Sign

LEMMA InnerKeepsChain == ASSUME Inner PROVE UNCHANGED <<chainVars, run, opts, ownSpender>>
BY DEF Inner, Tokens, Preflight, RawBridge, Confirm, Unlock, CheckAllowance,
       RawApprove, WaitApprove, Sign

-----------------------------------------------------------------------------
(* Types *)

(* The nonces the API put in the transactions are not ahead of the account.*)
NonceInv ==
  /\ PoolInv
  /\ Ordered => bridgeNonce <= PendingNonce /\ approveNonce <= PendingNonce

LEMMA InnerKeepsTypes ==
  ASSUME TypeOK, NonceInv, Inner
  PROVE  TypeOK' /\ NonceInv'
<1> USE DEF Pcs, Goto, Return, GiveUp, Keep
<1>1. ChainTypeOK' /\ run' \in 0..MaxRuns /\ opts' \in Flags /\ ownSpender' \in BOOLEAN
  BY InnerKeepsChain DEF TypeOK, ChainTypeOK, chainVars, Flags
<1>2. PendingNonce \in Nat /\ NoncesOfRaw \subseteq Nat
      /\ \A n \in NoncesOfRaw : n <= PendingNonce
  BY PendingNonceIsNat DEF TypeOK, NonceInv, PoolInv, NoncesOfRaw
<1>3. PoolInv' /\ PendingNonce' = PendingNonce /\ Ordered' = Ordered
  BY InnerKeepsChain DEF NonceInv, PoolInv, PendingNonce, Ordered, chainVars
<1>4. CASE Tokens
  BY <1>1, <1>3, <1>4 DEF TypeOK, NonceInv, Tokens
<1>5. CASE Preflight
  BY <1>1, <1>3, <1>5 DEF TypeOK, NonceInv, Preflight
<1>6. CASE RawBridge
  BY <1>1, <1>2, <1>3, <1>6 DEF TypeOK, NonceInv, RawBridge
<1>7. CASE Confirm
  BY <1>1, <1>3, <1>7 DEF TypeOK, NonceInv, Confirm
<1>8. CASE Unlock
  BY <1>1, <1>3, <1>8 DEF TypeOK, NonceInv, Unlock
<1>9. CASE CheckAllowance
  <2>1. checked' \in {"unknown", "enough", "low"}
    BY <1>9 DEF TypeOK, CheckAllowance, Readings
  <2> QED BY <1>1, <1>3, <1>9, <2>1 DEF TypeOK, NonceInv, CheckAllowance
<1>10. CASE RawApprove
  BY <1>1, <1>2, <1>3, <1>10 DEF TypeOK, NonceInv, RawApprove
<1>11. CASE WaitApprove
  BY <1>1, <1>3, <1>11 DEF TypeOK, NonceInv, WaitApprove
<1>12. CASE Sign
  BY <1>1, <1>3, <1>12 DEF TypeOK, NonceInv, Sign
<1> QED
  BY <1>4, <1>5, <1>6, <1>7, <1>8, <1>9, <1>10, <1>11, <1>12 DEF Inner

LEMMA StartKeepsTypes ==
  ASSUME TypeOK, NonceInv, NEW o \in Flags, Start(o)
  PROVE  TypeOK' /\ NonceInv'
<1>1. UNCHANGED <<chainVars, ownSpender, bridgeNonce, approveNonce>>
  BY DEF Start
<1>2. run' \in 0..MaxRuns
  BY ChainConstants DEF Start, TypeOK
<1>3. TypeOK'
  BY <1>1, <1>2 DEF Start, TypeOK, ChainTypeOK, chainVars, Pcs, Flags
<1> QED BY <1>1, <1>3 DEF NonceInv, PoolInv, PendingNonce, Ordered, chainVars

(* The transactions a run submits. *)
Approval_ == Tx("approve", run, approveNonce, opts.approveAmount)

Bridge_ == Tx("bridge", run, bridgeNonce, 0)

LEMMA CastsAreTyped ==
  ASSUME ApproveAmountsConstant, TypeOK
  PROVE  /\ Approval_ \in Txs /\ Approval_.nonce = approveNonce
         /\ Approval_.kind = "approve" /\ Approval_.run = run
         /\ Bridge_ \in Txs /\ Bridge_.nonce = bridgeNonce
         /\ Bridge_.kind = "bridge" /\ Bridge_.run = run
<1>1. opts.approveAmount \in {1} \cup ApproveAmounts
  BY DEF TypeOK, Flags
<1>2. {1} \cup ApproveAmounts \subseteq Nat
  BY DEF ApproveAmountsConstant
<1>3. opts.approveAmount \in Nat
  BY <1>1, <1>2, Zenon
<1> QED BY <1>3 DEF TypeOK, Approval_, Bridge_, Tx, Txs

LEMMA CastKeepsTypes ==
  ASSUME ApproveAmountsConstant, TypeOK, NonceInv, CastApprove \/ CastBridge
  PROVE  TypeOK' /\ NonceInv'
<1>1. PICK t \in Txs, answer \in Answers :
        /\ Submit(t, answer)
        /\ t.nonce \in {approveNonce, bridgeNonce}
        /\ pc' \in Pcs /\ verdict' \in {"open", "ok", "failed"}
  <2>1. CASE CastApprove
    BY <2>1, CastsAreTyped DEF CastApprove, Approval_, Goto, Return, Pcs, TypeOK
  <2>2. CASE CastBridge
    BY <2>2, CastsAreTyped DEF CastBridge, Bridge_, Goto, Return, Pcs, TypeOK
  <2> QED BY <2>1, <2>2
<1>2. UNCHANGED <<run, opts, ownSpender, bridgeNonce, approveNonce, consented, checked>>
  BY DEF CastApprove, CastBridge
<1>3. /\ ChainTypeOK' /\ PoolInv'
      /\ Ordered /\ answer \in {"ok", "lost"} => PendingNonce' = PendingNonce + 1
      /\ answer \notin {"ok", "lost"} => PendingNonce' = PendingNonce
  BY <1>1, SubmitKeepsTypes DEF TypeOK, NonceInv
<1>4. UNCHANGED family
  BY <1>1, SubmitAdds
<1>5. TypeOK'
  BY <1>1, <1>2, <1>3 DEF TypeOK
<1>6. PendingNonce \in Nat /\ bridgeNonce \in Nat /\ approveNonce \in Nat
  BY PendingNonceIsNat DEF TypeOK, NonceInv, PoolInv
<1> QED BY <1>2, <1>3, <1>4, <1>5, <1>6 DEF NonceInv, Ordered

LEMMA WorldKeepsTypes ==
  ASSUME TypeOK, NonceInv, World
  PROVE  TypeOK' /\ NonceInv'
<1>1. ChainStep /\ UNCHANGED runVars
  BY DEF World
<1>2. ChainTypeOK' /\ PoolInv' /\ (Ordered => PendingNonce' >= PendingNonce)
  BY <1>1, ChainStepKeepsTypes DEF TypeOK, NonceInv
<1>3. UNCHANGED family
  BY <1>1, ChainStepKeepsSent
<1>4. TypeOK'
  BY <1>1, <1>2 DEF TypeOK, runVars
<1>5. PendingNonce \in Nat /\ PendingNonce' \in Nat
  BY <1>2, PendingNonceIsNat, FS_CardinalityType
     DEF TypeOK, NonceInv, PoolInv, PendingNonce, ChainTypeOK
<1> QED BY <1>1, <1>2, <1>3, <1>4, <1>5 DEF NonceInv, Ordered, runVars, TypeOK

LEMMA NextKeepsTypes ==
  ASSUME ApproveAmountsConstant, TypeOK, NonceInv, [Next]_vars
  PROVE  TypeOK' /\ NonceInv'
<1>1. CASE UNCHANGED vars
  BY <1>1 DEF vars, chainVars, runVars, TypeOK, ChainTypeOK, NonceInv, PoolInv,
              PendingNonce, Ordered
<1>2. CASE \E o \in Flags : Start(o)
  BY <1>2, StartKeepsTypes
<1> QED
  BY <1>1, <1>2, InnerKeepsTypes, CastKeepsTypes, WorldKeepsTypes DEF Next, RunStep, Inner

LEMMA InitIsTyped == ASSUME Init PROVE TypeOK /\ NonceInv
<1>1. ChainTypeOK /\ PoolInv
  BY ChainInitIsTyped DEF Init
<1>2. PendingNonce \in Nat
  BY <1>1, PendingNonceIsNat DEF PoolInv
<1>3. run \in 0..MaxRuns /\ opts \in Flags
  BY ChainConstants DEF Init, Flags
<1>4. TypeOK
  BY <1>1, <1>3 DEF Init, TypeOK, Pcs
<1> QED BY <1>1, <1>2, <1>4 DEF Init, NonceInv

(* Every variable has its type, whatever the runs, rivals and amounts.     *)
THEOREM CoreTypeCorrect ==
  ASSUME ApproveAmountsConstant
  PROVE  Spec => []TypeOK
<1>1. TypeOK /\ NonceInv /\ [Next]_vars => TypeOK' /\ NonceInv'
  BY NextKeepsTypes
<1> QED BY <1>1, InitIsTyped, PTL DEF Spec

-----------------------------------------------------------------------------
(* Which transactions a run has sent when *)

Approving == {"allowance", "rawApprove", "approveCast", "wait"}

(* Where a run is: past Unlock it has the user's consent, a dry run never  *)
(* gets to Confirm, and only a run with --approve, never on Solana, has an *)
(* approve flow.                                                           *)
FlowInv ==
  /\ pc = "idle" => run = 0 /\ verdict = "open"
  /\ pc # "idle" => run >= 1
  /\ pc = "ended" => verdict # "open"
  /\ pc \notin {"idle", "ended"} => verdict = "open"
  /\ pc \in {"confirm", "unlock", "sign", "bridgeCast"} \cup Approving => ~opts.dry
  /\ pc \in {"sign", "bridgeCast"} \cup Approving => consented
  /\ pc \in Approving => opts.approve /\ family # "SOL"

LEMMA FlowInvInductive ==
  ASSUME TypeOK, FlowInv, [Next]_vars
  PROVE  FlowInv'
<1> USE DEF FlowInv, Approving, Goto, Return, GiveUp, Keep
<1>1. run \in Nat
  BY ChainConstants DEF TypeOK
<1>2. CASE UNCHANGED vars
  BY <1>2 DEF vars, runVars, chainVars
<1>3. ASSUME NEW o \in Flags, Start(o) PROVE FlowInv'
  BY <1>1, <1>3 DEF Start
<1>4. CASE Inner
  <2>1. UNCHANGED <<family, run, opts>>
    BY <1>4, InnerKeepsChain DEF chainVars
  <2>2. CASE Tokens
    BY <2>1, <2>2 DEF Tokens
  <2>3. CASE Preflight
    BY <2>1, <2>3 DEF Preflight
  <2>4. CASE RawBridge
    BY <2>1, <2>4 DEF RawBridge
  <2>5. CASE Confirm
    BY <2>1, <2>5 DEF Confirm
  <2>6. CASE Unlock
    BY <2>1, <2>6 DEF Unlock
  <2>7. CASE CheckAllowance
    BY <2>1, <2>7 DEF CheckAllowance
  <2>8. CASE RawApprove
    BY <2>1, <2>8 DEF RawApprove
  <2>9. CASE WaitApprove
    BY <2>1, <2>9 DEF WaitApprove
  <2>10. CASE Sign
    BY <2>1, <2>10 DEF Sign
  <2> QED
    BY <1>4, <2>2, <2>3, <2>4, <2>5, <2>6, <2>7, <2>8, <2>9, <2>10 DEF Inner
<1>5. CASE CastApprove
  BY <1>5, SubmitAdds DEF CastApprove
<1>6. CASE CastBridge
  BY <1>6, SubmitAdds DEF CastBridge
<1>7. CASE World
  BY <1>7, ChainStepKeepsSent DEF World, runVars
<1> QED BY <1>2, <1>3, <1>4, <1>5, <1>6, <1>7 DEF Next, RunStep, Inner

Early == {"tokens", "preflight", "rawBridge", "confirm", "unlock"}
           \cup (Approving \ {"wait"})

(* Nothing is sent before its broadcast, twice or without consent, no run  *)
(* to come has sent anything, and a transfer is sent by a run that had no  *)
(* approval to wait for or has seen its receipt.                           *)
SentInv ==
  /\ \A t \in OnChain : t.kind \in Kinds => t.run >= 1 /\ t.run <= run
  /\ \A t, u \in OnChain : t.kind \in Kinds /\ t.kind = u.kind /\ t.run = u.run => t = u
  /\ \A t \in OnChain : t.kind \in Kinds /\ t.run = run => consented /\ ~opts.dry
  /\ pc \in Early => \A t \in OnChain : t.kind = "approve" => t.run # run
  /\ pc # "ended" => \A t \in OnChain : t.kind = "bridge" => t.run # run
  /\ pc \in {"sign", "bridgeCast"} =>
       \A t \in OnChain : t.kind = "approve" /\ t.run = run => MinedAs("approve", run, "ok")
  /\ \A t, u \in OnChain :
       t.kind = "approve" /\ u.kind = "bridge" /\ t.run = u.run => MinedAs("approve", t.run, "ok")

LEMMA InnerMoves ==
  ASSUME FlowInv, Inner
  PROVE  /\ pc \notin {"idle", "ended"} /\ pc' # "idle"
         /\ pc' \in Early => pc \in Early
         /\ pc' \in {"sign", "bridgeCast"} =>
              pc \in Early \cup {"sign"} \/ (pc = "wait" /\ MinedAs("approve", run, "ok"))
         /\ consented => consented'
<1> USE DEF FlowInv, Early, Approving, Goto, Return, GiveUp, Keep
<1>1. CASE Tokens
  BY <1>1 DEF Tokens
<1>2. CASE Preflight
  BY <1>2 DEF Preflight
<1>3. CASE RawBridge
  BY <1>3 DEF RawBridge
<1>4. CASE Confirm
  BY <1>4 DEF Confirm
<1>5. CASE Unlock
  BY <1>5 DEF Unlock
<1>6. CASE CheckAllowance
  BY <1>6 DEF CheckAllowance
<1>7. CASE RawApprove
  BY <1>7 DEF RawApprove
<1>8. CASE WaitApprove
  BY <1>8 DEF WaitApprove
<1>9. CASE Sign
  BY <1>9 DEF Sign
<1> QED BY <1>1, <1>2, <1>3, <1>4, <1>5, <1>6, <1>7, <1>8, <1>9 DEF Inner

LEMMA InnerKeepsSent ==
  ASSUME FlowInv, SentInv, Inner
  PROVE  SentInv'
<1>1. UNCHANGED <<OnChain, mined, family, run, opts>>
  BY InnerKeepsChain DEF chainVars, OnChain
<1>2. \A k, r, s : MinedAs(k, r, s)' <=> MinedAs(k, r, s)
  BY <1>1 DEF MinedAs
<1>3. pc # "ended" /\ (pc' \in Early => pc \in Early) /\ (consented => consented')
  BY InnerMoves
<1>4. pc' \in {"sign", "bridgeCast"} =>
        \A t \in OnChain : t.kind = "approve" /\ t.run = run => MinedAs("approve", run, "ok")
  BY InnerMoves DEF SentInv
<1> QED BY <1>1, <1>2, <1>3, <1>4 DEF SentInv

LEMMA StartKeepsSent ==
  ASSUME TypeOK, SentInv, NEW o \in Flags, Start(o)
  PROVE  /\ SentInv'
         /\ \A t \in OnChain' : t.kind \in Kinds => t.run # run'
<1>1. /\ UNCHANGED <<OnChain, mined, family>> /\ run' = run + 1 /\ run \in Nat
      /\ pc' = "tokens"
  BY ChainConstants DEF Start, chainVars, OnChain, TypeOK
<1>2. \A k, r, s : MinedAs(k, r, s)' <=> MinedAs(k, r, s)
  BY <1>1 DEF MinedAs
<1>3. \A t \in OnChain : t.kind \in Kinds => t.run >= 1 /\ t.run <= run /\ t.run \in Nat
  BY DEF SentInv, TypeOK, ChainTypeOK, OnChain, Txs
<1>4. \A t \in OnChain : t.kind \in Kinds => t.run # run' /\ t.run >= 1 /\ t.run <= run'
  BY <1>1, <1>3
<1> QED BY <1>1, <1>2, <1>4 DEF SentInv, Kinds

LEMMA CastApproveKeepsSent ==
  ASSUME ApproveAmountsConstant, TypeOK, FlowInv, SentInv, CastApprove
  PROVE  SentInv'
<1>1. PICK answer \in Answers : Submit(Approval_, answer)
  BY DEF CastApprove, Approval_
<1>2. /\ OnChain' = OnChain \/ OnChain' = OnChain \cup {Approval_}
      /\ UNCHANGED <<mined, family, run, opts, consented>>
  BY <1>1, SubmitAdds DEF CastApprove
<1>3. Approval_.kind = "approve" /\ Approval_.run = run
  BY CastsAreTyped
<1>4. pc = "approveCast" /\ pc' \in {"ended", "wait"}
  BY DEF CastApprove, Goto, Return
<1>5. consented /\ ~opts.dry /\ run >= 1 /\ run \in Nat
  BY <1>4, ChainConstants DEF FlowInv, Approving, TypeOK
<1>6. \A t \in OnChain : t.kind \in Kinds => t.run # run
  BY <1>4 DEF SentInv, Early, Approving, Kinds
<1>7. \A k, r, s : MinedAs(k, r, s)' <=> MinedAs(k, r, s)
  BY <1>2 DEF MinedAs
<1>8. pc' \notin Early
  BY <1>4 DEF Early, Approving
<1> HIDE DEF Approval_
<1>9. \A t \in OnChain' : t \in OnChain \/ t = Approval_
  BY <1>2
<1>10. \A t \in OnChain' : t.kind \in Kinds => t.run >= 1 /\ t.run <= run'
  BY <1>2, <1>3, <1>5, <1>9 DEF SentInv
<1>11. \A t, u \in OnChain' :
         t.kind \in Kinds /\ t.kind = u.kind /\ t.run = u.run => t = u
  BY <1>3, <1>6, <1>9 DEF SentInv
<1>12. \A t \in OnChain' : t.kind = "bridge" => t \in OnChain /\ t.run # run
  BY <1>3, <1>6, <1>9 DEF Kinds
<1>13. \A t, u \in OnChain' :
         t.kind = "approve" /\ u.kind = "bridge" /\ t.run = u.run => MinedAs("approve", t.run, "ok")
  BY <1>3, <1>9, <1>12 DEF SentInv
<1> QED BY <1>2, <1>4, <1>5, <1>7, <1>8, <1>10, <1>11, <1>12, <1>13 DEF SentInv

LEMMA CastBridgeKeepsSent ==
  ASSUME ApproveAmountsConstant, TypeOK, FlowInv, SentInv, CastBridge
  PROVE  SentInv'
<1>1. PICK answer \in Answers : Submit(Bridge_, answer)
  BY DEF CastBridge, Bridge_
<1>2. /\ OnChain' = OnChain \/ OnChain' = OnChain \cup {Bridge_}
      /\ UNCHANGED <<mined, family, run, opts, consented>>
  BY <1>1, SubmitAdds DEF CastBridge
<1>3. Bridge_.kind = "bridge" /\ Bridge_.run = run
  BY CastsAreTyped
<1>4. pc = "bridgeCast" /\ pc' = "ended"
  BY DEF CastBridge, Return
<1>5. consented /\ ~opts.dry /\ run >= 1 /\ run \in Nat
  BY <1>4, ChainConstants DEF FlowInv, TypeOK
<1>6. \A t \in OnChain : t.kind = "bridge" => t.run # run
  BY <1>4 DEF SentInv
<1>7. \A k, r, s : MinedAs(k, r, s)' <=> MinedAs(k, r, s)
  BY <1>2 DEF MinedAs
<1> HIDE DEF Bridge_
<1>8. \A t \in OnChain' : t \in OnChain \/ t = Bridge_
  BY <1>2
<1>9. \A t \in OnChain' : t.kind \in Kinds => t.run >= 1 /\ t.run <= run'
  BY <1>2, <1>3, <1>5, <1>8 DEF SentInv
<1>10. \A t, u \in OnChain' :
         t.kind \in Kinds /\ t.kind = u.kind /\ t.run = u.run => t = u
  BY <1>3, <1>6, <1>8 DEF SentInv
<1>11. \A t \in OnChain' : t.kind = "approve" => t \in OnChain
  BY <1>3, <1>8
<1>12. ASSUME NEW t \in OnChain', NEW u \in OnChain',
              t.kind = "approve", u.kind = "bridge", t.run = u.run
       PROVE  MinedAs("approve", t.run, "ok")
  <2>1. CASE u \in OnChain
    BY <1>11, <1>12, <2>1 DEF SentInv
  <2>2. CASE u = Bridge_
    BY <1>3, <1>4, <1>11, <1>12, <2>2 DEF SentInv
  <2> QED BY <1>8, <2>1, <2>2
<1> QED
  BY <1>2, <1>4, <1>5, <1>7, <1>9, <1>10, <1>12 DEF SentInv, Early, Approving

LEMMA WorldKeepsSent ==
  ASSUME SentInv, World
  PROVE  SentInv'
<1>1. /\ \A t \in OnChain' : t \in OnChain \/ t.kind = "other"
      /\ mined \subseteq mined'
  BY ChainStepKeepsSent DEF World
<1>2. UNCHANGED <<pc, run, opts, consented>>
  BY DEF World, runVars
<1>3. \A k, r, s : MinedAs(k, r, s) => MinedAs(k, r, s)'
  BY <1>1 DEF MinedAs
<1>4. \A t \in OnChain' : t.kind \in Kinds => t \in OnChain
  BY <1>1 DEF Kinds
<1> QED BY <1>1, <1>2, <1>3, <1>4 DEF SentInv, Kinds

LEMMA SentInvInductive ==
  ASSUME ApproveAmountsConstant, TypeOK, FlowInv, SentInv, [Next]_vars
  PROVE  SentInv'
<1>1. CASE UNCHANGED vars
  BY <1>1 DEF vars, chainVars, runVars, SentInv, OnChain, MinedAs
<1>2. CASE \E o \in Flags : Start(o)
  BY <1>2, StartKeepsSent
<1> QED
  BY <1>1, <1>2, InnerKeepsSent, CastApproveKeepsSent, CastBridgeKeepsSent, WorldKeepsSent
     DEF Next, RunStep, Inner

LEMMA InitHasSentNothing == ASSUME Init PROVE FlowInv /\ SentInv
<1>1. OnChain = {}
  BY DEF Init, ChainInit, OnChain
<1> QED BY <1>1 DEF Init, FlowInv, SentInv, Early, Approving

LEMMA AlwaysSentInv ==
  ASSUME ApproveAmountsConstant
  PROVE  Spec => [](TypeOK /\ FlowInv /\ SentInv)
<1>1. TypeOK /\ FlowInv /\ SentInv /\ [Next]_vars => FlowInv' /\ SentInv'
  BY FlowInvInductive, SentInvInductive
<1> QED BY <1>1, InitHasSentNothing, CoreTypeCorrect, PTL DEF Spec

(* Nothing is sent, the approval included, before the user has confirmed   *)
(* and unlocked the key, nor by a dry run.                                 *)
THEOREM NothingIsSentUnasked ==
  ASSUME ApproveAmountsConstant
  PROVE  Spec => []NothingSentUnasked
<1>1. SentInv => NothingSentUnasked
  BY DEF SentInv, NothingSentUnasked, Sent, Kinds
<1> QED BY <1>1, AlwaysSentInv, PTL

-----------------------------------------------------------------------------
(* The allowance a checked transfer finds *)

(* The run has seen the messenger's allowance, or the receipt of its       *)
(* approval.                                                               *)
Learnt == (ownSpender /\ checked = "enough") \/ MinedAs("approve", run, "ok")

(* Nobody else has used the account, nor another run the allowance, and    *)
(* every approval is of a whole transfer.                                  *)
Alone ==
  /\ rivals = 0
  /\ \A t \in OnChain : t.kind = "bridge" => t.run = run
  /\ \A t \in OnChain : t.kind = "approve" => t.allows # 0

(* What a run that is alone has learnt stays true until its own transfer   *)
(* is mined, which then finds its allowance.                               *)
AllowInv ==
  /\ rivals = 0 => \A t \in OnChain : t.kind \in Kinds
  /\ opts.approve /\ (pc \in {"sign", "bridgeCast"} \/ Sent("bridge", run) # {}) =>
       checked = "enough" \/ Learnt
  /\ Alone /\ Learnt /\ family # "SOL"
       /\ (\A r \in mined : r.tx.kind = "bridge" => r.tx.run # run) => allowance >= 1
  /\ Alone /\ Learnt => ~MinedAs("bridge", run, "noallowance")

(* A run learns of an allowance that is there. *)
LEMMA InnerKeepsAllowance ==
  ASSUME TypeOK, FlowInv, SentInv, AllowInv, Inner
  PROVE  AllowInv'
<1>1. UNCHANGED <<OnChain, mined, family, run, opts, ownSpender, allowance, rivals>>
  BY InnerKeepsChain DEF chainVars, OnChain
<1>2. /\ \A k, r, s : MinedAs(k, r, s)' <=> MinedAs(k, r, s)
      /\ Alone' <=> Alone
      /\ Sent("bridge", run)' = Sent("bridge", run)
  BY <1>1 DEF MinedAs, Alone, Sent
<1>3. Sent("bridge", run) = {}
  BY InnerMoves DEF SentInv, Sent
<1>4. checked' = "enough" => checked = "enough" \/ "enough" \in Readings
  BY DEF Inner, Tokens, Preflight, RawBridge, Confirm, Unlock, CheckAllowance,
         RawApprove, WaitApprove, Sign, GiveUp, Keep
<1>9. ownSpender /\ "enough" \in Readings => allowance >= 1
  BY DEF Readings
<1>5. ~MinedAs("bridge", run, "noallowance")
  BY <1>3 DEF MinedAs, Sent, OnChain
<1>6. \A r \in mined : r.tx.kind = "bridge" => r.tx.run # run
  BY <1>3 DEF Sent, OnChain
<1>7. opts.approve /\ pc' \in {"sign", "bridgeCast"} => checked' = "enough" \/ Learnt'
  <2>1. CASE Unlock
    BY <2>1 DEF Unlock, Goto, Return, GiveUp
  <2>2. CASE CheckAllowance
    BY <2>2 DEF CheckAllowance, Goto, Return, GiveUp, Learnt
  <2>3. CASE WaitApprove
    BY <1>2, <1>1, <2>3 DEF WaitApprove, Goto, Return, GiveUp, Learnt
  <2>4. CASE Sign
    BY <1>1, <1>2, <2>4 DEF Sign, AllowInv, Learnt, Goto, Return, GiveUp, Keep
  <2>5. CASE Tokens \/ Preflight \/ RawBridge \/ Confirm \/ RawApprove
    BY <2>5 DEF Tokens, Preflight, RawBridge, Confirm, RawApprove, Goto, Return, GiveUp
  <2> QED BY <2>1, <2>2, <2>3, <2>4, <2>5 DEF Inner
<1>8. Alone /\ Learnt' /\ family # "SOL" => allowance >= 1
  BY <1>1, <1>2, <1>4, <1>6, <1>9 DEF Learnt, AllowInv
<1> QED BY <1>1, <1>2, <1>3, <1>5, <1>7, <1>8 DEF AllowInv

LEMMA StartKeepsAllowance ==
  ASSUME TypeOK, SentInv, AllowInv, NEW o \in Flags, Start(o)
  PROVE  AllowInv'
<1>1. UNCHANGED <<OnChain, mined, rivals>> /\ checked' = "unknown" /\ pc' = "tokens"
  BY DEF Start, chainVars, OnChain
<1>2. \A t \in OnChain' : t.kind \in Kinds => t.run # run'
  BY StartKeepsSent
<1>3. Sent("bridge", run)' = {} /\ ~Learnt'
  BY <1>1, <1>2 DEF Sent, Learnt, MinedAs, OnChain, Kinds
<1> QED BY <1>1, <1>3 DEF AllowInv

LEMMA CastKeepsAllowance ==
  ASSUME ApproveAmountsConstant, TypeOK, FlowInv, SentInv, AllowInv,
         CastApprove \/ CastBridge
  PROVE  AllowInv'
<1>1. PICK t, answer :
        /\ Submit(t, answer)
        /\ t.kind \in Kinds /\ t.run = run
        /\ t.kind = "bridge" => pc = "bridgeCast"
        /\ pc' \in {"ended", "wait"}
  <2>1. CASE CastApprove
    <3>1. PICK answer : Submit(Approval_, answer)
      BY <2>1 DEF CastApprove, Approval_
    <3>2. pc' \in {"ended", "wait"}
      BY <2>1 DEF CastApprove, Goto, Return
    <3> QED BY <3>1, <3>2, CastsAreTyped DEF Kinds
  <2>2. CASE CastBridge
    <3>1. PICK answer : Submit(Bridge_, answer)
      BY <2>2 DEF CastBridge, Bridge_
    <3>2. pc = "bridgeCast" /\ pc' \in {"ended", "wait"}
      BY <2>2 DEF CastBridge, Return
    <3> QED BY <3>1, <3>2, CastsAreTyped DEF Kinds
  <2> QED BY <2>1, <2>2
<1>2. /\ UNCHANGED <<mined, family, run, opts, ownSpender, allowance, rivals, checked>>
      /\ OnChain \subseteq OnChain'
      /\ \A u \in OnChain' : u \in OnChain \/ u = t
  BY <1>1, SubmitAdds DEF CastApprove, CastBridge
<1>3. (\A k, r, s : MinedAs(k, r, s)' <=> MinedAs(k, r, s)) /\ (Alone' => Alone)
  BY <1>2 DEF MinedAs, Alone
<1>4. Learnt' <=> Learnt
  BY <1>2, <1>3 DEF Learnt
<1>5. opts.approve /\ Sent("bridge", run)' # {} => checked = "enough" \/ Learnt
  <2>1. CASE Sent("bridge", run) # {}
    BY <2>1 DEF AllowInv
  <2>2. CASE Sent("bridge", run) = {}
    <3>1. \A u \in Sent("bridge", run)' : u = t /\ u.kind = "bridge"
      BY <1>2, <2>2 DEF Sent
    <3> QED BY <1>1, <3>1 DEF AllowInv
  <2> QED BY <2>1, <2>2
<1>6. rivals' = 0 => \A u \in OnChain' : u.kind \in Kinds
  BY <1>1, <1>2 DEF AllowInv
<1> QED BY <1>1, <1>2, <1>3, <1>4, <1>5, <1>6 DEF AllowInv

LEMMA WorldKeepsAllowance ==
  ASSUME TypeOK, FlowInv, SentInv, ReceiptInv, AllowInv, World
  PROVE  AllowInv'
<1>1. UNCHANGED <<pc, run, opts, ownSpender, checked, family>>
  BY ChainStepKeepsSent DEF World, runVars
<1>2. /\ OnChain \subseteq OnChain' /\ mined \subseteq mined'
      /\ \A t \in OnChain' : t \in OnChain \/ t.kind = "other"
  BY ChainStepKeepsSent DEF World
<1>3. Sent("bridge", run)' = Sent("bridge", run)
  BY <1>1, <1>2 DEF Sent
<1>4. Learnt => Learnt'
  BY <1>1, <1>2 DEF Learnt, MinedAs
<1>6. CASE Rival
  <2>1. rivals' > 0 /\ rivals' # 0
    BY <1>6 DEF Rival, TypeOK, ChainTypeOK
  <2> QED BY <1>1, <1>3, <1>4, <2>1 DEF AllowInv, Alone
<1>7. ASSUME NEW t \in pool, Mine(t) PROVE AllowInv'
  <2>1. PICK s \in Outcome(t) :
          /\ mined' = mined \cup {[tx |-> t, status |-> s]}
          /\ allowance' \in AllowanceAfter(t, s)
    BY <1>7 DEF Mine
  <2> DEFINE receipt == [tx |-> t, status |-> s]
  <2>2. receipt.tx = t /\ receipt.status = s /\ mined' = mined \cup {receipt}
    BY <2>1
  <2> HIDE DEF receipt
  <2>3. UNCHANGED rivals /\ t \in OnChain /\ OnChain' = OnChain
    BY <1>7, <2>2 DEF Mine, OnChain
  <2>4. Alone' <=> Alone
    BY <1>1, <2>3 DEF Alone
  <2>5. allowance \in Nat /\ (t.kind = "approve" => t.allows \in Nat)
    BY <1>7 DEF TypeOK, ChainTypeOK, Txs
  <2>6. ASSUME Alone, Learnt', family # "SOL",
               \A r \in mined' : r.tx.kind = "bridge" => r.tx.run # run
        PROVE  allowance' >= 1
    <3>1. ~(t.kind = "bridge") /\ t.kind \in Kinds
      BY <2>2, <2>3, <2>6 DEF Alone, AllowInv
    <3>2. t.kind = "approve" /\ s \in {"ok", "reverted"}
      BY <2>1, <3>1 DEF Kinds, Outcome
    <3>3. CASE s = "ok"
      <4>1. t.allows \in Nat /\ t.allows # 0
        BY <2>3, <2>5, <2>6, <3>2 DEF Alone
      <4> QED BY <2>1, <2>6, <3>2, <3>3, <4>1 DEF AllowanceAfter
    <3>4. CASE s = "reverted"
      <4>1. allowance' = allowance
        BY <2>1, <3>4 DEF AllowanceAfter
      <4>2. Learnt
        BY <1>1, <2>2, <2>6, <3>4 DEF Learnt, MinedAs
      <4> QED BY <1>2, <2>6, <4>1, <4>2 DEF AllowInv
    <3> QED BY <3>2, <3>3, <3>4
  <2>7. ASSUME Alone, Learnt', MinedAs("bridge", run, "noallowance")' PROVE FALSE
    <3>1. PICK r \in mined' : r.tx.kind = "bridge" /\ r.tx.run = run /\ r.status = "noallowance"
      BY <1>1, <2>7 DEF MinedAs
    <3>2. r.tx \in OnChain
      BY <2>2, <2>3, <3>1 DEF OnChain
    <3>3. Learnt
      <4> SUFFICES ASSUME ~Learnt PROVE FALSE
        OBVIOUS
      <4>1. MinedAs("approve", run, "ok")' /\ ~MinedAs("approve", run, "ok")
        BY <1>1, <2>7 DEF Learnt
      <4>2. t.kind = "approve" /\ t.run = run
        BY <1>1, <2>2, <4>1 DEF MinedAs
      <4> QED BY <2>3, <3>1, <3>2, <4>1, <4>2 DEF SentInv
    <3>4. CASE r \in mined
      BY <2>7, <3>1, <3>3, <3>4 DEF AllowInv, MinedAs
    <3>5. CASE r = receipt /\ r \notin mined
      <4>1. t.kind = "bridge" /\ t.run = run /\ s = "noallowance"
        BY <2>2, <3>1, <3>5
      <4>2. family # "SOL" /\ allowance = 0
        BY <2>1, <4>1 DEF Outcome
      <4>3. \A q \in mined : q.tx.kind = "bridge" => q.tx.run # run
        BY <2>3, <4>1 DEF SentInv, ReceiptInv, Kinds, OnChain
      <4> QED BY <2>7, <3>3, <4>2, <4>3 DEF AllowInv
    <3> QED BY <2>2, <3>4, <3>5
  <2> QED BY <1>1, <1>3, <1>4, <2>3, <2>4, <2>6, <2>7 DEF AllowInv
<1> QED BY <1>6, <1>7 DEF World, ChainStep

LEMMA ReceiptInvInductive ==
  ASSUME ApproveAmountsConstant, TypeOK, SentInv, ReceiptInv, [Next]_vars
  PROVE  ReceiptInv'
<1>1. CASE UNCHANGED vars \/ Inner \/ \E o \in Flags : Start(o)
  <2>1. UNCHANGED chainVars
    BY <1>1, InnerKeepsChain DEF vars, Start
  <2> QED BY <2>1 DEF ReceiptInv, chainVars
<1>2. CASE CastApprove
  <2>1. PICK answer : Submit(Approval_, answer)
    BY <1>2 DEF CastApprove, Approval_
  <2>2. Approval_ \notin OnChain
    BY <1>2, CastsAreTyped DEF CastApprove, SentInv, Early, Approving
  <2> QED BY <2>1, <2>2, SubmitKeepsReceipts
<1>3. CASE CastBridge
  <2>1. PICK answer : Submit(Bridge_, answer)
    BY <1>3 DEF CastBridge, Bridge_
  <2>2. Bridge_ \notin OnChain
    BY <1>3, CastsAreTyped DEF CastBridge, SentInv
  <2> QED BY <2>1, <2>2, SubmitKeepsReceipts
<1>4. CASE World
  BY <1>4, ChainStepKeepsReceipts DEF World
<1> QED BY <1>1, <1>2, <1>3, <1>4 DEF Next, RunStep, Inner

LEMMA AllowInvInductive ==
  ASSUME ApproveAmountsConstant, TypeOK, FlowInv, SentInv, ReceiptInv, AllowInv, [Next]_vars
  PROVE  AllowInv'
<1>1. CASE UNCHANGED vars
  BY <1>1 DEF vars, chainVars, runVars, AllowInv, Alone, Learnt, Sent, OnChain, MinedAs
<1>2. CASE \E o \in Flags : Start(o)
  BY <1>2, StartKeepsAllowance
<1> QED
  BY <1>1, <1>2, InnerKeepsAllowance, CastKeepsAllowance, WorldKeepsAllowance
     DEF Next, RunStep, Inner

LEMMA AlwaysAllowInv ==
  ASSUME ApproveAmountsConstant
  PROVE  Spec => [](TypeOK /\ FlowInv /\ SentInv /\ ReceiptInv /\ AllowInv)
<1>1. Init => ReceiptInv /\ AllowInv
  <2> SUFFICES ASSUME Init PROVE ReceiptInv /\ AllowInv
    OBVIOUS
  <2>1. OnChain = {} /\ mined = {} /\ ~opts.approve /\ checked = "unknown"
    BY DEF Init, ChainInit, OnChain
  <2> QED BY <2>1 DEF ReceiptInv, AllowInv, Learnt, MinedAs
<1>2. TypeOK /\ FlowInv /\ SentInv /\ ReceiptInv /\ AllowInv /\ [Next]_vars =>
        ReceiptInv' /\ AllowInv'
  BY ReceiptInvInductive, AllowInvInductive
<1> QED BY <1>1, <1>2, AlwaysSentInv, PTL DEF Spec

(* A transfer checked by its run fails for want of its allowance only if   *)
(* the check read another contract's, an approval was of less than the     *)
(* transfer, or another program, or another run, has used the account.     *)
THEOREM LackAlwaysHasACause ==
  ASSUME ApproveAmountsConstant
  PROVE  Spec => []LackHasACause
<1>1. TypeOK /\ SentInv /\ AllowInv => LackHasACause
  <2> SUFFICES ASSUME TypeOK, SentInv, AllowInv, opts.approve \/ checked = "enough",
                      MinedAs("bridge", run, "noallowance"),
                      checked = "enough" => ownSpender, ~(rivals > 0),
                      \A t \in OnChain : t.kind = "approve" => t.allows # 0,
                      \A t \in OnChain : t.kind = "bridge" => t.run = run
               PROVE  FALSE
    BY DEF LackHasACause
  <2>1. Alone
    BY DEF Alone, TypeOK, ChainTypeOK
  <2>2. Sent("bridge", run) # {}
    BY DEF MinedAs, Sent, OnChain
  <2>3. Learnt
    BY <2>2 DEF AllowInv, Learnt
  <2> QED BY <2>1, <2>3 DEF AllowInv
<1> QED BY <1>1, AlwaysAllowInv, PTL

-----------------------------------------------------------------------------
(* The refinement of Transfer *)

BridgeSent == IF Sent("bridge", run) = {} THEN "none" ELSE "sent"

LEMMA SameTransfer ==
  ASSUME UNCHANGED <<chainVars, run>>
  PROVE  UNCHANGED <<Approval, BridgeSent>>
BY DEF Approval, BridgeSent, Sent, MinedAs, OnChain, chainVars

LEMMA InnerImplements ==
  ASSUME FlowInv, Inner
  PROVE  [Promise!Next]_(Promise!vars)
<1>1. UNCHANGED <<Approval, BridgeSent, opts>>
  BY InnerKeepsChain, SameTransfer
<1>2. verdict = "open"
  BY InnerMoves DEF FlowInv
<1>3. UNCHANGED verdict \/ verdict' = "failed" \/ (opts.dry /\ verdict' = "ok")
  BY DEF Inner, Tokens, Preflight, RawBridge, Confirm, Unlock, CheckAllowance,
         RawApprove, WaitApprove, Sign, Goto, Return, GiveUp
<1> QED
  BY <1>1, <1>2, <1>3
     DEF Promise!Next, Promise!vars, Promise!Fail, Promise!DryDone, BridgeSent

LEMMA StartImplements ==
  ASSUME TypeOK, FlowInv, SentInv, NEW o \in Flags, Start(o)
  PROVE  Promise!Begin
<1>1. /\ UNCHANGED OnChain /\ run \in Nat /\ opts'.dry \in BOOLEAN
      /\ verdict' = "open" /\ pc \in {"idle", "ended"}
  BY ChainConstants DEF Start, chainVars, OnChain, TypeOK, Flags
<1>2. \A t \in OnChain' : t.kind \in Kinds => t.run # run'
  BY StartKeepsSent
<1>3. Sent("approve", run)' = {} /\ Sent("bridge", run)' = {}
  BY <1>1, <1>2 DEF Sent, Kinds
<1>4. verdict = "open" => Sent("approve", run) = {} /\ Sent("bridge", run) = {}
  BY <1>1 DEF FlowInv, SentInv, TypeOK, ChainTypeOK, Txs, OnChain, Sent, Kinds
<1> QED BY <1>1, <1>3, <1>4 DEF Promise!Begin, Approval

LEMMA CastApproveImplements ==
  ASSUME ApproveAmountsConstant, TypeOK, FlowInv, SentInv, CastApprove
  PROVE  Promise!Approve \/ Promise!Fail
<1>1. PICK answer \in Answers :
        /\ Submit(Approval_, answer)
        /\ answer = "ok" => verdict' = verdict
        /\ answer # "ok" => verdict' = "failed"
  BY DEF CastApprove, Approval_, Goto, Return
<1>2. /\ OnChain' = IF answer \in {"ok", "lost"} THEN OnChain \cup {Approval_} ELSE OnChain
      /\ UNCHANGED <<mined, run, opts>>
  BY <1>1, SubmitAdds DEF CastApprove
<1>3. Approval_.kind = "approve" /\ Approval_.run = run
  BY CastsAreTyped
<1>4. pc = "approveCast" /\ verdict = "open" /\ ~opts.dry
  BY DEF CastApprove, FlowInv, Approving
<1>5. Sent("approve", run) = {} /\ Sent("bridge", run) = {}
  BY <1>4 DEF SentInv, Early, Approving, Sent
<1>6. \A s : ~MinedAs("approve", run, s) /\ ~MinedAs("approve", run, s)'
  BY <1>2, <1>5 DEF MinedAs, Sent, OnChain
<1> HIDE DEF Approval_
<1>7. Sent("bridge", run)' = {}
  BY <1>2, <1>3, <1>5 DEF Sent
<1>8. CASE answer \in {"ok", "lost"}
  <2>1. Sent("approve", run)' # {}
    BY <1>2, <1>3, <1>8 DEF Sent
  <2>2. Approval = "none" /\ Approval' = "sent"
    BY <1>5, <1>6, <2>1 DEF Approval
  <2> QED BY <1>1, <1>2, <1>4, <1>5, <1>7, <2>2 DEF Promise!Approve, Promise!Open
<1>9. CASE answer \notin {"ok", "lost"}
  <2>1. Sent("approve", run)' = {}
    BY <1>2, <1>5, <1>9 DEF Sent
  <2>2. Approval' = Approval
    BY <1>5, <2>1 DEF Approval
  <2> QED BY <1>1, <1>2, <1>4, <1>5, <1>7, <1>9, <2>2 DEF Promise!Fail
<1> QED BY <1>8, <1>9

LEMMA CastBridgeImplements ==
  ASSUME ApproveAmountsConstant, TypeOK, FlowInv, SentInv, CastBridge
  PROVE  Promise!Bridge \/ Promise!Fail
<1>1. PICK answer \in Answers :
        /\ Submit(Bridge_, answer)
        /\ answer = "ok" => verdict' = "ok"
        /\ answer # "ok" => verdict' = "failed"
  BY DEF CastBridge, Bridge_, Return
<1>2. /\ OnChain' = IF answer \in {"ok", "lost"} THEN OnChain \cup {Bridge_} ELSE OnChain
      /\ UNCHANGED <<mined, run, opts>>
  BY <1>1, SubmitAdds DEF CastBridge
<1>3. Bridge_.kind = "bridge" /\ Bridge_.run = run
  BY CastsAreTyped
<1>4. pc = "bridgeCast" /\ verdict = "open" /\ ~opts.dry
  BY DEF CastBridge, FlowInv
<1>5. Sent("bridge", run) = {}
  BY <1>4 DEF SentInv, Sent
<1>6. Approval \in {"none", "settled"}
  BY <1>4 DEF SentInv, Sent, Approval
<1> HIDE DEF Bridge_
<1>7. Sent("approve", run)' = Sent("approve", run)
  BY <1>2, <1>3 DEF Sent
<1>8. Approval' = Approval
  BY <1>2, <1>7 DEF Approval, MinedAs
<1>9. CASE answer \in {"ok", "lost"}
  <2>1. Sent("bridge", run)' # {}
    BY <1>2, <1>3, <1>9 DEF Sent
  <2> QED BY <1>1, <1>2, <1>4, <1>5, <1>6, <1>8, <2>1 DEF Promise!Bridge, Promise!Open
<1>10. CASE answer \notin {"ok", "lost"}
  <2>1. Sent("bridge", run)' = {}
    BY <1>2, <1>5, <1>10 DEF Sent
  <2> QED BY <1>1, <1>2, <1>4, <1>5, <1>8, <1>10, <2>1 DEF Promise!Fail
<1> QED BY <1>9, <1>10

(* A block settles the approval of the run, or nothing of it.              *)
LEMMA WorldImplements ==
  ASSUME SentInv, ReceiptInv, World
  PROVE  [Promise!Next]_(Promise!vars)
<1>1. UNCHANGED <<run, opts, verdict>>
  BY DEF World, runVars
<1>2. \A k \in Kinds : Sent(k, run)' = Sent(k, run)
  BY <1>1, ChainStepKeepsSent DEF World, Sent, Kinds
<1>3. BridgeSent' = BridgeSent
  BY <1>2 DEF BridgeSent, Kinds
<1>4. CASE Rival
  <2>1. Approval' = Approval
    BY <1>1, <1>2, <1>4 DEF Approval, Kinds, MinedAs, Rival
  <2> QED BY <1>1, <1>3, <2>1 DEF Promise!vars, BridgeSent
<1>5. ASSUME NEW t \in pool, Mine(t) PROVE [Promise!Next]_(Promise!vars)
  <2>1. PICK s \in Outcome(t) : mined' = mined \cup {[tx |-> t, status |-> s]}
    BY <1>5 DEF Mine
  <2> DEFINE receipt == [tx |-> t, status |-> s]
  <2>2. receipt.tx = t /\ receipt.status = s /\ mined' = mined \cup {receipt}
    BY <2>1
  <2> HIDE DEF receipt
  <2>3. CASE t.kind = "approve" /\ t.run = run
    <3>1. t \in Sent("approve", run) /\ s \in {"ok", "reverted"}
      BY <2>1, <2>3 DEF Sent, OnChain, Outcome
    <3>2. \A r \in mined : ~(r.tx.kind = "approve" /\ r.tx.run = run)
      BY <2>3 DEF SentInv, ReceiptInv, Kinds, OnChain
    <3>3. Approval = "sent"
      BY <3>1, <3>2 DEF Approval, MinedAs
    <3>4. Sent("approve", run)' # {}
      BY <1>2, <3>1 DEF Kinds
    <3>5. Approval' \in {"settled", "reverted"}
      BY <1>1, <2>2, <2>3, <3>1, <3>4 DEF Approval, MinedAs
    <3> QED BY <1>1, <1>3, <3>3, <3>5 DEF Promise!Next, Promise!Settle, BridgeSent
  <2>4. CASE ~(t.kind = "approve" /\ t.run = run)
    <3>1. \A x : MinedAs("approve", run, x)' <=> MinedAs("approve", run, x)
      BY <1>1, <2>2, <2>4 DEF MinedAs
    <3>2. Approval' = Approval
      BY <1>2, <3>1 DEF Approval, Kinds
    <3> QED BY <1>1, <1>3, <3>2 DEF Promise!vars, BridgeSent
  <2> QED BY <2>3, <2>4
<1> QED BY <1>4, <1>5 DEF World, ChainStep

(* A run over the Core API implements the promise of `bridge send`, and    *)
(* waits for its approval on every chain that has one.                     *)
THEOREM CoreKeepsThePromise ==
  ASSUME ApproveAmountsConstant
  PROVE  Spec => KeepsPromise
<1>1. Init => Promise!Init
  <2> SUFFICES ASSUME Init PROVE Promise!Init
    OBVIOUS
  <2>1. OnChain = {} /\ mined = {}
    BY DEF Init, ChainInit, OnChain
  <2> QED BY <2>1 DEF Init, Promise!Init, Approval, Sent
<1>2. TypeOK /\ FlowInv /\ SentInv /\ ReceiptInv /\ [Next]_vars => [Promise!Next]_(Promise!vars)
  <2> SUFFICES ASSUME TypeOK, FlowInv, SentInv, ReceiptInv, [Next]_vars
               PROVE  [Promise!Next]_(Promise!vars)
    OBVIOUS
  <2>1. CASE UNCHANGED vars
    <3>1. UNCHANGED <<Approval, BridgeSent, opts, verdict>>
      BY <2>1, SameTransfer DEF vars, runVars
    <3> QED BY <3>1 DEF Promise!vars, BridgeSent
  <2>2. CASE \E o \in Flags : Start(o)
    BY <2>2, StartImplements DEF Promise!Next
  <2>3. CASE CastApprove
    BY <2>3, CastApproveImplements DEF Promise!Next
  <2>4. CASE CastBridge
    BY <2>4, CastBridgeImplements DEF Promise!Next
  <2> QED
    BY <2>1, <2>2, <2>3, <2>4, InnerImplements, WorldImplements DEF Next, RunStep, Inner
<1> QED BY <1>1, <1>2, AlwaysAllowInv, PTL DEF Spec, KeepsPromise, Promise!Spec
=============================================================================
