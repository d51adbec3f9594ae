---------------------------- MODULE SendNextProofs ---------------------------
(***************************************************************************)
(* What SendNext promises, for any number of runs and of rivals.           *)
(***************************************************************************)
EXTENDS SendNext, SourceChainProofs

(* The runs' own steps that neither submit a transaction nor start a run.  *)
Inner ==
  \/ Quote \/ Create \/ Open \/ CheckAllowance \/ BuildApprove
  \/ WaitApprove \/ BuildBridge \/ Sign

LEMMA InnerKeepsChain == ASSUME Inner PROVE UNCHANGED <<chainVars, run, opts>>
BY DEF Inner, Quote, Create, Open, CheckAllowance, BuildApprove, WaitApprove,
       BuildBridge, Sign

LEMMA EventIsTyped ==
  ASSUME NEW p \in Phases, NEW s \in {"running", "done", "skipped", "failed"}
  PROVE  Event(p, s) \in Events
BY DEF Event, Events

LEMMA GotoKeepsLog ==
  ASSUME log \in Seq(Events), NEW step, NEW events \in Seq(Events), Goto(step, events)
  PROVE  log' \in Seq(Events) /\ pc' = step /\ UNCHANGED verdict
BY DEF Goto, Emit

LEMMA ReturnKeepsLog ==
  ASSUME log \in Seq(Events), NEW v, NEW events \in Seq(Events), Return(v, events)
  PROVE  log' \in Seq(Events) /\ pc' = "ended" /\ verdict' = v
BY DEF Return, Emit

(* An event sequence of up to three events is typed if its events are.     *)
LEMMA ListsAreTyped ==
  /\ <<>> \in Seq(Events)
  /\ \A d \in Events : <<d>> \in Seq(Events)
  /\ \A d, e \in Events : <<d, e>> \in Seq(Events)
  /\ \A d, e, f \in Events : <<d, e, f>> \in Seq(Events)
OBVIOUS

-----------------------------------------------------------------------------
(* Types, and the nonce a run is about to use *)

NonceInv ==
  /\ PoolInv
  /\ Ordered => unsignedNonce <= PendingNonce
  /\ Ordered /\ rivals = 0 /\ pc \in {"approveCast", "sign", "bridgeCast"} =>
       unsignedNonce = PendingNonce
  /\ nonceRefused => rivals > 0

LEMMA InnerKeepsTypes ==
  ASSUME TypeOK, PoolInv, Inner
  PROVE  TypeOK'
<1> USE EventIsTyped, ListsAreTyped, GotoKeepsLog, ReturnKeepsLog DEF Phases, Fails, Pcs
<1>1. ChainTypeOK' /\ run' \in 0..MaxRuns /\ opts' \in [dry : BOOLEAN, approve : BOOLEAN]
  BY InnerKeepsChain DEF TypeOK, ChainTypeOK, chainVars
<1>2. PendingNonce \in Nat
  BY PendingNonceIsNat DEF TypeOK, PoolInv
<1>3. CASE Quote
  BY <1>1, <1>3 DEF TypeOK, Quote
<1>4. CASE Create
  BY <1>1, <1>4 DEF TypeOK, Create
<1>5. CASE Open
  BY <1>1, <1>5 DEF TypeOK, Open
<1>6. CASE CheckAllowance
  BY <1>1, <1>6 DEF TypeOK, CheckAllowance
<1>7. CASE BuildApprove
  BY <1>1, <1>2, <1>7 DEF TypeOK, BuildApprove
<1>8. CASE WaitApprove
  BY <1>1, <1>8 DEF TypeOK, WaitApprove
<1>9. CASE BuildBridge
  BY <1>1, <1>2, <1>9 DEF TypeOK, BuildBridge
<1>10. CASE Sign
  BY <1>1, <1>10 DEF TypeOK, Sign
<1> QED
  BY <1>3, <1>4, <1>5, <1>6, <1>7, <1>8, <1>9, <1>10 DEF Inner

(* The transaction a run submits. *)
Approval_ == Tx("approve", run, unsignedNonce, 1)

Bridge_ == Tx("bridge", run, unsignedNonce, 0)

LEMMA CastsAreTyped ==
  ASSUME TypeOK
  PROVE  /\ Approval_ \in Txs /\ Approval_.nonce = unsignedNonce
         /\ Bridge_ \in Txs /\ Bridge_.nonce = unsignedNonce
BY DEF TypeOK, Approval_, Bridge_, Tx, Txs

(* A submission with the nonce of the run: refused for it only if another  *)
(* program has sent since the nonce was read.                              *)
LEMMA CastKeepsNonce ==
  ASSUME TypeOK, NonceInv, pc \in {"approveCast", "bridgeCast"},
         NEW t \in Txs, t.nonce = unsignedNonce,
         NEW answer \in Answers, Submit(t, answer),
         nonceRefused' = (nonceRefused \/ answer = "nonce"),
         UNCHANGED unsignedNonce, pc' \in {"ended", "wait", "build"}
  PROVE  ChainTypeOK' /\ NonceInv'
<1>1. /\ ChainTypeOK' /\ PoolInv'
      /\ Ordered /\ answer \in {"ok", "lost"} => PendingNonce' = PendingNonce + 1
      /\ answer \notin {"ok", "lost"} => PendingNonce' = PendingNonce
  BY SubmitKeepsTypes DEF TypeOK, NonceInv
<1>2. PendingNonce \in Nat /\ unsignedNonce \in Nat /\ rivals \in Nat
  BY PendingNonceIsNat DEF TypeOK, NonceInv, PoolInv, ChainTypeOK
<1>3. UNCHANGED <<family, rivals>>
  BY SubmitAdds
<1>4. answer = "nonce" => rivals > 0
  <2> SUFFICES ASSUME answer = "nonce", rivals = 0 PROVE FALSE
    BY <1>2
  <2>1. Ordered /\ ~NonceFree(unsignedNonce)
    BY DEF Submit, NonceFree
  <2>2. unsignedNonce = PendingNonce
    BY <2>1 DEF NonceInv
  <2>3. Cardinality(pool) \in Nat /\ nonce \in Nat
    BY FS_CardinalityType DEF NonceInv, PoolInv, TypeOK, ChainTypeOK
  <2>4. PendingNonce >= nonce
    BY <2>3 DEF PendingNonce
  <2>5. \A u \in pool : u.nonce \in Nat
    BY DEF TypeOK, ChainTypeOK, Txs
  <2> QED BY <1>2, <2>1, <2>2, <2>4, <2>5 DEF NonceFree, NonceInv, PoolInv
<1>5. Ordered' <=> Ordered
  BY <1>3 DEF Ordered
<1>6. Ordered' => unsignedNonce' <= PendingNonce'
  BY <1>1, <1>2, <1>5 DEF NonceInv
<1>7. nonceRefused' => rivals' > 0
  BY <1>3, <1>4 DEF NonceInv
<1> QED BY <1>1, <1>6, <1>7 DEF NonceInv

LEMMA CastApproveKeepsTypes ==
  ASSUME TypeOK, NonceInv, CastApprove
  PROVE  TypeOK' /\ NonceInv'
<1> USE EventIsTyped, ListsAreTyped, GotoKeepsLog, ReturnKeepsLog DEF Phases, Fails, Pcs
<1>1. PICK answer \in Answers :
        /\ Submit(Approval_, answer)
        /\ nonceRefused' = (nonceRefused \/ answer = "nonce")
        /\ IF answer # "ok"
           THEN Fails(<<Event("approve", "failed")>>) /\ UNCHANGED reported
           ELSE /\ reported' = reported \cup {"approve"}
                /\ \/ /\ family = "EVM"
                      /\ Goto("wait", <<Event("approve", "done"), Event("approve-wait", "running")>>)
                   \/ /\ family # "EVM"
                      /\ Goto("build", <<Event("approve", "done"), Event("build", "running")>>)
  BY DEF CastApprove, Approval_
<1>2. pc = "approveCast" /\ UNCHANGED <<run, opts, mayApprove, unsignedNonce, careful>>
  BY DEF CastApprove
<1>3. pc' \in {"ended", "wait", "build"}
  BY <1>1 DEF TypeOK
<1>4. ChainTypeOK' /\ NonceInv'
  BY <1>1, <1>2, <1>3, CastsAreTyped, CastKeepsNonce
<1> QED BY <1>1, <1>2, <1>4 DEF TypeOK

LEMMA CastBridgeKeepsTypes ==
  ASSUME TypeOK, NonceInv, CastBridge
  PROVE  TypeOK' /\ NonceInv'
<1> USE EventIsTyped, ListsAreTyped, GotoKeepsLog, ReturnKeepsLog DEF Phases, Fails, Pcs
<1>1. PICK answer \in Answers :
        /\ Submit(Bridge_, answer)
        /\ nonceRefused' = (nonceRefused \/ answer = "nonce")
        /\ IF answer = "ok"
           THEN /\ Return("ok", <<Event("broadcast", "done")>>)
                /\ reported' = reported \cup {"bridge"}
           ELSE /\ Fails(<<Event("broadcast", "failed")>>)
                /\ UNCHANGED reported
  BY DEF CastBridge, Bridge_
<1>2. pc = "bridgeCast" /\ UNCHANGED <<run, opts, mayApprove, unsignedNonce, careful>>
  BY DEF CastBridge
<1>3. pc' = "ended"
  BY <1>1 DEF TypeOK
<1>4. ChainTypeOK' /\ NonceInv'
  BY <1>1, <1>2, <1>3, CastsAreTyped, CastKeepsNonce
<1> QED BY <1>1, <1>2, <1>4 DEF TypeOK

LEMMA StartKeepsTypes ==
  ASSUME TypeOK, NonceInv, NEW o \in [dry : BOOLEAN, approve : BOOLEAN], Start(o)
  PROVE  TypeOK' /\ NonceInv'
<1> USE EventIsTyped, ListsAreTyped DEF Phases, Pcs
<1>1. UNCHANGED <<chainVars, unsignedNonce, nonceRefused>> /\ pc' \in {"quote", "ended"}
  BY DEF Start
<1>2. run' \in 0..MaxRuns
  BY ChainConstants DEF Start, TypeOK
<1>3. log' \in Seq(Events) /\ verdict' \in {"open", "failed"} /\ careful' \in BOOLEAN
  BY DEF Start, TypeOK
<1>4. TypeOK'
  BY <1>1, <1>2, <1>3 DEF Start, TypeOK, ChainTypeOK, chainVars
<1>5. NonceInv'
  BY <1>1 DEF NonceInv, PoolInv, PendingNonce, Ordered, chainVars
<1> QED BY <1>4, <1>5

(* Only the steps that build a transaction move the nonce to be used, and  *)
(* they read it afresh; on Solana no transaction has one.                  *)
LEMMA InnerKeepsNonce ==
  ASSUME TypeOK, NonceInv, Inner
  PROVE  NonceInv'
<1>1. UNCHANGED chainVars
  BY InnerKeepsChain
<1>2. PendingNonce \in Nat /\ unsignedNonce \in Nat
  BY PendingNonceIsNat DEF TypeOK, NonceInv, PoolInv
<1>3. UNCHANGED nonceRefused
  BY DEF Inner, Quote, Create, Open, CheckAllowance, BuildApprove, WaitApprove,
         BuildBridge, Sign
<1>4. /\ PoolInv' = PoolInv /\ PendingNonce' = PendingNonce
      /\ Ordered' = Ordered /\ rivals' = rivals
  BY <1>1 DEF PoolInv, PendingNonce, Ordered, chainVars
<1>5. CASE BuildApprove \/ BuildBridge
  <2>1. unsignedNonce' = PendingNonce \/ (unsignedNonce' = unsignedNonce /\ pc' = "ended")
    BY <1>5 DEF BuildApprove, BuildBridge, Fails, Return
  <2> QED BY <1>2, <1>3, <1>4, <2>1 DEF NonceInv
<1>6. CASE Sign
  <2>1. pc = "sign" /\ UNCHANGED unsignedNonce
    BY <1>6 DEF Sign
  <2> QED BY <1>3, <1>4, <2>1 DEF NonceInv
<1>7. CASE Open
  <2>1. UNCHANGED unsignedNonce /\ (pc' \in {"approveCast", "sign", "bridgeCast"} => ~Ordered)
    BY <1>7 DEF Open, Goto, Fails, Return, Ordered
  <2> QED BY <1>3, <1>4, <2>1 DEF NonceInv
<1>8. CASE Quote \/ Create \/ CheckAllowance \/ WaitApprove
  <2>1. UNCHANGED unsignedNonce /\ pc' \notin {"approveCast", "sign", "bridgeCast"}
    BY <1>8 DEF Quote, Create, CheckAllowance, WaitApprove, Goto, Fails, Return
  <2> QED BY <1>3, <1>4, <2>1 DEF NonceInv
<1> QED BY <1>5, <1>6, <1>7, <1>8 DEF Inner

LEMMA WorldKeepsTypes ==
  ASSUME TypeOK, NonceInv, World
  PROVE  TypeOK' /\ NonceInv'
<1>1. ChainStep /\ UNCHANGED runVars
  BY DEF World
<1>2. /\ ChainTypeOK' /\ PoolInv'
      /\ rivals' = rivals \/ rivals' > 0
      /\ rivals' # rivals \/ PendingNonce' = PendingNonce
      /\ Ordered => PendingNonce' >= PendingNonce
  BY <1>1, ChainStepKeepsTypes DEF TypeOK, NonceInv
<1>3. Ordered' = Ordered
  BY <1>1, ChainStepKeepsSent DEF Ordered
<1>4. TypeOK'
  BY <1>1, <1>2 DEF TypeOK, runVars
<1>5. /\ PendingNonce \in Nat /\ PendingNonce' \in Nat
      /\ unsignedNonce \in Nat /\ rivals \in Nat /\ rivals' \in Nat
  <2>1. rivals' \in Nat /\ rivals \in Nat /\ unsignedNonce \in Nat
    BY <1>2 DEF TypeOK, ChainTypeOK
  <2>2. PendingNonce \in Nat
    BY PendingNonceIsNat DEF TypeOK, NonceInv, PoolInv
  <2>3. PendingNonce' \in Nat
    BY <1>2, FS_CardinalityType DEF PendingNonce, PoolInv, ChainTypeOK
  <2> QED BY <2>1, <2>2, <2>3
<1>6. NonceInv'
  BY <1>1, <1>2, <1>3, <1>5 DEF NonceInv, runVars
<1> QED BY <1>4, <1>6

LEMMA NextKeepsTypes ==
  ASSUME TypeOK, NonceInv, [Next]_vars
  PROVE  TypeOK' /\ NonceInv'
<1>1. CASE UNCHANGED vars
  BY <1>1 DEF vars, chainVars, runVars, TypeOK, ChainTypeOK, NonceInv, PoolInv,
              PendingNonce, Ordered
<1>2. CASE \E o \in [dry : BOOLEAN, approve : BOOLEAN] : Start(o)
  BY <1>2, StartKeepsTypes
<1>3. CASE Inner
  BY <1>3, InnerKeepsTypes, InnerKeepsNonce DEF NonceInv
<1>4. CASE CastApprove
  BY <1>4, CastApproveKeepsTypes
<1>5. CASE CastBridge
  BY <1>5, CastBridgeKeepsTypes
<1>6. CASE World
  BY <1>6, WorldKeepsTypes
<1> QED BY <1>1, <1>2, <1>3, <1>4, <1>5, <1>6 DEF Next, RunStep, Inner

LEMMA InitIsTyped == ASSUME Init PROVE TypeOK /\ NonceInv
<1>1. ChainTypeOK /\ PoolInv
  BY ChainInitIsTyped DEF Init
<1>2. PendingNonce \in Nat
  BY <1>1, PendingNonceIsNat DEF PoolInv
<1>3. /\ run \in 0..MaxRuns /\ log \in Seq(Events)
      /\ opts \in [dry : BOOLEAN, approve : BOOLEAN] /\ reported = {}
  BY ChainConstants, ListsAreTyped DEF Init
<1>5. TypeOK
  BY <1>1, <1>3 DEF Init, TypeOK, Pcs
<1>4. NonceInv
  BY <1>1, <1>2 DEF Init, NonceInv
<1> QED BY <1>4, <1>5

(* Every variable has its type, whatever the number of runs and rivals.    *)
THEOREM TypeCorrect == Spec => [](TypeOK /\ NonceInv)
BY InitIsTyped, NextKeepsTypes, PTL DEF Spec

(* The nonce is read after the approval is mined and right before it is    *)
(* used: a node refuses it only if another program has sent a transaction. *)
THEOREM RefusalNeedsRival == Spec => []NonceRefusalNeedsRival
<1>1. NonceInv => NonceRefusalNeedsRival
  BY DEF NonceInv, NonceRefusalNeedsRival
<1> QED BY <1>1, TypeCorrect, PTL

-----------------------------------------------------------------------------
(* Which transactions a run has sent where *)

(* Where a run is: a dry run ends after Create, Solana has no approval,    *)
(* and only an EVM run waits for one.                                      *)
FlowInv ==
  /\ pc = "idle" => run = 0 /\ verdict = "open" /\ ~opts.dry
  /\ pc # "idle" => run >= 1
  /\ pc = "ended" => verdict # "open"
  /\ pc \notin {"idle", "ended"} => verdict = "open"
  /\ opts.dry => pc \in {"idle", "quote", "create", "ended"}
  /\ pc \in {"allowance", "approve", "approveCast", "wait", "build"} => family # "SOL"

LEMMA FlowInvInductive ==
  ASSUME TypeOK, FlowInv, [Next]_vars
  PROVE  FlowInv'
<1> USE DEF FlowInv, Goto, Return, Fails
<1>1. run \in Nat
  BY ChainConstants DEF TypeOK
<1>2. CASE UNCHANGED vars
  BY <1>2 DEF vars, runVars, chainVars
<1>3. ASSUME NEW o \in [dry : BOOLEAN, approve : BOOLEAN], Start(o) PROVE FlowInv'
  BY <1>1, <1>3 DEF Start
<1>4. CASE Inner
  <2>1. UNCHANGED <<family, run, opts>>
    BY <1>4, InnerKeepsChain DEF chainVars
  <2>2. CASE Quote
    BY <2>1, <2>2 DEF Quote
  <2>3. CASE Create
    BY <2>1, <2>3 DEF Create
  <2>4. CASE Open
    BY <2>1, <2>4 DEF Open
  <2>5. CASE CheckAllowance
    BY <2>1, <2>5 DEF CheckAllowance
  <2>6. CASE BuildApprove
    BY <2>1, <2>6 DEF BuildApprove
  <2>7. CASE WaitApprove
    BY <2>1, <2>7 DEF WaitApprove
  <2>8. CASE BuildBridge
    BY <2>1, <2>8 DEF BuildBridge
  <2>9. CASE Sign
    BY <2>1, <2>9 DEF Sign
  <2> QED BY <1>4, <2>2, <2>3, <2>4, <2>5, <2>6, <2>7, <2>8, <2>9 DEF Inner
<1>5. CASE CastApprove
  BY <1>5, SubmitAdds DEF CastApprove
<1>6. CASE CastBridge
  BY <1>6, SubmitAdds DEF CastBridge
<1>7. CASE World
  BY <1>7, ChainStepKeepsSent DEF World, runVars
<1> QED BY <1>2, <1>3, <1>4, <1>5, <1>6, <1>7 DEF Next, RunStep, Inner

Early == {"quote", "create", "open", "allowance", "approve", "approveCast"}

Late == {"build", "sign", "bridgeCast"}

(* Nothing is sent before its broadcast and nothing twice, no run to come  *)
(* has sent anything, and a run that has to wait for its approval and is   *)
(* past that has waited for it.                                            *)
SentInv ==
  /\ \A t \in OnChain : t.kind \in Kinds => t.run >= 1 /\ t.run <= run
  /\ \A t, u \in OnChain : t.kind \in Kinds /\ t.kind = u.kind /\ t.run = u.run => t = u
  /\ pc \in Early \/ opts.dry =>
       \A t \in OnChain : t.kind = "approve" => t.run # run
  /\ pc # "ended" \/ opts.dry \/ (verdict = "failed" /\ ~BroadcastFailed) =>
       \A t \in OnChain : t.kind = "bridge" => t.run # run
  /\ family = "SOL" => \A t \in OnChain : t.kind # "approve"
  /\ family # "TRX" /\ pc \in Late =>
       \A t \in OnChain : t.kind = "approve" /\ t.run = run => MinedAs("approve", run, "ok")
  /\ family = "EVM" => \A t, u \in OnChain :
       t.kind = "approve" /\ u.kind = "bridge" /\ t.run = u.run => MinedAs("approve", t.run, "ok")
  /\ careful => \A t \in OnChain : t.kind = "bridge" => t.run = run

(* A run passes to its later steps from the earlier ones, or by a wait     *)
(* that has seen the receipt.                                              *)
LEMMA InnerMoves ==
  ASSUME Inner
  PROVE  /\ pc \notin {"idle", "ended"} /\ pc' # "idle"
         /\ pc' \in Early => pc \in Early
         /\ pc' \in Late => pc \in Early \cup Late \/ (pc = "wait" /\ MinedAs("approve", run, "ok"))
         /\ UNCHANGED careful
<1> USE DEF Early, Late, Goto, Fails, Return
<1>1. CASE Quote
  BY <1>1 DEF Quote
<1>2. CASE Create
  BY <1>2 DEF Create
<1>3. CASE Open
  BY <1>3 DEF Open
<1>4. CASE CheckAllowance
  BY <1>4 DEF CheckAllowance
<1>5. CASE BuildApprove
  BY <1>5 DEF BuildApprove
<1>6. CASE WaitApprove
  BY <1>6 DEF WaitApprove
<1>7. CASE BuildBridge
  BY <1>7 DEF BuildBridge
<1>8. CASE Sign
  BY <1>8 DEF Sign
<1> QED BY <1>1, <1>2, <1>3, <1>4, <1>5, <1>6, <1>7, <1>8 DEF Inner

LEMMA InnerKeepsSent ==
  ASSUME TypeOK, FlowInv, SentInv, Inner
  PROVE  SentInv'
<1>1. UNCHANGED <<OnChain, mined, family, run, opts, careful>>
  BY InnerKeepsChain, InnerMoves DEF chainVars, OnChain
<1>2. \A k, r, s : MinedAs(k, r, s)' <=> MinedAs(k, r, s)
  BY <1>1 DEF MinedAs
<1>3. pc \notin {"idle", "ended"}
  BY InnerMoves
<1>4. pc \in Early => \A t \in OnChain : t.kind = "approve" => t.run # run
  BY DEF SentInv
<1>5. pc' \in Early => pc \in Early
  BY InnerMoves
<1>6. family # "TRX" /\ pc' \in Late =>
        \A t \in OnChain : t.kind = "approve" /\ t.run = run => MinedAs("approve", run, "ok")
  BY <1>4, InnerMoves DEF SentInv
<1> QED BY <1>1, <1>2, <1>3, <1>5, <1>6 DEF SentInv

LEMMA StartKeepsSent ==
  ASSUME TypeOK, FlowInv, SentInv, NEW o \in [dry : BOOLEAN, approve : BOOLEAN], Start(o)
  PROVE  SentInv'
<1>1. /\ UNCHANGED <<OnChain, mined, family>> /\ run' = run + 1 /\ run \in Nat
      /\ pc \in {"idle", "ended"} /\ pc' \in {"quote", "ended"}
      /\ careful' = (careful /\ (pc = "idle" \/ opts.dry \/ (verdict = "failed" /\ ~BroadcastFailed)))
  BY ChainConstants DEF Start, chainVars, OnChain, TypeOK
<1>2. \A k, r, s : MinedAs(k, r, s)' <=> MinedAs(k, r, s)
  BY <1>1 DEF MinedAs
<1>3. \A t \in OnChain : t.kind \in Kinds => t.run >= 1 /\ t.run <= run /\ t.run \in Nat
  BY DEF SentInv, TypeOK, ChainTypeOK, OnChain, Txs
<1>4. \A t \in OnChain : t.kind \in Kinds => t.run # run' /\ t.run >= 1 /\ t.run <= run'
  BY <1>1, <1>3
<1>5. careful' => \A t \in OnChain : t.kind # "bridge"
  BY <1>1 DEF SentInv
<1> QED BY <1>1, <1>2, <1>4, <1>5 DEF SentInv, Kinds, Late

LEMMA CastApproveKeepsSent ==
  ASSUME TypeOK, FlowInv, SentInv, CastApprove
  PROVE  SentInv'
<1>1. PICK answer \in Answers : Submit(Approval_, answer)
  BY DEF CastApprove, Approval_
<1>2. /\ OnChain' = OnChain \/ OnChain' = OnChain \cup {Approval_}
      /\ UNCHANGED <<mined, family, run, opts, careful>>
  BY <1>1, SubmitAdds DEF CastApprove
<1>3. Approval_.kind = "approve" /\ Approval_.run = run
  BY DEF Approval_, Tx
<1>4. /\ pc = "approveCast" /\ pc' \in {"ended", "wait", "build"}
      /\ pc' = "build" => family # "EVM"
  BY DEF CastApprove, Goto, Fails, Return
<1>5. ~opts.dry /\ family # "SOL" /\ run >= 1 /\ run \in Nat
  BY <1>4, ChainConstants DEF FlowInv, TypeOK
<1>6. pc' = "build" => family = "TRX"
  BY <1>4, <1>5, ChainConstants DEF TypeOK, ChainTypeOK
<1>7. \A t \in OnChain : t.kind \in Kinds => t.run # run
  BY <1>4 DEF SentInv, Early, Kinds
<1>8. \A k, r, s : MinedAs(k, r, s)' <=> MinedAs(k, r, s)
  BY <1>2 DEF MinedAs
<1>9. pc' \notin Early /\ (pc' \in Late => pc' = "build")
  BY <1>4 DEF Early, Late
<1> HIDE DEF Approval_
<1>10. \A t \in OnChain' : t \in OnChain \/ t = Approval_
  BY <1>2
<1>11. \A t \in OnChain' : t.kind \in Kinds => t.run >= 1 /\ t.run <= run'
  BY <1>2, <1>3, <1>5, <1>10 DEF SentInv
<1>12. \A t, u \in OnChain' :
         t.kind \in Kinds /\ t.kind = u.kind /\ t.run = u.run => t = u
  BY <1>3, <1>7, <1>10 DEF SentInv
<1>13. \A t \in OnChain' : t.kind = "bridge" => t \in OnChain /\ t.run # run
  BY <1>3, <1>7, <1>10 DEF Kinds
<1>14. family = "EVM" => \A t, u \in OnChain' :
         t.kind = "approve" /\ u.kind = "bridge" /\ t.run = u.run => MinedAs("approve", t.run, "ok")
  BY <1>3, <1>10, <1>13 DEF SentInv
<1>15. careful => \A t \in OnChain' : t.kind = "bridge" => t.run = run
  BY <1>13 DEF SentInv
<1> QED
  BY <1>2, <1>5, <1>6, <1>8, <1>9, <1>11, <1>12, <1>13, <1>14, <1>15 DEF SentInv

LEMMA CastBridgeKeepsSent ==
  ASSUME TypeOK, FlowInv, SentInv, CastBridge
  PROVE  SentInv'
<1>1. PICK answer \in Answers :
        /\ Submit(Bridge_, answer)
        /\ IF answer = "ok"
           THEN Return("ok", <<Event("broadcast", "done")>>)
           ELSE Fails(<<Event("broadcast", "failed")>>)
  BY DEF CastBridge, Bridge_
<1>2. /\ OnChain' = OnChain \/ OnChain' = OnChain \cup {Bridge_}
      /\ UNCHANGED <<mined, family, run, opts, careful>>
  BY <1>1, SubmitAdds DEF CastBridge
<1>3. Bridge_.kind = "bridge" /\ Bridge_.run = run
  BY DEF Bridge_, Tx
<1>4. pc = "bridgeCast" /\ pc' = "ended"
  BY <1>1 DEF CastBridge, Fails, Return
<1>5. ~opts.dry /\ run >= 1 /\ run \in Nat
  BY <1>4, ChainConstants DEF FlowInv, TypeOK
<1>6. verdict' = "failed" => BroadcastFailed'
  <2> SUFFICES ASSUME verdict' = "failed" PROVE BroadcastFailed'
    OBVIOUS
  <2>1. log' = log \o <<Event("broadcast", "failed")>>
    BY <1>1 DEF Fails, Return, Emit
  <2>2. log \in Seq(Events) /\ Event("broadcast", "failed") \in Events
    BY EventIsTyped DEF TypeOK, Phases
  <2> QED BY <2>1, <2>2 DEF BroadcastFailed
<1>7. \A t \in OnChain : t.kind = "bridge" => t.run # run
  BY <1>4 DEF SentInv
<1>8. \A k, r, s : MinedAs(k, r, s)' <=> MinedAs(k, r, s)
  BY <1>2 DEF MinedAs
<1> HIDE DEF Bridge_
<1>9. \A t \in OnChain' : t \in OnChain \/ t = Bridge_
  BY <1>2
<1>10. \A t \in OnChain' : t.kind \in Kinds => t.run >= 1 /\ t.run <= run'
  BY <1>2, <1>3, <1>5, <1>9 DEF SentInv
<1>11. \A t, u \in OnChain' :
         t.kind \in Kinds /\ t.kind = u.kind /\ t.run = u.run => t = u
  BY <1>3, <1>7, <1>9 DEF SentInv
<1>12. \A t \in OnChain' : t.kind = "approve" => t \in OnChain
  BY <1>3, <1>9
<1>13. family = "EVM" => \A t, u \in OnChain' :
         t.kind = "approve" /\ u.kind = "bridge" /\ t.run = u.run => MinedAs("approve", t.run, "ok")
  <2> SUFFICES ASSUME family = "EVM", NEW t \in OnChain', NEW u \in OnChain',
                      t.kind = "approve", u.kind = "bridge", t.run = u.run
               PROVE  MinedAs("approve", t.run, "ok")
    OBVIOUS
  <2>1. CASE u \in OnChain
    BY <1>12, <2>1 DEF SentInv
  <2>2. CASE u = Bridge_
    BY <1>3, <1>4, <1>12, <2>2 DEF SentInv, Late
  <2> QED BY <1>9, <2>1, <2>2
<1>14. careful => \A t \in OnChain' : t.kind = "bridge" => t.run = run
  BY <1>3, <1>9 DEF SentInv
<1> QED
  BY <1>2, <1>4, <1>5, <1>6, <1>8, <1>10, <1>11, <1>12, <1>13, <1>14
     DEF SentInv, Early, Late, FlowInv

LEMMA WorldKeepsSent ==
  ASSUME TypeOK, FlowInv, SentInv, World
  PROVE  SentInv'
<1>1. /\ \A t \in OnChain' : t \in OnChain \/ t.kind = "other"
      /\ mined \subseteq mined' /\ UNCHANGED family
  BY ChainStepKeepsSent DEF World
<1>2. UNCHANGED <<pc, run, opts, log, verdict, careful>>
  BY DEF World, runVars
<1>3. \A k, r, s : MinedAs(k, r, s) => MinedAs(k, r, s)'
  BY <1>1 DEF MinedAs
<1>4. \A t \in OnChain' : t.kind \in Kinds => t \in OnChain
  BY <1>1 DEF Kinds
<1>5. BroadcastFailed' <=> BroadcastFailed
  BY <1>2 DEF BroadcastFailed
<1> QED BY <1>1, <1>2, <1>3, <1>4, <1>5 DEF SentInv, Kinds

LEMMA InitHasSentNothing == ASSUME Init PROVE FlowInv /\ SentInv
<1>1. OnChain = {}
  BY DEF Init, ChainInit, OnChain
<1> QED BY <1>1 DEF Init, FlowInv, SentInv

LEMMA SentInvInductive ==
  ASSUME TypeOK, FlowInv, SentInv, [Next]_vars
  PROVE  SentInv'
<1>1. CASE UNCHANGED vars
  BY <1>1 DEF vars, chainVars, runVars, SentInv, OnChain, MinedAs, BroadcastFailed
<1>2. CASE \E o \in [dry : BOOLEAN, approve : BOOLEAN] : Start(o)
  BY <1>2, StartKeepsSent
<1> QED
  BY <1>1, <1>2, InnerKeepsSent, CastApproveKeepsSent, CastBridgeKeepsSent, WorldKeepsSent
     DEF Next, RunStep, Inner

LEMMA AlwaysSentInv == Spec => [](TypeOK /\ FlowInv /\ SentInv)
<1>1. TypeOK /\ FlowInv /\ SentInv /\ [Next]_vars => FlowInv' /\ SentInv'
  BY FlowInvInductive, SentInvInductive
<1> QED BY <1>1, InitHasSentNothing, TypeCorrect, PTL DEF Spec

-----------------------------------------------------------------------------

(* On an EVM chain the transfer of a run that approved is sent only once   *)
(* the approval is mined with success.                                     *)
THEOREM ApprovalComesFirst == Spec => []ApprovalMinedFirst
<1>1. SentInv => ApprovalMinedFirst
  <2> SUFFICES ASSUME SentInv, family = "EVM", NEW r \in 1..MaxRuns,
                      Sent("approve", r) # {}, Sent("bridge", r) # {}
               PROVE  MinedAs("approve", r, "ok")
    BY DEF ApprovalMinedFirst
  <2>1. PICK t \in OnChain : t.kind = "approve" /\ t.run = r
    BY DEF Sent
  <2>2. PICK u \in OnChain : u.kind = "bridge" /\ u.run = r
    BY DEF Sent
  <2> QED BY <2>1, <2>2 DEF SentInv
<1> QED BY <1>1, AlwaysSentInv, PTL

(* A run that failed, but not in its broadcast, has sent no transfer.      *)
THEOREM FailureSentNothing == Spec => []FailedBeforeBroadcastSentNothing
<1>1. SentInv => FailedBeforeBroadcastSentNothing
  BY DEF SentInv, FailedBeforeBroadcastSentNothing, Sent
<1> QED BY <1>1, AlwaysSentInv, PTL

(* Repeating runs that failed before their broadcast sends one transfer.   *)
THEOREM OneBridge == Spec => []AtMostOneBridge
<1>1. TypeOK /\ SentInv => AtMostOneBridge
  <2> SUFFICES ASSUME SentInv, careful
               PROVE  Cardinality({t \in OnChain : t.kind = "bridge"}) <= 1
    BY DEF AtMostOneBridge
  <2> DEFINE bridges == {t \in OnChain : t.kind = "bridge"}
  <2>1. \A t, u \in bridges : t = u
    BY DEF SentInv, Kinds
  <2>2. CASE bridges = {}
    BY <2>2, FS_EmptySet
  <2>3. CASE bridges # {}
    <3>1. PICK t \in bridges : TRUE
      BY <2>3
    <3>2. bridges = {t}
      BY <2>1, <3>1
    <3> QED BY <3>2, FS_Singleton
  <2> QED BY <2>2, <2>3
<1> QED BY <1>1, AlwaysSentInv, PTL

-----------------------------------------------------------------------------
(* The refinement of Transfer *)

LEMMA ReceiptInvInductive ==
  ASSUME TypeOK, FlowInv, SentInv, ReceiptInv, [Next]_vars
  PROVE  ReceiptInv'
<1>1. CASE UNCHANGED vars \/ Inner \/ \E o \in [dry : BOOLEAN, approve : BOOLEAN] : Start(o)
  <2>1. UNCHANGED chainVars
    BY <1>1, InnerKeepsChain DEF vars, Start
  <2> QED BY <2>1 DEF ReceiptInv, chainVars
<1>2. CASE CastApprove
  <2>1. PICK answer : Submit(Approval_, answer)
    BY <1>2 DEF CastApprove, Approval_
  <2>2. Approval_ \notin OnChain
    BY <1>2 DEF CastApprove, SentInv, Early, Approval_, Tx
  <2> QED BY <2>1, <2>2, SubmitKeepsReceipts
<1>3. CASE CastBridge
  <2>1. PICK answer : Submit(Bridge_, answer)
    BY <1>3 DEF CastBridge, Bridge_
  <2>2. Bridge_ \notin OnChain
    BY <1>3 DEF CastBridge, SentInv, Bridge_, Tx
  <2> QED BY <2>1, <2>2, SubmitKeepsReceipts
<1>4. CASE World
  BY <1>4, ChainStepKeepsReceipts DEF World
<1> QED BY <1>1, <1>2, <1>3, <1>4 DEF Next, RunStep, Inner

BridgeSent == IF Sent("bridge", run) = {} THEN "none" ELSE "sent"

(* What the steps that send nothing leave as it is for Transfer. *)
LEMMA SameTransfer ==
  ASSUME UNCHANGED <<chainVars, run>>
  PROVE  UNCHANGED <<Approval, BridgeSent, family>>
BY DEF Approval, BridgeSent, Sent, MinedAs, OnChain, chainVars

LEMMA InnerImplements ==
  ASSUME FlowInv, Inner
  PROVE  [Promise!Next]_(Promise!vars)
<1>1. UNCHANGED <<Approval, BridgeSent, family, opts>>
  BY InnerKeepsChain, SameTransfer
<1>2. verdict = "open"
  BY InnerMoves DEF FlowInv
<1>3. UNCHANGED verdict \/ verdict' = "failed" \/ (opts.dry /\ verdict' = "ok")
  BY DEF Inner, Quote, Create, Open, CheckAllowance, BuildApprove, WaitApprove,
         BuildBridge, Sign, Goto, Return, Fails
<1> QED
  BY <1>1, <1>2, <1>3
     DEF Promise!Next, Promise!vars, Promise!Fail, Promise!DryDone, BridgeSent

LEMMA StartImplements ==
  ASSUME TypeOK, FlowInv, SentInv, NEW o \in [dry : BOOLEAN, approve : BOOLEAN], Start(o)
  PROVE  Promise!Begin
<1>1. /\ UNCHANGED <<OnChain, mined, family>> /\ run' = run + 1 /\ run \in Nat
      /\ opts' = o /\ verdict' \in {"open", "failed"} /\ pc \in {"idle", "ended"}
  BY ChainConstants DEF Start, chainVars, OnChain, TypeOK
<1>2. \A t \in OnChain : t.kind \in Kinds => t.run >= 1 /\ t.run <= run /\ t.run \in Nat
  BY DEF SentInv, TypeOK, ChainTypeOK, OnChain, Txs
<1>3. \A t \in OnChain : t.kind \in Kinds => t.run # run'
  BY <1>1, <1>2
<1>4. Sent("approve", run)' = {} /\ Sent("bridge", run)' = {}
  BY <1>1, <1>3 DEF Sent, Kinds
<1>5. verdict = "open" => Sent("approve", run) = {} /\ Sent("bridge", run) = {}
  BY <1>1, <1>2 DEF FlowInv, Sent, Kinds
<1> QED BY <1>1, <1>4, <1>5 DEF Promise!Begin, Approval

LEMMA CastApproveImplements ==
  ASSUME TypeOK, FlowInv, SentInv, CastApprove
  PROVE  Promise!Approve \/ Promise!Fail
<1>1. PICK answer \in Answers :
        /\ Submit(Approval_, answer)
        /\ answer = "ok" => verdict' = verdict
        /\ answer # "ok" => verdict' = "failed"
  BY DEF CastApprove, Approval_, Goto, Fails, Return
<1>2. /\ OnChain' = IF answer \in {"ok", "lost"} THEN OnChain \cup {Approval_} ELSE OnChain
      /\ UNCHANGED <<mined, family, run, opts>>
  BY <1>1, SubmitAdds DEF CastApprove
<1>3. Approval_.kind = "approve" /\ Approval_.run = run
  BY DEF Approval_, Tx
<1>4. pc = "approveCast" /\ verdict = "open" /\ ~opts.dry
  BY DEF CastApprove, FlowInv
<1>5. Sent("approve", run) = {} /\ Sent("bridge", run) = {}
  BY <1>4 DEF SentInv, Early, Sent
<1>6. \A s : ~MinedAs("approve", run, s) /\ ~MinedAs("approve", run, s)'
  BY <1>2, <1>5 DEF MinedAs, Sent, OnChain
<1> HIDE DEF Approval_
<1>7. Sent("bridge", run)' = {}
  BY <1>2, <1>3, <1>5 DEF Sent
<1>8. CASE answer \in {"ok", "lost"}
  <2>1. Sent("approve", run)' # {}
    BY <1>2, <1>3, <1>8 DEF Sent
  <2>2. Approval = "none" /\ Approval' = "sent"
    BY <1>5, <1>6, <2>1 DEF Approval
  <2> QED BY <1>1, <1>2, <1>4, <1>5, <1>7, <2>2 DEF Promise!Approve, Promise!Open
<1>9. CASE answer \notin {"ok", "lost"}
  <2>1. Sent("approve", run)' = {}
    BY <1>2, <1>5, <1>9 DEF Sent
  <2>2. Approval' = Approval
    BY <1>5, <2>1 DEF Approval
  <2> QED BY <1>1, <1>2, <1>4, <1>5, <1>7, <1>9, <2>2 DEF Promise!Fail
<1> QED BY <1>8, <1>9

LEMMA CastBridgeImplements ==
  ASSUME TypeOK, FlowInv, SentInv, CastBridge
  PROVE  Promise!Bridge \/ Promise!Fail
<1>1. PICK answer \in Answers :
        /\ Submit(Bridge_, answer)
        /\ answer = "ok" => verdict' = "ok"
        /\ answer # "ok" => verdict' = "failed"
  BY DEF CastBridge, Bridge_, Fails, Return
<1>2. /\ OnChain' = IF answer \in {"ok", "lost"} THEN OnChain \cup {Bridge_} ELSE OnChain
      /\ UNCHANGED <<mined, family, run, opts>>
  BY <1>1, SubmitAdds DEF CastBridge
<1>3. Bridge_.kind = "bridge" /\ Bridge_.run = run
  BY DEF Bridge_, Tx
<1>4. pc = "bridgeCast" /\ verdict = "open" /\ ~opts.dry
  BY DEF CastBridge, FlowInv
<1>5. Sent("bridge", run) = {}
  BY <1>4 DEF SentInv, Sent
<1>6. family # "TRX" => Approval \in {"none", "settled"}
  BY <1>4 DEF SentInv, Late, Sent, Approval
<1> HIDE DEF Bridge_
<1>7. Sent("approve", run)' = Sent("approve", run)
  BY <1>2, <1>3 DEF Sent
<1>8. Approval' = Approval
  BY <1>2, <1>7 DEF Approval, MinedAs
<1>9. CASE answer \in {"ok", "lost"}
  <2>1. Sent("bridge", run)' # {}
    BY <1>2, <1>3, <1>9 DEF Sent
  <2> QED BY <1>1, <1>2, <1>4, <1>5, <1>6, <1>8, <2>1 DEF Promise!Bridge, Promise!Open
<1>10. CASE answer \notin {"ok", "lost"}
  <2>1. Sent("bridge", run)' = {}
    BY <1>2, <1>5, <1>10 DEF Sent
  <2> QED BY <1>1, <1>2, <1>4, <1>5, <1>8, <1>10, <2>1 DEF Promise!Fail
<1> QED BY <1>9, <1>10

LEMMA WorldImplements ==
  ASSUME TypeOK, SentInv, ReceiptInv, World
  PROVE  [Promise!Next]_(Promise!vars)
<1>1. UNCHANGED <<run, opts, verdict, family>>
  BY ChainStepKeepsSent DEF World, runVars
<1>2. \A k \in Kinds : Sent(k, run)' = Sent(k, run)
  BY <1>1, ChainStepKeepsSent DEF World, Sent, Kinds
<1>3. BridgeSent' = BridgeSent
  BY <1>2 DEF BridgeSent, Kinds
<1>4. CASE Rival
  <2>1. Approval' = Approval
    BY <1>1, <1>2, <1>4 DEF Approval, Kinds, MinedAs, Rival
  <2> QED BY <1>1, <1>3, <2>1 DEF Promise!vars, BridgeSent
<1>5. ASSUME NEW t \in pool, Mine(t) PROVE [Promise!Next]_(Promise!vars)
  <2>1. PICK s \in Outcome(t) : mined' = mined \cup {[tx |-> t, status |-> s]}
    BY <1>5 DEF Mine
  <2> DEFINE receipt == [tx |-> t, status |-> s]
  <2>2. receipt.tx = t /\ receipt.status = s /\ mined' = mined \cup {receipt}
    BY <2>1
  <2> HIDE DEF receipt
  <2>3. CASE t.kind = "approve" /\ t.run = run
    <3>1. t \in Sent("approve", run) /\ s \in {"ok", "reverted"}
      BY <2>1, <2>3 DEF Sent, OnChain, Outcome
    <3>2. \A r \in mined : ~(r.tx.kind = "approve" /\ r.tx.run = run)
      BY <2>3 DEF SentInv, ReceiptInv, Kinds, OnChain
    <3>3. Approval = "sent"
      BY <3>1, <3>2 DEF Approval, MinedAs
    <3>4. Sent("approve", run)' # {}
      BY <1>2, <3>1 DEF Kinds
    <3>5. Approval' \in {"settled", "reverted"}
      BY <1>1, <2>2, <2>3, <3>1, <3>4 DEF Approval, MinedAs
    <3> QED BY <1>1, <1>3, <3>3, <3>5 DEF Promise!Next, Promise!Settle, BridgeSent
  <2>4. CASE ~(t.kind = "approve" /\ t.run = run)
    <3>1. \A x : MinedAs("approve", run, x)' <=> MinedAs("approve", run, x)
      BY <1>1, <2>2, <2>4 DEF MinedAs
    <3>2. Approval' = Approval
      BY <1>2, <3>1 DEF Approval, Kinds
    <3> QED BY <1>1, <1>3, <3>2 DEF Promise!vars, BridgeSent
  <2> QED BY <2>3, <2>4
<1> QED BY <1>4, <1>5 DEF World, ChainStep

(* A run over NEXT implements the promise of `bridge send`: the transfer   *)
(* is sent at most once, after its approval where runs wait for one, and   *)
(* what the run returns is true.                                           *)
THEOREM KeepsThePromise == Spec => KeepsPromise
<1>1. Init => Promise!Init /\ ReceiptInv
  <2> SUFFICES ASSUME Init PROVE Promise!Init /\ ReceiptInv
    OBVIOUS
  <2>1. OnChain = {} /\ mined = {}
    BY DEF Init, ChainInit, OnChain
  <2> QED BY <2>1 DEF Init, Promise!Init, Approval, Sent, ReceiptInv
<1>2. TypeOK /\ FlowInv /\ SentInv /\ ReceiptInv /\ [Next]_vars =>
        ReceiptInv' /\ [Promise!Next]_(Promise!vars)
  <2> SUFFICES ASSUME TypeOK, FlowInv, SentInv, ReceiptInv, [Next]_vars
               PROVE  ReceiptInv' /\ [Promise!Next]_(Promise!vars)
    OBVIOUS
  <2>1. CASE UNCHANGED vars
    <3>1. UNCHANGED <<Approval, BridgeSent, family, opts, verdict>>
      BY <2>1, SameTransfer DEF vars, runVars
    <3> QED BY <3>1, ReceiptInvInductive DEF Promise!vars, BridgeSent
  <2>2. CASE \E o \in [dry : BOOLEAN, approve : BOOLEAN] : Start(o)
    BY <2>2, ReceiptInvInductive, StartImplements DEF Promise!Next
  <2>3. CASE CastApprove
    BY <2>3, ReceiptInvInductive, CastApproveImplements DEF Promise!Next
  <2>4. CASE CastBridge
    BY <2>4, ReceiptInvInductive, CastBridgeImplements DEF Promise!Next
  <2> QED
    BY <2>1, <2>2, <2>3, <2>4, ReceiptInvInductive, InnerImplements, WorldImplements
       DEF Next, RunStep, Inner
<1> QED BY <1>1, <1>2, AlwaysSentInv, PTL DEF Spec, KeepsPromise, Promise!Spec

-----------------------------------------------------------------------------
(* The story the events tell *)

(* Where a log speaks of a phase, and its last word on it. *)
SpeaksOf(l, p) == {i \in 1..Len(l) : l[i].phase = p}

LastWord(l, p) ==
  LET at == SpeaksOf(l, p)
  IN  IF at = {} THEN "pending"
      ELSE l[CHOOSE i \in at : \A j \in at : j <= i].status

(* A log without a failure, in which just the phases of `open` are shown   *)
(* as running.  That the last word on a phase exists is part of it, for it *)
(* is what lets the word be read off an event by event.                    *)
Story(l, open) ==
  /\ l \in Seq(Events)
  /\ \A p \in Phases : SpeaksOf(l, p) # {} =>
       \E i \in SpeaksOf(l, p) : \A j \in SpeaksOf(l, p) : j <= i
  /\ \A i \in 1..Len(l) : l[i].status # "failed"
  /\ \A p \in Phases : LastWord(l, p) = "running" <=> p \in open

After(open, e) ==
  IF e.status = "running" THEN open \cup {e.phase} ELSE open \ {e.phase}

(* The last word on the phase of a new event is its status; the others     *)
(* keep theirs.                                                            *)
LEMMA LastWordMoves ==
  ASSUME NEW l, NEW open, Story(l, open), NEW e \in Events, NEW p \in Phases
  PROVE  LET m == l \o <<e>> IN
         /\ LastWord(m, p) = IF p = e.phase THEN e.status ELSE LastWord(l, p)
         /\ \E i \in 1..Len(m) : p = e.phase \/ SpeaksOf(l, p) # {} =>
              i \in SpeaksOf(m, p) /\ \A j \in SpeaksOf(m, p) : j <= i
<1> DEFINE m == l \o <<e>>
           n == Len(l)
<1>1. l \in Seq(Events) /\ n \in Nat
  BY DEF Story
<1>2. Len(m) = n + 1 /\ m[n + 1] = e /\ \A i \in 1..n : m[i] = l[i]
  BY <1>1
<1> HIDE DEF m, n
<1>3. CASE p = e.phase
  <2>1. n + 1 \in SpeaksOf(m, p) /\ \A j \in SpeaksOf(m, p) : j <= n + 1
    BY <1>1, <1>2, <1>3 DEF SpeaksOf
  <2> DEFINE last == CHOOSE i \in SpeaksOf(m, p) : \A j \in SpeaksOf(m, p) : j <= i
  <2>2. last \in SpeaksOf(m, p) /\ \A j \in SpeaksOf(m, p) : j <= last
    BY <2>1
  <2>3. last \in 1..(n + 1)
    BY <1>2, <2>2 DEF SpeaksOf
  <2>4. last = n + 1
    BY <1>1, <2>1, <2>2, <2>3
  <2>5. LastWord(m, p) = m[last].status
    BY <2>1 DEF LastWord
  <2>6. LastWord(m, p) = e.status
    BY <1>2, <2>4, <2>5
  <2>7. n + 1 \in 1..Len(m)
    BY <1>1, <1>2
  <2> HIDE DEF last
  <2> QED BY <1>3, <2>1, <2>6, <2>7 DEF m
<1>4. CASE p # e.phase
  <2>1. SpeaksOf(m, p) = SpeaksOf(l, p)
    <3>1. ASSUME NEW i \in 1..(n + 1), m[i].phase = p PROVE i \in 1..n /\ l[i].phase = p
      BY <1>1, <1>2, <1>4, <3>1
    <3>2. ASSUME NEW i \in 1..n, l[i].phase = p PROVE i \in 1..(n + 1) /\ m[i].phase = p
      BY <1>1, <1>2, <3>2
    <3> QED BY <1>2, <3>1, <3>2 DEF SpeaksOf, n
  <2>2. CASE SpeaksOf(l, p) = {}
    BY <1>1, <1>2, <1>4, <2>1, <2>2 DEF LastWord, m
  <2>3. CASE SpeaksOf(l, p) # {}
    <3> DEFINE last == CHOOSE i \in SpeaksOf(l, p) : \A j \in SpeaksOf(l, p) : j <= i
    <3>1. last \in SpeaksOf(l, p) /\ \A j \in SpeaksOf(l, p) : j <= last
      BY <2>3 DEF Story
    <3>2. last \in 1..n
      BY <3>1 DEF SpeaksOf, n
    <3>3. LastWord(l, p) = l[last].status /\ LastWord(m, p) = m[last].status
      BY <2>1, <2>3 DEF LastWord
    <3> HIDE DEF last
    <3>4. last \in 1..Len(m)
      BY <1>1, <1>2, <3>2
    <3> QED BY <1>2, <1>4, <2>1, <3>1, <3>2, <3>3, <3>4 DEF m
  <2> QED BY <2>2, <2>3
<1> QED BY <1>3, <1>4 DEF m

(* A story goes on with an event that is no failure.                       *)
LEMMA StoryGoesOn ==
  ASSUME NEW l, NEW open, Story(l, open), NEW e \in Events, e.status # "failed"
  PROVE  Story(l \o <<e>>, After(open, e))
<1> DEFINE m == l \o <<e>>
<1>1. l \in Seq(Events) /\ <<e>> \in Seq(Events)
  BY DEF Story
<1>2. m \in Seq(Events) /\ Len(m) = Len(l) + 1 /\ m[Len(l) + 1] = e
      /\ \A i \in 1..Len(l) : m[i] = l[i]
  BY <1>1
<1> HIDE DEF m
<1>3. \A i \in 1..Len(m) : m[i].status # "failed"
  <2> TAKE i \in 1..Len(m)
  <2>1. i \in 1..Len(l) \/ i = Len(l) + 1
    BY <1>1, <1>2
  <2> QED BY <1>2, <2>1 DEF Story
<1>4. ASSUME NEW p \in Phases, SpeaksOf(m, p) # {}
      PROVE  \E i \in SpeaksOf(m, p) : \A j \in SpeaksOf(m, p) : j <= i
  <2>1. p = e.phase \/ SpeaksOf(l, p) # {}
    <3>1. PICK i \in 1..Len(m) : m[i].phase = p
      BY <1>4 DEF SpeaksOf
    <3>2. i \in 1..Len(l) \/ i = Len(l) + 1
      BY <1>1, <1>2
    <3> QED BY <1>2, <3>1, <3>2 DEF SpeaksOf
  <2> QED BY <2>1, LastWordMoves DEF m
<1>5. ASSUME NEW p \in Phases
      PROVE  LastWord(m, p) = "running" <=> p \in After(open, e)
  <2>1. LastWord(m, p) = IF p = e.phase THEN e.status ELSE LastWord(l, p)
    BY LastWordMoves DEF m
  <2>2. LastWord(l, p) = "running" <=> p \in open
    BY DEF Story
  <2> QED BY <2>1, <2>2 DEF After
<1>6. Story(m, After(open, e))
  BY <1>2, <1>3, <1>4, <1>5 DEF Story
<1> QED BY <1>6 DEF m

(* The properties of a log that its last event may leave as a failure. *)
Told(l, v) ==
  /\ \E q : \A p \in Phases : LastWord(l, p) = "running" => p = q
  /\ \A i \in 1..Len(l) : l[i].status = "failed" => i = Len(l) /\ v = "failed"
  /\ v = "ok" => \A p \in Phases : LastWord(l, p) # "running"

LEMMA StoryIsTold ==
  ASSUME NEW l, NEW open, Story(l, open), NEW q, open \subseteq {q}, NEW v,
         v = "ok" => open = {}
  PROVE  Told(l, v)
BY DEF Story, Told

LEMMA FailureIsTold ==
  ASSUME NEW l, NEW open, Story(l, open), NEW q, open \subseteq {q},
         NEW e \in Events, e.status = "failed"
  PROVE  Told(l \o <<e>>, "failed")
<1> DEFINE m == l \o <<e>>
<1>1. l \in Seq(Events)
  BY DEF Story
<1>2. Len(m) = Len(l) + 1 /\ Len(l) \in Nat /\ \A i \in 1..Len(l) : m[i] = l[i]
  BY <1>1
<1>3. \A i \in 1..Len(m) : m[i].status = "failed" => i = Len(m)
  <2> HIDE DEF m
  <2> TAKE i \in 1..Len(m)
  <2>1. i \in 1..Len(l) \/ i = Len(m)
    BY <1>2
  <2> QED BY <1>2, <2>1 DEF Story
<1>4. ASSUME NEW p \in Phases, LastWord(m, p) = "running" PROVE p = q
  <2>1. LastWord(m, p) = IF p = e.phase THEN e.status ELSE LastWord(l, p)
    BY LastWordMoves
  <2>2. LastWord(l, p) = "running" <=> p \in open
    BY DEF Story
  <2> QED BY <1>4, <2>1, <2>2
<1> QED BY <1>3, <1>4 DEF Told

LEMMA ToldIsProperty == ASSUME Told(log, verdict) PROVE EventsTellTheRun
<1> DEFINE running == {p \in Phases : Shown(p) = "running"}
<1>1. \A p : Shown(p) = LastWord(log, p)
  BY DEF Shown, LastWord, SpeaksOf
<1>2. PICK q : running \subseteq {q}
  BY <1>1 DEF Told
<1>3. Cardinality(running) <= 1
  <2>1. CASE running = {}
    BY <2>1, FS_EmptySet
  <2>2. CASE running # {}
    <3>1. running = {q}
      BY <1>2, <2>2
    <3>2. Cardinality(running) = 1
      BY <3>1, FS_Singleton
    <3> QED BY <3>2
  <2> QED BY <2>1, <2>2
<1> QED BY <1>1, <1>3 DEF Told, EventsTellTheRun

(* Two and three events, one by one. *)
LEMMA StoryOfTwo ==
  ASSUME NEW l, NEW open, Story(l, open), NEW a \in Events, NEW b \in Events,
         a.status # "failed", b.status # "failed"
  PROVE  Story(l \o <<a, b>>, After(After(open, a), b))
<1>1. l \in Seq(Events)
  BY DEF Story
<1>2. l \o <<a, b>> = (l \o <<a>>) \o <<b>>
  <2> DEFINE x == l \o <<a, b>>
             y == (l \o <<a>>) \o <<b>>
  <2>1. x \in Seq(Events) /\ Len(x) = Len(l) + 2
    BY <1>1
  <2>2. y \in Seq(Events) /\ Len(y) = Len(l) + 2
    BY <1>1
  <2>3. \A i \in 1..Len(l) + 2 : x[i] = y[i]
    BY <1>1
  <2> HIDE DEF x, y
  <2>4. x = y
    BY <2>1, <2>2, <2>3
  <2> QED BY <2>4 DEF x, y
<1>3. Story(l \o <<a>>, After(open, a))
  BY StoryGoesOn
<1> HIDE DEF After
<1>4. Story((l \o <<a>>) \o <<b>>, After(After(open, a), b))
  BY <1>3, StoryGoesOn
<1> QED BY <1>2, <1>4

LEMMA StoryOfThree ==
  ASSUME NEW l, NEW open, Story(l, open),
         NEW a \in Events, NEW b \in Events, NEW c \in Events,
         a.status # "failed", b.status # "failed", c.status # "failed"
  PROVE  Story(l \o <<a, b, c>>, After(After(After(open, a), b), c))
<1>1. l \in Seq(Events)
  BY DEF Story
<1>2. l \o <<a, b, c>> = (l \o <<a, b>>) \o <<c>>
  BY <1>1
<1>3. Story(l \o <<a, b>>, After(After(open, a), b))
  BY StoryOfTwo
<1>4. Story((l \o <<a, b>>) \o <<c>>, After(After(After(open, a), b), c))
  BY <1>3, StoryGoesOn
<1> QED BY <1>2, <1>4

(* The phase shown as running at each call of a run. *)
OpenAt(step) ==
  CASE step = "quote" -> {"quote"}
    [] step = "create" -> {"build"}
    [] step = "open" -> {}
    [] step = "allowance" -> {"allowance"}
    [] step \in {"approve", "approveCast"} -> {"approve"}
    [] step = "wait" -> {"approve-wait"}
    [] step = "build" -> {"build"}
    [] step = "sign" -> {"sign"}
    [] step = "bridgeCast" -> {"broadcast"}

(* The story of a run under way has that phase open; of one that has       *)
(* returned the property is all there is to say.                           *)
LogInv ==
  /\ Told(log, verdict)
  /\ pc \notin {"idle", "ended"} => Story(log, OpenAt(pc))

LEMMA LogStarts ==
  /\ Story(<<>>, {})
  /\ Story(<<Event("quote", "running")>>, {"quote"})
<1>1. Story(<<>>, {})
  BY DEF Story, SpeaksOf, LastWord
<1>2. Event("quote", "running") \in Events
  BY EventIsTyped DEF Phases
<1>3. <<>> \o <<Event("quote", "running")>> = <<Event("quote", "running")>>
  BY <1>2
<1>4. After({}, Event("quote", "running")) = {"quote"}
  BY DEF After, Event
<1>5. Event("quote", "running").status # "failed"
  BY DEF Event
<1> QED BY <1>1, <1>2, <1>3, <1>4, <1>5, StoryGoesOn

(* A step that goes on, or returns, with what its events make of the story.*)
LEMMA GoingOn ==
  ASSUME NEW step \in Pcs, NEW events, Goto(step, events), pc \notin {"idle", "ended"},
         verdict = "open", step \notin {"idle", "ended"},
         Story(log \o events, OpenAt(step))
  PROVE  LogInv'
<1>1. log' = log \o events /\ pc' = step /\ verdict' = "open"
  BY DEF Goto, Emit
<1>2. \E q : OpenAt(step) \subseteq {q}
  BY DEF OpenAt, Pcs
<1>3. Told(log \o events, "open")
  BY <1>2, StoryIsTold
<1> QED BY <1>1, <1>3 DEF LogInv

LEMMA Failing ==
  ASSUME NEW events, Fails(events), LogInv, pc \in Pcs \ {"idle", "ended"},
         events = <<>> \/ \E p \in Phases : events = <<Event(p, "failed")>>
  PROVE  LogInv'
<1>1. log' = log \o events /\ pc' = "ended" /\ verdict' = "failed"
  BY DEF Fails, Return, Emit
<1>2. Story(log, OpenAt(pc)) /\ log \in Seq(Events)
  BY DEF LogInv, Story
<1>3. PICK q : OpenAt(pc) \subseteq {q}
  BY DEF OpenAt, Pcs
<1>4. Told(log \o events, "failed")
  <2>1. CASE events = <<>>
    <3>1. log \o events = log
      BY <1>2, <2>1
    <3>2. Told(log, "failed")
      BY <1>2, <1>3, StoryIsTold
    <3> QED BY <3>1, <3>2
  <2>2. ASSUME NEW p \in Phases, events = <<Event(p, "failed")>>
        PROVE  Told(log \o events, "failed")
    <3>1. Event(p, "failed") \in Events /\ Event(p, "failed").status = "failed"
      BY EventIsTyped DEF Event
    <3> QED BY <1>2, <1>3, <2>2, <3>1, FailureIsTold
  <2> QED BY <2>1, <2>2
<1> QED BY <1>1, <1>4 DEF LogInv

LEMMA Succeeding ==
  ASSUME NEW events, Return("ok", events), Story(log \o events, {})
  PROVE  LogInv'
<1>1. log' = log \o events /\ pc' = "ended" /\ verdict' = "ok"
  BY DEF Return, Emit
<1>2. {} \subseteq {"quote"}
  OBVIOUS
<1>3. Told(log \o events, "ok")
  BY <1>2, StoryIsTold
<1> QED BY <1>1, <1>3 DEF LogInv

(* What one, two or three events make of a log in which one phase is open. *)
LEMMA Closed ==
  ASSUME NEW p \in Phases, Story(log, {p})
  PROVE  Story(log \o <<Event(p, "done")>>, {})
<1>1. /\ Event(p, "done") \in Events /\ Event(p, "done").status # "failed"
      /\ After({p}, Event(p, "done")) = {}
  BY EventIsTyped DEF Event, After
<1> QED BY <1>1, StoryGoesOn

LEMMA Opened ==
  ASSUME NEW q \in Phases, Story(log, {})
  PROVE  Story(log \o <<Event(q, "running")>>, {q})
<1>1. /\ Event(q, "running") \in Events /\ Event(q, "running").status # "failed"
      /\ After({}, Event(q, "running")) = {q}
  BY EventIsTyped DEF Event, After
<1> QED BY <1>1, StoryGoesOn

LEMMA Passed ==
  ASSUME NEW p \in Phases, NEW q \in Phases, NEW s \in {"done", "skipped"},
         Story(log, {p}) \/ (Story(log, {}) /\ s = "skipped")
  PROVE  Story(log \o <<Event(p, s), Event(q, "running")>>, {q})
<1>1. /\ Event(p, s) \in Events /\ Event(p, s).status # "failed"
      /\ Event(q, "running") \in Events /\ Event(q, "running").status # "failed"
      /\ After(After({p}, Event(p, s)), Event(q, "running")) = {q}
      /\ After(After({}, Event(p, s)), Event(q, "running")) = {q}
  BY EventIsTyped DEF Event, After
<1> DEFINE a == Event(p, s)
           b == Event(q, "running")
<1>2. /\ a \in Events /\ b \in Events /\ a.status # "failed" /\ b.status # "failed"
      /\ After(After({p}, a), b) = {q} /\ After(After({}, a), b) = {q}
  BY <1>1
<1> HIDE DEF a, b
<1>3. \A open : Story(log, open) => Story(log \o <<a, b>>, After(After(open, a), b))
  BY <1>2, StoryOfTwo
<1>4. Story(log \o <<a, b>>, {q})
  BY <1>2, <1>3
<1> QED BY <1>4 DEF a, b

LEMMA Skipped ==
  ASSUME NEW p \in Phases, NEW r \in Phases, NEW q \in Phases, Story(log, {p})
  PROVE  Story(log \o <<Event(p, "done"), Event(r, "skipped"), Event(q, "running")>>, {q})
<1>1. /\ Event(p, "done") \in Events /\ Event(p, "done").status # "failed"
      /\ Event(r, "skipped") \in Events /\ Event(r, "skipped").status # "failed"
      /\ Event(q, "running") \in Events /\ Event(q, "running").status # "failed"
      /\ After(After(After({p}, Event(p, "done")), Event(r, "skipped")), Event(q, "running"))
           = {q}
  BY EventIsTyped DEF Event, After
<1> DEFINE a == Event(p, "done")
           b == Event(r, "skipped")
           c == Event(q, "running")
<1>2. /\ a \in Events /\ b \in Events /\ c \in Events
      /\ a.status # "failed" /\ b.status # "failed" /\ c.status # "failed"
      /\ After(After(After({p}, a), b), c) = {q}
  BY <1>1
<1> HIDE DEF a, b, c
<1>3. Story(log \o <<a, b, c>>, After(After(After({p}, a), b), c))
  BY <1>2, StoryOfThree
<1>4. Story(log \o <<a, b, c>>, {q})
  BY <1>2, <1>3
<1> QED BY <1>4 DEF a, b, c

LEMMA InnerTells ==
  ASSUME FlowInv, LogInv, Inner
  PROVE  LogInv'
<1>0. pc \notin {"idle", "ended"} /\ verdict = "open" /\ Story(log, OpenAt(pc))
  BY InnerMoves DEF FlowInv, LogInv
<1> USE <1>0 DEF Phases, Pcs
<1>1. CASE Quote
  <2>1. Story(log, {"quote"}) /\ pc = "quote"
    BY <1>1 DEF Quote, OpenAt
  <2>2. CASE Goto("create", <<Event("quote", "done"), Event("build", "running")>>)
    BY <2>1, <2>2, Passed, GoingOn DEF OpenAt
  <2>3. ASSUME NEW events \in {<<>>, <<Event("quote", "failed")>>}, Fails(events)
        PROVE  LogInv'
    BY <2>1, <2>3, Failing
  <2> QED BY <1>1, <2>2, <2>3 DEF Quote
<1>2. CASE Create
  <2>1. Story(log, {"build"}) /\ pc = "create"
    BY <1>2 DEF Create, OpenAt
  <2>2. CASE Fails(<<Event("build", "failed")>>)
    BY <2>1, <2>2, Failing
  <2>3. CASE Return("ok", <<Event("build", "done")>>)
    BY <2>1, <2>3, Closed, Succeeding
  <2>4. CASE Goto("open", <<Event("build", "done")>>)
    BY <2>1, <2>4, Closed, GoingOn DEF OpenAt
  <2> QED BY <1>2, <2>2, <2>3, <2>4 DEF Create
<1>3. CASE Open
  <2>1. Story(log, {}) /\ pc = "open"
    BY <1>3 DEF Open, OpenAt
  <2>2. CASE Fails(<<>>)
    BY <2>1, <2>2, Failing
  <2>3. CASE Goto("sign", <<Event("sign", "running")>>)
    BY <2>1, <2>3, Opened, GoingOn DEF OpenAt
  <2>4. CASE Goto("allowance", <<Event("allowance", "running")>>)
    BY <2>1, <2>4, Opened, GoingOn DEF OpenAt
  <2>5. CASE Goto("approve", <<Event("approve", "running")>>)
    BY <2>1, <2>5, Opened, GoingOn DEF OpenAt
  <2>6. CASE Goto("build", <<Event("approve", "skipped"), Event("build", "running")>>)
    BY <2>1, <2>6, Passed, GoingOn DEF OpenAt
  <2> QED BY <1>3, <2>2, <2>3, <2>4, <2>5, <2>6 DEF Open
<1>4. CASE CheckAllowance
  <2>1. Story(log, {"allowance"}) /\ pc = "allowance"
    BY <1>4 DEF CheckAllowance, OpenAt
  <2>2. CASE Goto("build", <<Event("allowance", "done"), Event("approve", "skipped"),
                            Event("build", "running")>>)
    BY <2>1, <2>2, Skipped, GoingOn DEF OpenAt
  <2>3. CASE Goto("approve", <<Event("allowance", "done"), Event("approve", "running")>>)
    BY <2>1, <2>3, Passed, GoingOn DEF OpenAt
  <2> QED BY <1>4, <2>2, <2>3 DEF CheckAllowance
<1>5. CASE BuildApprove
  <2>1. Story(log, {"approve"}) /\ pc = "approve"
    BY <1>5 DEF BuildApprove, OpenAt
  <2>2. CASE Fails(<<Event("approve", "failed")>>)
    BY <2>1, <2>2, Failing
  <2>3. CASE Goto("approveCast", <<>>)
    <3>1. log \o <<>> = log
      BY <2>1 DEF Story
    <3> QED BY <2>1, <2>3, <3>1, GoingOn DEF OpenAt
  <2> QED BY <1>5, <2>2, <2>3 DEF BuildApprove
<1>6. CASE WaitApprove
  <2>1. Story(log, {"approve-wait"}) /\ pc = "wait"
    BY <1>6 DEF WaitApprove, OpenAt
  <2>2. CASE Fails(<<Event("approve-wait", "failed")>>)
    BY <2>1, <2>2, Failing
  <2>3. CASE Goto("build", <<Event("approve-wait", "done"), Event("build", "running")>>)
    BY <2>1, <2>3, Passed, GoingOn DEF OpenAt
  <2> QED BY <1>6, <2>2, <2>3 DEF WaitApprove
<1>7. CASE BuildBridge
  <2>1. Story(log, {"build"}) /\ pc = "build"
    BY <1>7 DEF BuildBridge, OpenAt
  <2>2. CASE Fails(<<Event("build", "failed")>>)
    BY <2>1, <2>2, Failing
  <2>3. CASE Goto("sign", <<Event("build", "done"), Event("sign", "running")>>)
    BY <2>1, <2>3, Passed, GoingOn DEF OpenAt
  <2> QED BY <1>7, <2>2, <2>3 DEF BuildBridge
<1>8. CASE Sign
  <2>1. Story(log, {"sign"}) /\ pc = "sign"
    BY <1>8 DEF Sign, OpenAt
  <2>2. CASE Fails(<<Event("sign", "failed")>>)
    BY <2>1, <2>2, Failing
  <2>3. CASE Goto("bridgeCast", <<Event("sign", "done"), Event("broadcast", "running")>>)
    BY <2>1, <2>3, Passed, GoingOn DEF OpenAt
  <2> QED BY <1>8, <2>2, <2>3 DEF Sign
<1> QED
  BY <1>1, <1>2, <1>3, <1>4, <1>5, <1>6, <1>7, <1>8 DEF Inner

LEMMA CastsTell ==
  ASSUME FlowInv, LogInv, CastApprove \/ CastBridge
  PROVE  LogInv'
<1> USE DEF Phases, Pcs
<1>0. pc \notin {"idle", "ended"} /\ verdict = "open" /\ Story(log, OpenAt(pc))
  BY DEF FlowInv, LogInv, CastApprove, CastBridge
<1>1. CASE CastApprove
  <2>1. Story(log, {"approve"}) /\ pc = "approveCast"
    BY <1>0, <1>1 DEF CastApprove, OpenAt
  <2>2. CASE Fails(<<Event("approve", "failed")>>)
    BY <2>1, <2>2, Failing
  <2>3. CASE Goto("wait", <<Event("approve", "done"), Event("approve-wait", "running")>>)
    BY <1>0, <2>1, <2>3, Passed, GoingOn DEF OpenAt
  <2>4. CASE Goto("build", <<Event("approve", "done"), Event("build", "running")>>)
    BY <1>0, <2>1, <2>4, Passed, GoingOn DEF OpenAt
  <2> QED BY <1>1, <2>2, <2>3, <2>4 DEF CastApprove
<1>2. CASE CastBridge
  <2>1. Story(log, {"broadcast"}) /\ pc = "bridgeCast"
    BY <1>0, <1>2 DEF CastBridge, OpenAt
  <2>2. CASE Fails(<<Event("broadcast", "failed")>>)
    BY <2>1, <2>2, Failing
  <2>3. CASE Return("ok", <<Event("broadcast", "done")>>)
    BY <2>1, <2>3, Closed, Succeeding
  <2> QED BY <1>2, <2>2, <2>3 DEF CastBridge
<1> QED BY <1>1, <1>2

LEMMA LogInvInductive ==
  ASSUME FlowInv, LogInv, [Next]_vars
  PROVE  LogInv'
<1>1. CASE UNCHANGED <<pc, log, verdict>>
  BY <1>1 DEF LogInv
<1>2. ASSUME NEW o \in [dry : BOOLEAN, approve : BOOLEAN], Start(o) PROVE LogInv'
  <2>1. CASE pc' = "quote" /\ log' = <<Event("quote", "running")>> /\ verdict' = "open"
    <3>1. Story(log', {"quote"}) /\ Told(log', verdict')
      BY <2>1, LogStarts, StoryIsTold
    <3>2. OpenAt(pc') = {"quote"}
      BY <2>1 DEF OpenAt
    <3> QED BY <3>1, <3>2 DEF LogInv
  <2>2. CASE pc' = "ended" /\ log' = <<>> /\ verdict' = "failed"
    <3>1. Told(log', verdict')
      BY <2>2, LogStarts, StoryIsTold
    <3> QED BY <2>2, <3>1 DEF LogInv
  <2> QED BY <1>2, <2>1, <2>2 DEF Start
<1>3. CASE Inner
  BY <1>3, InnerTells
<1>4. CASE CastApprove \/ CastBridge
  BY <1>4, CastsTell
<1>5. CASE World
  BY <1>1, <1>5 DEF World, runVars
<1> QED
  BY <1>1, <1>2, <1>3, <1>4, <1>5 DEF Next, RunStep, Inner, vars, runVars

(* The Progress events of a run tell one story: one phase at a time,       *)
(* nothing after a failure, and nothing left running by a success.         *)
THEOREM EventsAreTrue == Spec => []EventsTellTheRun
<1>1. Init => LogInv
  <2> SUFFICES ASSUME Init PROVE LogInv
    OBVIOUS
  <2>1. Told(log, verdict)
    BY LogStarts, StoryIsTold DEF Init
  <2> QED BY <2>1 DEF Init, LogInv
<1>2. FlowInv /\ LogInv /\ [Next]_vars => LogInv'
  BY LogInvInductive
<1>3. LogInv => EventsTellTheRun
  BY ToldIsProperty DEF LogInv
<1> QED BY <1>1, <1>2, <1>3, AlwaysSentInv, PTL DEF Spec
-----------------------------------------------------------------------------
(* How long a run can take, and how much it says *)

(* The calls a run may still make, and the events it can have emitted.     *)
CallsLeft ==
  CASE pc = "quote" -> 10
    [] pc = "create" -> 9
    [] pc = "open" -> 8
    [] pc = "allowance" -> 7
    [] pc = "approve" -> 6
    [] pc = "approveCast" -> 5
    [] pc = "wait" -> 4
    [] pc = "build" -> 3
    [] pc = "sign" -> 2
    [] pc = "bridgeCast" -> 1
    [] pc \in {"idle", "ended"} -> 0

EventsBy(step) ==
  CASE step = "quote" -> 1
    [] step = "create" -> 3
    [] step = "open" -> 4
    [] step = "allowance" -> 5
    [] step \in {"approve", "approveCast"} -> 7
    [] step = "wait" -> 9
    [] step = "build" -> 11
    [] step = "sign" -> 13
    [] step = "bridgeCast" -> 15
    [] step \in {"idle", "ended"} -> 16

ShortInv == Len(log) <= EventsBy(pc)

(* A list of events makes the log so much longer. *)
LEMMA EmitAdds ==
  ASSUME log \in Seq(Events)
  PROVE  /\ Emit(<<>>) => Len(log') = Len(log)
         /\ \A d : Emit(<<d>>) => Len(log') = Len(log) + 1
         /\ \A d, e : Emit(<<d, e>>) => Len(log') = Len(log) + 2
         /\ \A d, e, f : Emit(<<d, e, f>>) => Len(log') = Len(log) + 3
<1>1. \A events \in Seq(Events) : Len(events) \in Nat
  OBVIOUS
<1>2. ASSUME NEW d PROVE Len(log \o <<d>>) = Len(log) + 1
  <2>1. log \in Seq(Events \cup {d}) /\ <<d>> \in Seq(Events \cup {d})
    OBVIOUS
  <2> QED BY <2>1
<1>3. ASSUME NEW d, NEW e PROVE Len(log \o <<d, e>>) = Len(log) + 2
  <2>1. log \in Seq(Events \cup {d, e}) /\ <<d, e>> \in Seq(Events \cup {d, e})
    OBVIOUS
  <2> QED BY <2>1
<1>4. ASSUME NEW d, NEW e, NEW f PROVE Len(log \o <<d, e, f>>) = Len(log) + 3
  <2>1. log \in Seq(Events \cup {d, e, f}) /\ <<d, e, f>> \in Seq(Events \cup {d, e, f})
    OBVIOUS
  <2> QED BY <2>1
<1>5. Len(log \o <<>>) = Len(log)
  OBVIOUS
<1> QED BY <1>2, <1>3, <1>4, <1>5 DEF Emit

LEMMA RunStepIsShort ==
  ASSUME TypeOK, ShortInv, RunStep
  PROVE  ShortInv' /\ CallsLeft' < CallsLeft
<1>1. log \in Seq(Events) /\ Len(log) \in Nat
  BY DEF TypeOK
<1> USE <1>1, EmitAdds DEF Fails, Goto, Return, ShortInv, EventsBy, CallsLeft
<1>2. CASE Quote
  <2>1. CASE Goto("create", <<Event("quote", "done"), Event("build", "running")>>)
    BY <1>2, <2>1 DEF Quote
  <2>2. CASE Fails(<<>>)
    BY <1>2, <2>2 DEF Quote
  <2>3. CASE Fails(<<Event("quote", "failed")>>)
    BY <1>2, <2>3 DEF Quote
  <2> QED BY <1>2, <2>1, <2>2, <2>3 DEF Quote
<1>3. CASE Create
  BY <1>3 DEF Create
<1>4. CASE Open
  BY <1>4 DEF Open
<1>5. CASE CheckAllowance
  BY <1>5 DEF CheckAllowance
<1>6. CASE BuildApprove
  BY <1>6 DEF BuildApprove
<1>7. CASE CastApprove
  BY <1>7 DEF CastApprove
<1>8. CASE WaitApprove
  BY <1>8 DEF WaitApprove
<1>9. CASE BuildBridge
  BY <1>9 DEF BuildBridge
<1>10. CASE Sign
  BY <1>10 DEF Sign
<1>11. CASE CastBridge
  BY <1>11 DEF CastBridge
<1> QED
  BY <1>2, <1>3, <1>4, <1>5, <1>6, <1>7, <1>8, <1>9, <1>10, <1>11 DEF RunStep

LEMMA OthersAreShort ==
  ASSUME ShortInv, run \in Int,
         \/ World \/ UNCHANGED vars
         \/ \E o \in [dry : BOOLEAN, approve : BOOLEAN] : Start(o)
  PROVE  ShortInv' /\ (CallsLeft' # CallsLeft => run' # run)
<1>1. CASE UNCHANGED <<pc, log>>
  BY <1>1 DEF ShortInv, CallsLeft
<1>2. ASSUME NEW o \in [dry : BOOLEAN, approve : BOOLEAN], Start(o)
      PROVE  ShortInv' /\ (CallsLeft' # CallsLeft => run' # run)
  <2>1. CASE pc' = "quote" /\ log' = <<Event("quote", "running")>>
    <3>1. Len(log') = 1
      BY <2>1
    <3> QED BY <1>2, <2>1, <3>1 DEF Start, ShortInv, EventsBy
  <2>2. CASE pc' = "ended" /\ log' = <<>>
    BY <1>2, <2>2 DEF Start, ShortInv, EventsBy
  <2> QED BY <1>2, <2>1, <2>2 DEF Start
<1> QED BY <1>1, <1>2 DEF World, vars, runVars

(* However the chain, a rival and every call behave, a run returns within  *)
(* ten calls: each lowers what is left of them, and only a new run raises  *)
(* it.  By then it has emitted sixteen events, half of what the channel of *)
(* the execution screen holds (tui.go:869).                                *)
THEOREM RunsAreShort ==
  Spec => /\ [](CallsLeft \in 0..10 /\ Len(log) <= 16)
          /\ [][RunStep => CallsLeft' < CallsLeft]_vars
          /\ [][CallsLeft' > CallsLeft => run' # run]_vars
<1>1. Init => ShortInv
  BY DEF Init, ShortInv, EventsBy
<1>0. TypeOK => run \in Int
  BY ChainConstants DEF TypeOK
<1>2. TypeOK /\ ShortInv /\ [Next]_vars => ShortInv'
  BY <1>0, RunStepIsShort, OthersAreShort DEF Next
<1>3. TypeOK /\ ShortInv /\ [Next]_vars => [RunStep => CallsLeft' < CallsLeft]_vars
  BY RunStepIsShort
<1>4. TypeOK /\ TypeOK' /\ ShortInv /\ [Next]_vars
        => [CallsLeft' > CallsLeft => run' # run]_vars
  <2> SUFFICES ASSUME TypeOK, TypeOK', ShortInv, Next, CallsLeft' > CallsLeft PROVE run' # run
    OBVIOUS
  <2>1. CallsLeft \in 0..10 /\ CallsLeft' \in 0..10
    BY DEF TypeOK, Pcs, CallsLeft
  <2>2. CASE RunStep
    BY <2>1, <2>2, RunStepIsShort
  <2> QED BY <1>0, <2>1, <2>2, OthersAreShort DEF Next
<1>5. TypeOK /\ ShortInv => CallsLeft \in 0..10 /\ Len(log) <= 16
  BY DEF TypeOK, Pcs, ShortInv, CallsLeft, EventsBy
<1> QED BY <1>1, <1>2, <1>3, <1>4, <1>5, TypeCorrect, PTL DEF Spec
=============================================================================
