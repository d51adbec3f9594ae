-------------------------- MODULE SourceChainProofs --------------------------
(***************************************************************************)
(* Facts about the actions of SourceChain, for the modules that send.      *)
(***************************************************************************)
EXTENDS SourceChain, FiniteSetTheorems, TLAPS

(* The pool is finite, so that it can be counted, and of an EVM account    *)
(* every nonce in it is below the next free one.                           *)
PoolInv ==
  /\ IsFiniteSet(pool)
  /\ Ordered => \A t \in pool : t.nonce < PendingNonce

LEMMA PendingNonceIsNat ==
  ASSUME ChainTypeOK, IsFiniteSet(pool)
  PROVE  PendingNonce \in Nat
BY FS_CardinalityType DEF ChainTypeOK, PendingNonce

(* What a submission adds to the chain. *)
LEMMA SubmitAdds ==
  ASSUME NEW t, NEW answer, Submit(t, answer)
  PROVE  /\ OnChain' = IF answer \in {"ok", "lost"} THEN OnChain \cup {t} ELSE OnChain
         /\ UNCHANGED <<family, mined, nonce, allowance, rivals>>
BY DEF Submit, OnChain

(* A transaction that takes the next free nonce, or an earlier free one,   *)
(* is counted.                                                             *)
LEMMA SubmitKeepsTypes ==
  ASSUME ChainTypeOK, PoolInv, NEW t \in Txs, NEW answer, Submit(t, answer),
         Ordered => t.nonce <= PendingNonce
  PROVE  /\ ChainTypeOK' /\ PoolInv'
         /\ Ordered /\ answer \in {"ok", "lost"} => PendingNonce' = PendingNonce + 1
         /\ answer \notin {"ok", "lost"} => PendingNonce' = PendingNonce
<1>1. ChainTypeOK'
  BY DEF ChainTypeOK, Submit
<1>2. IsFiniteSet(pool')
  BY FS_AddElement DEF Submit, PoolInv
<1>3. CASE answer \notin {"ok", "lost"}
  <2>1. UNCHANGED <<pool, nonce, family>>
    BY <1>3 DEF Submit
  <2> QED BY <1>1, <1>2, <1>3, <2>1 DEF PoolInv, PendingNonce, Ordered
<1>4. CASE answer \in {"ok", "lost"}
  <2>1. pool' = pool \cup {t} /\ UNCHANGED <<nonce, family>>
    BY <1>4 DEF Submit
  <2>2. CASE ~Ordered
    BY <1>1, <1>2, <1>4, <2>1, <2>2 DEF PoolInv, Ordered
  <2>3. CASE Ordered
    <3>1. t \notin pool
      BY <1>4, <2>3 DEF Submit, NonceFree
    <3>2. Cardinality(pool') = Cardinality(pool) + 1
      BY <2>1, <3>1, FS_AddElement DEF PoolInv
    <3>3. Cardinality(pool) \in Nat /\ nonce \in Nat
      BY FS_CardinalityType DEF PoolInv, ChainTypeOK
    <3>4. PendingNonce' = PendingNonce + 1
      BY <2>1, <3>2, <3>3 DEF PendingNonce
    <3>5. PendingNonce \in Nat /\ t.nonce \in Nat /\ \A u \in pool : u.nonce \in Nat
      BY <3>3 DEF PendingNonce, Txs, ChainTypeOK
    <3>6. \A u \in pool' : u.nonce < PendingNonce'
      BY <2>1, <2>3, <3>4, <3>5 DEF PoolInv
    <3> QED BY <1>1, <1>2, <1>4, <3>4, <3>6 DEF PoolInv
  <2> QED BY <2>2, <2>3
<1> QED BY <1>3, <1>4

-----------------------------------------------------------------------------

(* A block moves a transaction, and another program adds one of its own:   *)
(* what the runs have sent stays as it is.                                 *)
LEMMA ChainStepKeepsSent ==
  ASSUME ChainStep
  PROVE  /\ OnChain \subseteq OnChain'
         /\ \A t \in OnChain' \ OnChain : t.kind = "other"
         /\ mined \subseteq mined'
         /\ UNCHANGED family
<1>1. CASE Rival
  <2> DEFINE t == Tx("other", 0, IF Ordered THEN PendingNonce ELSE rivals, 0)
  <2>1. t.kind = "other"
    BY DEF Tx
  <2>2. pool' = pool \cup {t} /\ UNCHANGED <<mined, family>>
    BY <1>1 DEF Rival
  <2> HIDE DEF t
  <2> QED BY <2>1, <2>2 DEF OnChain
<1>2. ASSUME NEW t \in pool, Mine(t)
      PROVE  OnChain' = OnChain /\ mined \subseteq mined' /\ UNCHANGED family
  <2>1. PICK s : mined' = mined \cup {[tx |-> t, status |-> s]}
    BY <1>2 DEF Mine
  <2> DEFINE receipt == [tx |-> t, status |-> s]
  <2>2. receipt.tx = t /\ mined' = mined \cup {receipt}
    BY <2>1
  <2> HIDE DEF receipt
  <2>3. pool' = pool \ {t} /\ UNCHANGED family
    BY <1>2 DEF Mine
  <2> QED BY <2>2, <2>3 DEF OnChain
<1> QED BY <1>1, <1>2 DEF ChainStep

LEMMA MineKeepsTypes ==
  ASSUME ChainTypeOK, PoolInv, NEW t \in pool, Mine(t)
  PROVE  ChainTypeOK' /\ PoolInv' /\ UNCHANGED <<PendingNonce, rivals>>
<1>1. PICK s \in Outcome(t) :
        /\ mined' = mined \cup {[tx |-> t, status |-> s]}
        /\ allowance' \in AllowanceAfter(t, s)
  BY DEF Mine
<1>2. t \in Txs /\ s \in Statuses
  BY <1>1 DEF ChainTypeOK, Outcome, Statuses
<1>3. allowance' \in Nat
  <2>1. s = "ok" /\ family # "SOL" /\ t.kind = "bridge" => allowance >= 1
    BY <1>1 DEF Outcome, ChainTypeOK
  <2>2. t.allows \in Nat /\ allowance \in Nat
    BY <1>2 DEF Txs, ChainTypeOK
  <2>3. t.kind \in {"approve", "bridge", "other"}
    BY <1>2 DEF Txs
  <2>4. CASE s # "ok" \/ family = "SOL"
    BY <1>1, <2>2, <2>4 DEF AllowanceAfter
  <2>5. CASE ~(s # "ok" \/ family = "SOL")
    BY <1>1, <2>1, <2>2, <2>3, <2>5 DEF AllowanceAfter
  <2> QED BY <2>4, <2>5
<1>4. ChainTypeOK'
  BY <1>1, <1>2, <1>3 DEF Mine, ChainTypeOK
<1>5. IsFiniteSet(pool') /\ Cardinality(pool') = Cardinality(pool) - 1
  BY FS_RemoveElement DEF Mine, PoolInv
<1>6. Cardinality(pool) \in Nat /\ nonce \in Nat
  BY FS_CardinalityType DEF PoolInv, ChainTypeOK
<1>7. PendingNonce' = PendingNonce
  BY <1>5, <1>6 DEF PendingNonce, Mine
<1> QED BY <1>4, <1>5, <1>7 DEF PoolInv, Mine, Ordered

LEMMA RivalKeepsTypes ==
  ASSUME ChainTypeOK, PoolInv, Rival
  PROVE  ChainTypeOK' /\ PoolInv' /\ rivals' > 0 /\ (Ordered => PendingNonce' = PendingNonce + 1)
<1>1. PendingNonce \in Nat /\ rivals \in Nat /\ nonce \in Nat /\ Cardinality(pool) \in Nat
  BY PendingNonceIsNat, FS_CardinalityType DEF PoolInv, ChainTypeOK
<1> DEFINE n == IF Ordered THEN PendingNonce ELSE rivals
           t == Tx("other", 0, n, 0)
<1>2. t \in Txs /\ t.nonce = n /\ n \in Nat
  BY <1>1, ChainConstants DEF Txs, Tx
<1>3. pool' = pool \cup {t}
  BY DEF Rival
<1> HIDE DEF t, n
<1>4. rivals' \in 0..MaxRivals /\ rivals' > 0
  BY <1>1, ChainConstants DEF Rival
<1>5. ChainTypeOK'
  BY <1>2, <1>3, <1>4 DEF Rival, ChainTypeOK
<1>6. IsFiniteSet(pool')
  BY <1>3, FS_AddElement DEF PoolInv
<1>7. CASE Ordered
  <2>1. t.nonce = PendingNonce
    BY <1>2, <1>7 DEF n
  <2>2. t \notin pool
    BY <1>1, <1>7, <2>1 DEF PoolInv
  <2>3. PendingNonce' = PendingNonce + 1
    BY <1>1, <1>3, <2>2, FS_AddElement DEF PoolInv, PendingNonce, Rival
  <2>4. \A u \in pool : u.nonce \in Nat
    BY DEF ChainTypeOK, Txs
  <2> QED BY <1>1, <1>3, <1>4, <1>5, <1>6, <1>7, <2>1, <2>3, <2>4 DEF PoolInv
<1>8. CASE ~Ordered
  BY <1>4, <1>5, <1>6, <1>8 DEF PoolInv, Rival, Ordered
<1> QED BY <1>7, <1>8

LEMMA ChainInitIsTyped == ASSUME ChainInit PROVE ChainTypeOK /\ PoolInv
BY FS_EmptySet, ChainConstants DEF ChainInit, ChainTypeOK, PoolInv

(* Every step of the chain keeps its types, and the next free nonce moves  *)
(* only if another program sends.                                          *)
LEMMA ChainStepKeepsTypes ==
  ASSUME ChainTypeOK, PoolInv, ChainStep
  PROVE  /\ ChainTypeOK' /\ PoolInv'
         /\ rivals' = rivals \/ rivals' > 0
         /\ rivals' # rivals \/ PendingNonce' = PendingNonce
         /\ Ordered => PendingNonce' >= PendingNonce
<1>1. PendingNonce \in Nat /\ rivals \in Nat
  BY PendingNonceIsNat DEF PoolInv, ChainTypeOK
<1>2. CASE Rival
  <2>1. rivals' # rivals
    BY <1>1, <1>2 DEF Rival
  <2> QED BY <1>1, <1>2, <2>1, RivalKeepsTypes
<1>3. ASSUME NEW t \in pool, Mine(t)
      PROVE  /\ ChainTypeOK' /\ PoolInv'
             /\ rivals' = rivals /\ PendingNonce' = PendingNonce
  BY <1>3, MineKeepsTypes
<1> QED BY <1>1, <1>2, <1>3 DEF ChainStep

-----------------------------------------------------------------------------

(* What the runs send. *)
Kinds == {"approve", "bridge"}

(* A transaction of a run has one receipt, once it has left the pool.      *)
ReceiptInv ==
  /\ \A r \in mined : r.tx.kind \in Kinds => r.tx \notin pool
  /\ \A r, s \in mined : r.tx.kind \in Kinds /\ r.tx = s.tx => r = s

LEMMA SubmitKeepsReceipts ==
  ASSUME ReceiptInv, NEW t, t \notin OnChain, NEW answer, Submit(t, answer)
  PROVE  ReceiptInv'
BY DEF ReceiptInv, Submit, OnChain

LEMMA ChainStepKeepsReceipts ==
  ASSUME ReceiptInv, ChainStep
  PROVE  ReceiptInv'
<1>1. CASE Rival
  <2> DEFINE t == Tx("other", 0, IF Ordered THEN PendingNonce ELSE rivals, 0)
  <2>1. t.kind = "other"
    BY DEF Tx
  <2>2. pool' = pool \cup {t} /\ UNCHANGED mined
    BY <1>1 DEF Rival
  <2> HIDE DEF t
  <2> QED BY <2>1, <2>2 DEF ReceiptInv, Kinds
<1>2. ASSUME NEW t \in pool, Mine(t) PROVE ReceiptInv'
  <2>1. PICK s : mined' = mined \cup {[tx |-> t, status |-> s]}
    BY <1>2 DEF Mine
  <2> DEFINE receipt == [tx |-> t, status |-> s]
  <2>2. receipt.tx = t /\ mined' = mined \cup {receipt}
    BY <2>1
  <2> HIDE DEF receipt
  <2>3. pool' = pool \ {t}
    BY <1>2 DEF Mine
  <2> QED BY <2>2, <2>3 DEF ReceiptInv
<1> QED BY <1>1, <1>2 DEF ChainStep
=============================================================================
