----------------------------- MODULE SourceChain -----------------------------
(***************************************************************************)
(* The account of the sender on the source chain, and its node: external   *)
(* to the repository, modelled from how cli/internal/broadcast and         *)
(* cli/internal/cli/bridge_send_next_evm.go use it.                        *)
(*                                                                         *)
(* Amounts are counted in transfers: the allowance is the number of        *)
(* transfers of this amount the bridge contract may still take.            *)
(***************************************************************************)
EXTENDS Naturals, FiniteSets

CONSTANTS
  Families,   \* of the source chains considered
  MaxRuns,    \* bound on the runs of the send command
  MaxRivals   \* bound on the transactions other programs send from the account

ASSUME ChainConstants ==
  /\ Families \subseteq {"EVM", "TRX", "SOL"}
  /\ MaxRuns \in Nat
  /\ MaxRivals \in Nat

VARIABLES
  family,     \* of the source chain, and of the sender's wallet
  pool,       \* transactions the node has accepted and no block holds yet
  mined,      \* receipts
  nonce,      \* transactions of the account mined so far
  allowance,  \* what the bridge may take
  rivals      \* transactions of other programs so far

chainVars == <<family, pool, mined, nonce, allowance, rivals>>

(* Who sent a transaction: a run of the command, or 0 for another program; *)
(* and, of an approval, the transfers it allows.                           *)
Txs == [kind : {"approve", "bridge", "other"}, run : 0..MaxRuns, nonce : Nat, allows : Nat]

Statuses == {"ok", "reverted", "noallowance"}

ChainTypeOK ==
  /\ family \in Families
  /\ pool \subseteq Txs
  /\ mined \subseteq [tx : Txs, status : Statuses]
  /\ nonce \in Nat
  /\ allowance \in Nat
  /\ rivals \in 0..MaxRivals

ChainInit ==
  /\ family \in Families
  /\ pool = {}
  /\ mined = {}
  /\ nonce \in {0, 1}
  /\ allowance \in {0, 1}
  /\ rivals = 0

-----------------------------------------------------------------------------

(* Account nonces order the transactions of an EVM account. *)
Ordered == family = "EVM"

OnChain == pool \cup {r.tx : r \in mined}

(* eth_getTransactionCount for the pending block. *)
PendingNonce == nonce + Cardinality(pool)

NonceFree(n) == Ordered => n >= nonce /\ \A t \in pool : t.nonce # n

(* A node accepts a transaction ("ok"), accepts it and its answer is lost  *)
(* ("lost"), refuses its nonce ("nonce"), or refuses it for another reason *)
(* or is out of reach ("refused").                                         *)
Answers == {"ok", "lost", "nonce", "refused"}

Tx(kind, run, n, allows) == [kind |-> kind, run |-> run, nonce |-> n, allows |-> allows]

Submit(t, answer) ==
  /\ answer \in {"ok", "lost"} => NonceFree(t.nonce)
  /\ answer = "nonce" => ~NonceFree(t.nonce)
  /\ pool' = IF answer \in {"ok", "lost"} THEN pool \cup {t} ELSE pool
  /\ UNCHANGED <<family, mined, nonce, allowance, rivals>>

(* A block takes a transaction of the pool: of an EVM account the one      *)
(* whose nonce is next, otherwise any.  A bridge transaction without the   *)
(* allowance it needs fails; another one may fail for its own reasons.     *)
Outcome(t) ==
  IF t.kind = "bridge" /\ family # "SOL" /\ allowance = 0
  THEN {"noallowance"} ELSE {"ok", "reverted"}

AllowanceAfter(t, status) ==
  IF status # "ok" \/ family = "SOL" THEN {allowance}
  ELSE CASE t.kind = "approve" -> {t.allows}
         [] t.kind = "bridge"  -> {allowance - 1}
         [] t.kind = "other"   -> {0, allowance}

Mine(t) ==
  /\ t \in pool
  /\ Ordered => t.nonce = nonce
  /\ \E s \in Outcome(t) :
       /\ mined' = mined \cup {[tx |-> t, status |-> s]}
       /\ allowance' \in AllowanceAfter(t, s)
  /\ pool' = pool \ {t}
  /\ nonce' = nonce + 1
  /\ UNCHANGED <<family, rivals>>

(* Another program of the user sends a transaction from the same account.  *)
Rival ==
  /\ rivals < MaxRivals
  /\ rivals' = rivals + 1
  /\ pool' = pool \cup {Tx("other", 0, IF Ordered THEN PendingNonce ELSE rivals, 0)}
  /\ UNCHANGED <<family, mined, nonce, allowance>>

ChainStep == Rival \/ \E t \in pool : Mine(t)

(* The transactions a run has sent. *)
Sent(kind, run) == {t \in OnChain : t.kind = kind /\ t.run = run}

MinedAs(kind, run, status) ==
  \E r \in mined : r.tx.kind = kind /\ r.tx.run = run /\ r.status = status
=============================================================================
