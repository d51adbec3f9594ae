------------------------------ MODULE RestProofs -----------------------------
(***************************************************************************)
(* What the REST API promises: the lookups, for any tokens and any changes *)
(* of the lists; the quote, for any amounts and fees; the maps of chains   *)
(* it keeps, for any number of requests; and which transactions keep their *)
(* flags when the fee payer is replaced, whatever their size.              *)
(***************************************************************************)
EXTENDS MCRestServer, SponsorWrap, TLAPS

(* The fee payer *)

(* Without lookup tables flagsForIndex agrees with the message format.  So *)
(* it does if nothing but signers is read-only.                            *)
KeepsFlags(m) ==
  \/ m.lutWritable + m.lutReadonly = 0
  \/ m.roUnsigned + m.lutReadonly = 0

(* flagsForIndex makes the right accounts of a message writable exactly if  *)
(* the message looks nothing up, or has no read-only account that does not *)
(* sign.  A program is such an account: a message that calls one keeps its *)
(* flags only if it uses no lookup table.                                  *)
THEOREM FlagsKeptExactly ==
  ASSUME NEW m \in Messages(Nat), m.signed > 0
  PROVE  RebuiltWritable(m) = OriginalWritable(m) <=> KeepsFlags(m)
<1>1. /\ m.static \in Nat /\ m.signed \in Nat /\ m.roSigned \in Nat
      /\ m.roUnsigned \in Nat /\ m.lutWritable \in Nat
      /\ m.lutReadonly \in Nat
      /\ m.signed + m.roUnsigned <= m.static
      /\ m.roSigned < m.signed
  BY SMT DEF Messages
<1>2. ASSUME KeepsFlags(m), NEW i \in Indexes(m)
      PROVE  i \in RebuiltWritable(m) <=> i \in OriginalWritable(m)
  <2>1. i \in Int /\ 0 <= i /\ i < Total(m)
    BY <1>1, SMT DEF Indexes, Total
  <2>2. CASE m.lutWritable + m.lutReadonly = 0
    BY <1>1, <2>1, <2>2, SMT DEF RebuiltWritable, OriginalWritable, Total
  <2>3. CASE m.roUnsigned + m.lutReadonly = 0
    BY <1>1, <2>1, <2>3, SMT DEF RebuiltWritable, OriginalWritable, Total
  <2>4. QED
    BY <1>2, <2>2, <2>3 DEF KeepsFlags
<1>3. KeepsFlags(m) => RebuiltWritable(m) = OriginalWritable(m)
  BY <1>2, Zenon DEF RebuiltWritable, OriginalWritable
<1>4. ASSUME m.roUnsigned > 0, m.lutWritable + m.lutReadonly > 0
      PROVE  RebuiltWritable(m) # OriginalWritable(m)
  <2> DEFINE i == m.static - m.roUnsigned
  <2>1. i \in RebuiltWritable(m)
    BY <1>1, <1>4, SMT DEF RebuiltWritable, Indexes, Total
  <2>2. i \notin OriginalWritable(m)
    BY <1>1, <1>4, SMT DEF OriginalWritable
  <2>3. QED
    BY <2>1, <2>2
<1>5. ASSUME m.roUnsigned = 0, m.lutReadonly > 0
      PROVE  RebuiltWritable(m) # OriginalWritable(m)
  <2> DEFINE i == Total(m) - 1
  <2>1. i \in RebuiltWritable(m)
    BY <1>1, <1>5, SMT DEF RebuiltWritable, Indexes, Total
  <2>2. i \notin OriginalWritable(m)
    BY <1>1, <1>5, SMT DEF OriginalWritable, Total
  <2>3. QED
    BY <2>1, <2>2
<1>6. ~KeepsFlags(m) => RebuiltWritable(m) # OriginalWritable(m)
  BY <1>1, <1>4, <1>5, SMT DEF KeepsFlags
<1>7. QED
  BY <1>3, <1>6

-----------------------------------------------------------------------------

(* An invariant that ties the flags of a wrapped message to flagsForIndex. *)
Wrapped ==
  /\ msg \in Messages(0..MaxKeys)
  /\ pc = "wrapped" =>
       /\ msg.signed > 0
       /\ signers = RebuiltSigners(msg)
       /\ writable = RebuiltWritable(msg)

LEMMA WrappedInv == WrapSpec => []Wrapped
<1>1. WrapInit => Wrapped
  BY DEF WrapInit, Wrapped
<1>2. Wrapped /\ [WrapNext]_wrapVars => Wrapped'
  <2> SUFFICES ASSUME Wrapped, [WrapNext]_wrapVars PROVE Wrapped'
    OBVIOUS
  <2>1. CASE LoadLookupTables
    BY <2>1 DEF LoadLookupTables, Wrapped
  <2>2. CASE Rebuild
    BY <2>2 DEF Rebuild, Wrapped
  <2>3. CASE UNCHANGED wrapVars
    BY <2>3 DEF wrapVars, Wrapped
  <2>4. QED
    BY <2>1, <2>2, <2>3 DEF WrapNext
<1>3. QED
  BY <1>1, <1>2, PTL DEF WrapSpec

(* The service keeps the flags of every transaction without lookup tables, *)
(* whatever its size: the run's counterexamples all use one.               *)
THEOREM FlagsKeptWithoutLookups ==
  WrapSpec => [](KeepsFlags(msg) => FlagsKept)
<1>1. Wrapped /\ KeepsFlags(msg) => FlagsKept
  <2> SUFFICES ASSUME Wrapped, KeepsFlags(msg), pc = "wrapped"
               PROVE  /\ signers = OriginalSigners(msg)
                      /\ writable = OriginalWritable(msg)
    BY DEF FlagsKept
  <2>1. msg \in Messages(Nat) /\ msg.signed > 0
    BY SMT DEF Wrapped, Messages
  <2>2. RebuiltWritable(msg) = OriginalWritable(msg)
    BY <2>1, FlagsKeptExactly
  <2>3. QED
    BY <2>2 DEF Wrapped, RebuiltSigners, OriginalSigners
<1>2. QED
  BY <1>1, WrappedInv, PTL

-----------------------------------------------------------------------------
(* The lookups *)

(* What a lookup asks for. *)
Kinds == {Swap, Pool, Cyd, Inner, Any}

(* What a plan looks up: nothing, one token, or the two of a pair.         *)
PlanLookups == {<<>>, <<Swap, Swap>>} \cup {<<k>> : k \in Kinds}

(* Every handler looks up nothing, one token or a pair. *)
LEMMA PlansLookUp == ASSUME NEW p \in Plans PROVE p.lookups \in PlanLookups
<1> USE DEF PlanLookups, Kinds
<1>1. /\ Plan.lookups = <<>> /\ Pair.lookups = <<Swap, Swap>>
      /\ OfPool.lookups = <<Pool>> /\ OfYield.lookups = <<Inner>>
      /\ OfCyd.lookups = <<Cyd>>
  BY DEF Plan, Pair, OfPool, OfYield, OfCyd
<1>2. \A t \in Types : OfType(t) \in Kinds
  BY DEF Types, OfType
<1>3. \A t \in Types : /\ Approve(t).lookups = <<OfType(t)>>
                      /\ CheckAllowance(t).lookups = <<OfType(t)>>
  BY DEF Approve, CheckAllowance, Plan
<1>4. \A t \in Types, b \in BOOLEAN : GetTokens(t, b).lookups = <<>>
  BY DEF GetTokens, Plan
<1>5. \A b \in BOOLEAN :
        /\ TokenDetails(b).lookups = <<Any>>
        /\ RawSwap(b).lookups = <<Swap, Swap>>
        /\ RawBridge(b).lookups = <<Swap, Swap>>
        /\ AmountToBeReceived(b).lookups = <<Swap, Swap>>
        /\ AmountToSend(b).lookups = <<Swap, Swap>>
  BY DEF TokenDetails, RawSwap, RawBridge, AmountToBeReceived, AmountToSend,
     Pair, Plan
<1>6. "bridge" \in Types
  BY DEF Types
<1>7. \A q \in {RestoreTx, TrustLine, RawOptIn, TransferStatus, NativeBalance,
                GasBalance} :
        q.lookups = <<>>
  BY DEF RestoreTx, TrustLine, RawOptIn, TransferStatus, NativeBalance,
     GasBalance, Plan
<1>8. BalanceLine.lookups = <<>> /\ OptInCheck.lookups = <<>> /\ Utilities.lookups = <<>>
  BY DEF BalanceLine, OptInCheck, Utilities, Plan
<1>9. FormatApr.lookups = <<>>
  BY DEF FormatApr, Plan
<1>10. YieldTokens.lookups = <<>>
  BY DEF YieldTokens, Plan
<1>11. \A q \in {TransferTime, PendingInfo, SwapDetails, BridgeDetails, Quote,
                 GasFee, ExtraGasLimits} :
        q.lookups = <<Swap, Swap>>
  BY DEF TransferTime, PendingInfo, SwapDetails, BridgeDetails, Quote, GasFee,
     ExtraGasLimits, Pair, Plan
<1>12. \A q \in {PoolApprove, Deposit, Withdraw, ClaimRewards,
                 CheckPoolAllowance, PoolInfoByServer,
                PoolInfoFromBlockchain, PoolAllowance, UserPoolInfo, ToBeDeposited, ToBeWithdrawn,
                VUsdFromAmount, AmountFromVUsd} : q.lookups = <<Pool>>
  BY DEF PoolApprove, Deposit, Withdraw, ClaimRewards, CheckPoolAllowance,
     PoolInfoByServer,
     PoolInfoFromBlockchain, PoolAllowance, UserPoolInfo, ToBeDeposited, ToBeWithdrawn,
     VUsdFromAmount, AmountFromVUsd, OfPool, Plan
<1>13. \A q \in {YieldAllowance, CheckYieldAllowance, YieldToBeDeposited,
                 ApproveYield, DepositYield} :
         q.lookups = <<Inner>>
  BY DEF YieldAllowance, CheckYieldAllowance, YieldToBeDeposited,
     ApproveYield, DepositYield, OfYield, Plan
<1>14. \A q \in {YieldBalance, YieldToBeWithdrawn, WithdrawYield} : q.lookups = <<Cyd>>
  BY DEF YieldBalance, YieldToBeWithdrawn, WithdrawYield, OfCyd, Plan
<1>15. TokenBalance.lookups = <<Any>> /\ BridgeAllowance.lookups = <<Swap>>
  BY DEF TokenBalance, BridgeAllowance, Plan
<1> DEFINE OfTypes == {Approve(t) : t \in Types} \cup {CheckAllowance(t) : t \in Types}
           Some == OfTypes \cup {GetTokens(t, b) : t \in Types, b \in BOOLEAN}
           Converting == UNION {{TokenDetails(b), RawSwap(b), RawBridge(b),
                                 AmountToBeReceived(b), AmountToSend(b)} : b \in BOOLEAN}
<1>16. \A q \in OfTypes : q.lookups \in PlanLookups
  BY <1>2, <1>3
<1>17. \A q \in {GetTokens(t, b) : t \in Types, b \in BOOLEAN} : q.lookups \in PlanLookups
  BY <1>4
<1>18. \A q \in Converting : q.lookups \in PlanLookups
  BY <1>5
<1> HIDE DEF PlanLookups, Kinds
<1>19. \/ p \in OfTypes \/ p \in {GetTokens(t, b) : t \in Types, b \in BOOLEAN} \/ p \in Converting
       \/ p \in {Approve("bridge"), CheckAllowance("bridge"), BridgeAllowance,
                 TokenBalance}
       \/ p \in {RestoreTx, TrustLine, RawOptIn, TransferStatus,
                 NativeBalance, GasBalance}
       \/ p \in {BalanceLine, OptInCheck, FormatApr, YieldTokens, Utilities}
       \/ p \in {TransferTime, PendingInfo, SwapDetails, BridgeDetails, Quote,
                 GasFee, ExtraGasLimits}
       \/ p \in {PoolApprove, Deposit, Withdraw, ClaimRewards,
                 CheckPoolAllowance, PoolInfoByServer,
                 PoolInfoFromBlockchain, PoolAllowance, UserPoolInfo, ToBeDeposited, ToBeWithdrawn,
                 VUsdFromAmount, AmountFromVUsd}
       \/ p \in {YieldAllowance, CheckYieldAllowance, YieldToBeDeposited,
                 ApproveYield, DepositYield}
       \/ p \in {YieldBalance, YieldToBeWithdrawn, WithdrawYield}
  <2> HIDE DEF OfTypes, Converting
  <2>1. Plans = OfTypes \cup {GetTokens(t, b) : t \in Types, b \in BOOLEAN} \cup Converting \cup
         {BridgeApprove, RestoreTx, TrustLine, RawOptIn, TransferTime,
          TransferStatus, PendingInfo, SwapDetails, BridgeDetails,
          BridgeAllowance, CheckBridgeAllowance, Quote, TokenBalance,
          NativeBalance, GasFee, GasBalance, ExtraGasLimits, BalanceLine,
          OptInCheck, PoolApprove, Deposit, Withdraw, ClaimRewards,
          CheckPoolAllowance, PoolInfoByServer, PoolInfoFromBlockchain,
          PoolAllowance, UserPoolInfo, ToBeDeposited, ToBeWithdrawn,
          VUsdFromAmount, AmountFromVUsd, FormatApr, YieldTokens,
          YieldAllowance, CheckYieldAllowance, YieldBalance,
          YieldToBeDeposited, YieldToBeWithdrawn, ApproveYield, DepositYield,
          WithdrawYield, Utilities}
    BY DEF Plans, OfTypes, Converting
  <2> QED BY <2>1 DEF BridgeApprove, CheckBridgeAllowance
<1>20. \A k \in Kinds : <<k>> \in PlanLookups
  BY DEF PlanLookups
<1>21. {Swap, Pool, Cyd, Inner, Any} = Kinds
  BY DEF Kinds
<1>22. <<>> \in PlanLookups /\ <<Swap, Swap>> \in PlanLookups
  BY DEF PlanLookups
<1> QED
  <2> HIDE DEF OfTypes, Converting
  <2>1. CASE p \in OfTypes \/ p \in {GetTokens(t, b) : t \in Types,
                                     b \in BOOLEAN} \/ p \in Converting
    BY <2>1, <1>16, <1>17, <1>18
  <2>2. CASE p \in {Approve("bridge"), CheckAllowance("bridge"),
                    BridgeAllowance, TokenBalance}
    BY <2>2, <1>2, <1>3, <1>6, <1>15, <1>20, <1>21
  <2>3. CASE p \in {RestoreTx, TrustLine, RawOptIn, TransferStatus,
                    NativeBalance, GasBalance}
             \/ p \in {BalanceLine, OptInCheck, FormatApr, YieldTokens,
                       Utilities}
    BY <2>3, <1>7, <1>8, <1>9, <1>10, <1>22
  <2>4. CASE p \in {TransferTime, PendingInfo, SwapDetails, BridgeDetails,
                    Quote, GasFee, ExtraGasLimits}
    BY <2>4, <1>11, <1>22
  <2>5. CASE p \in {PoolApprove, Deposit, Withdraw, ClaimRewards,
                    CheckPoolAllowance, PoolInfoByServer,
                 PoolInfoFromBlockchain, PoolAllowance, UserPoolInfo, ToBeDeposited, ToBeWithdrawn,
                 VUsdFromAmount, AmountFromVUsd}
    BY <2>5, <1>12, <1>20, <1>21
  <2>6. CASE p \in {YieldAllowance, CheckYieldAllowance, YieldToBeDeposited,
                    ApproveYield, DepositYield}
    BY <2>6, <1>13, <1>20, <1>21
  <2>7. CASE p \in {YieldBalance, YieldToBeWithdrawn, WithdrawYield}
    BY <2>7, <1>14, <1>20, <1>21
  <2> QED BY <1>19, <2>1, <2>2, <2>3, <2>4, <2>5, <2>6, <2>7

(* What is left of a search over all lists. *)
AfterSwap == <<<<"pool">>, <<"cyd", "inner">>>>
AfterPool == <<<<"cyd", "inner">>>>

(* What a lookup still reads, and that the lists it has read lacked the    *)
(* token throughout.                                                       *)
ReadsLeft ==
  \/ h.reads = h.plan.lookups[1]
  \/ /\ h.plan.lookups = <<Any>>
     /\ h.reads = AfterSwap
     /\ Matches("swap", steady) = {}
  \/ /\ h.plan.lookups = <<Any>>
     /\ h.reads = AfterPool
     /\ Matches("swap", steady) = {}
     /\ Matches("pool", steady) = {}

IsRequest(r) ==
  r = [pc |-> r.pc, plan |-> r.plan, bad |-> r.bad, addrs |-> r.addrs,
       chain |-> r.chain, reads |-> r.reads, found |-> r.found,
       calls |-> r.calls]

(* A request in its lookups has addresses left to find, and what it has    *)
(* read of the lists lacked the first of them since its lookup began.      *)
LookInv ==
  /\ IsRequest(h)
  /\ lists \in [Lists -> SUBSET Tokens]
  /\ steady \in [Lists -> SUBSET Tokens]
  /\ \A l \in Lists : steady[l] \subseteq lists[l]
  /\ h.pc = "lookup" =>
       /\ h.plan.lookups \in PlanLookups \ {<<>>}
       /\ h.addrs \in Seq(Addresses)
       /\ \/ Len(h.addrs) = 1
          \/ Len(h.addrs) = 2 /\ h.plan.lookups = <<Swap, Swap>> /\ h.found = <<>>
       /\ ReadsLeft
  /\ TokenNotMissed

(* A token that lists have lacked is not on shorter lists. *)
LEMMA FewerMatch ==
  ASSUME NEW ls, NEW ms, \A l \in Lists : ls[l] \subseteq ms[l], NEW stage,
         Matches(stage, ms) = {}
  PROVE  Matches(stage, ls) = {}
<1>1. ListOf(stage) \in Lists
  BY DEF ListOf, Lists
<1> QED BY <1>1 DEF Matches

(* A request without a hit: none of its stages, one or two, finds a token. *)
LEMMA NoHits ==
  ASSUME NEW s, Hits(<<s>>) = {}
  PROVE  Matches(s, lists) = {}
<1> DEFINE one == <<s>>
<1>1. Len(one) = 1 /\ one[1] = s
  OBVIOUS
<1> HIDE DEF one
<1>2. 1 \notin Hits(one)
  BY DEF one
<1> QED BY <1>1, <1>2 DEF Hits

LEMMA NoHitsOfTwo ==
  ASSUME NEW s, NEW u, Hits(<<s, u>>) = {}
  PROVE  Matches(s, lists) = {} /\ Matches(u, lists) = {}
<1> DEFINE two == <<s, u>>
<1>1. Len(two) = 2 /\ two[1] = s /\ two[2] = u
  OBVIOUS
<1> HIDE DEF two
<1>2. 1 \notin Hits(two) /\ 2 \notin Hits(two)
  BY DEF two
<1>3. Matches(s, lists) = {}
  BY <1>1, <1>2 DEF Hits
<1>4. \A j \in 1..(2 - 1) : j = 1
  OBVIOUS
<1> QED BY <1>1, <1>2, <1>3, <1>4 DEF Hits

(* The stages that are searched, kind by kind.                             *)
LEMMA KindStages ==
  ASSUME NEW k \in Kinds, NEW p, p.lookups[1] = k
  PROVE  \/ k = Any /\ StagesOf(p) = {"swap", "pool", "cyd", "inner"}
         \/ \E s : k = <<<<s>>>> /\ StagesOf(p) = {s}
<1>1. CASE k = Any
  BY <1>1 DEF StagesOf
<1>2. CASE k # Any
  <2>1. PICK s : k = <<<<s>>>>
    BY <1>2 DEF Kinds, Swap, Pool, Cyd, Inner
  <2> QED BY <1>2, <2>1 DEF StagesOf
<1> QED BY <1>1, <1>2

(* The lookups of a pair are the same: what is read next does not depend   *)
(* on which of the two it is.                                              *)
LEMMA LookupFirst ==
  ASSUME NEW p, p.lookups \in PlanLookups \ {<<>>}
  PROVE  /\ p.lookups[1] \in Kinds
         /\ p.lookups = <<Swap, Swap>> \/ p.lookups = <<p.lookups[1]>>
         /\ p.lookups = <<Swap, Swap>> => p.lookups[2] = p.lookups[1] /\ Len(p.lookups) = 2
         /\ p.lookups # <<Swap, Swap>> => Len(p.lookups) = 1
<1> USE DEF Kinds
<1>1. CASE p.lookups = <<Swap, Swap>>
  BY <1>1
<1>2. CASE p.lookups # <<Swap, Swap>>
  <2>1. PICK k \in Kinds : p.lookups = <<k>>
    BY <1>2 DEF PlanLookups
  <2> HIDE DEF Kinds
  <2> QED BY <1>2, <2>1
<1> QED BY <1>1, <1>2

(* The request a plan begins with. *)
Taken(p, bad, c, addrs) ==
  LET refused == bad = "missing" \/ (bad = "enum" /\ p.enums = "first")
  IN [NoRequest EXCEPT
        !.pc = IF refused THEN "rejected"
               ELSE IF addrs = <<>> THEN "check" ELSE "lookup",
        !.plan = p, !.bad = bad,
        !.addrs = IF refused THEN <<>> ELSE addrs,
        !.chain = IF refused THEN "any" ELSE c,
        !.reads = IF refused THEN <<>> ELSE StartReads(addrs, p, 1),
        !.calls = IF refused THEN <<>> ELSE p.calls]

(* A request that comes starts with all of its reads. *)
LEMMA ArriveLooks == LookInv /\ Arrive => LookInv'
<1> SUFFICES ASSUME LookInv, Arrive PROVE LookInv'
  OBVIOUS
<1>1. PICK p \in Plans : \E bad, c :
        \E addrs \in [1..Len(p.lookups) -> Addresses] : h' = Taken(p, bad, c, addrs)
  BY DEF Arrive, Taken
<1>2. /\ IsRequest(h')
      /\ h'.plan = p /\ h'.found = <<>>
      /\ \/ h'.pc = "rejected" /\ h'.addrs = <<>>
         \/ h'.pc = "check"
         \/ /\ h'.pc = "lookup"
            /\ h'.addrs \in [1..Len(p.lookups) -> Addresses]
            /\ h'.addrs # <<>>
            /\ h'.reads = StartReads(h'.addrs, p, 1)
  <2>1. PICK bad, c :
          \E addrs \in [1..Len(p.lookups) -> Addresses] : h' = Taken(p, bad, c, addrs)
    BY <1>1
  <2>2. PICK addrs \in [1..Len(p.lookups) -> Addresses] : h' = Taken(p, bad, c, addrs)
    BY <2>1
  <2> DEFINE refused == bad = "missing" \/ (bad = "enum" /\ p.enums = "first")
  <2>3. CASE refused
    BY <2>2, <2>3 DEF NoRequest, Taken, IsRequest
  <2>4. CASE ~refused
    BY <2>2, <2>4 DEF NoRequest, Taken, IsRequest
  <2> QED BY <2>3, <2>4
<1>3. p.lookups \in PlanLookups
  BY PlansLookUp
<1>4. lists' = lists /\ steady' = lists
  BY DEF Arrive
<1>5. CASE h'.pc # "lookup"
  BY <1>4, <1>5, <1>2 DEF LookInv, TokenNotMissed, Missed
<1>6. CASE h'.pc = "lookup"
  <2>1. p.lookups # <<>>
    BY <1>6, <1>2
  <2>2. h'.reads = p.lookups[1]
    BY <1>6, <1>2 DEF StartReads
  <2>3. Len(p.lookups) \in {1, 2} /\ (Len(p.lookups) = 2 => p.lookups = <<Swap, Swap>>)
    BY <1>3, <2>1, LookupFirst
  <2>4. h'.addrs \in Seq(Addresses) /\ Len(h'.addrs) = Len(p.lookups)
    BY <1>6, <1>2, <2>3
  <2>5. ReadsLeft'
    BY <1>2, <2>2 DEF ReadsLeft
  <2>6. TokenNotMissed'
    BY <1>6 DEF TokenNotMissed, Missed
  <2> QED BY <1>3, <1>4, <1>6, <1>2, <2>1, <2>3, <2>4, <2>5, <2>6 DEF LookInv
<1> QED BY <1>5, <1>6

LEMMA TailOfOne ==
  ASSUME NEW S, NEW s \in Seq(S), s # <<>>
  PROVE  /\ Tail(s) \in Seq(S) /\ Len(Tail(s)) = Len(s) - 1
         /\ Len(s) = 1 => Tail(s) = <<>>
<1>1. s \in [1..Len(s) -> S] /\ Len(s) \in Nat /\ Len(s) # 0
  OBVIOUS
<1>2. Tail(s) \in Seq(S) /\ Len(Tail(s)) = Len(s) - 1
  BY <1>1
<1>3. \A t \in Seq(S) : Len(t) = 0 => t = <<>>
  OBVIOUS
<1> QED BY <1>2, <1>3

(* A token that is found ends the lookups, or starts those of the second.  *)
LEMMA FoundLooks == LookInv /\ Found => LookInv'
<1> SUFFICES ASSUME LookInv, Found PROVE LookInv'
  OBVIOUS
<1>1. PICK t :
        LET rest == Tail(h.addrs)
        IN h' = [h EXCEPT
                    !.found = Append(@, t),
                    !.addrs = rest,
                    !.reads = StartReads(rest, h.plan, Len(h.found) + 2),
                    !.pc = IF rest = <<>> THEN "check" ELSE "lookup"]
  BY DEF Found
<1>2. lists' = lists /\ steady' = lists /\ h.pc = "lookup"
  BY DEF Found
<1>3. /\ IsRequest(h')
      /\ h'.plan = h.plan
      /\ h'.addrs = Tail(h.addrs)
      /\ h'.reads = StartReads(Tail(h.addrs), h.plan, Len(h.found) + 2)
      /\ h'.pc = IF Tail(h.addrs) = <<>> THEN "check" ELSE "lookup"
  BY <1>1 DEF LookInv, IsRequest
<1>4. CASE Tail(h.addrs) = <<>>
  BY <1>2, <1>3, <1>4 DEF LookInv, TokenNotMissed, Missed
<1>5. CASE Tail(h.addrs) # <<>>
  <2>1. h.addrs \in Seq(Addresses) /\ Len(h.addrs) \in {1, 2}
    BY <1>2 DEF LookInv
  <2>2. Len(h.addrs) = 1 => Tail(h.addrs) = <<>>
    BY <2>1, TailOfOne
  <2>3. h.addrs \in Seq(Addresses) /\ Len(h.addrs) = 2 /\ h.addrs # <<>>
        /\ h.plan.lookups = <<Swap, Swap>> /\ h.found = <<>>
    BY <1>2, <1>5, <2>1, <2>2 DEF LookInv
  <2>4. Tail(h.addrs) \in Seq(Addresses) /\ Len(Tail(h.addrs)) = 1
    BY <2>3, TailOfOne
  <2>5. h'.reads = h'.plan.lookups[1]
    BY <1>3, <1>5, <2>3 DEF StartReads
  <2>6. ReadsLeft'
    BY <2>5 DEF ReadsLeft
  <2>7. TokenNotMissed'
    BY <1>3, <1>5 DEF TokenNotMissed, Missed
  <2> QED BY <1>2, <1>3, <1>5, <2>4, <2>6, <2>7 DEF LookInv
<1> QED BY <1>4, <1>5

(* The lists a lookup has read to its end lacked the token.                *)
LEMMA ReadToTheEnd ==
  ASSUME LookInv, h.pc = "lookup", Hits(Head(h.reads)) = {}
  PROVE  \/ ~(Len(h.reads) > 1) /\ \A stage \in StagesOf(h.plan) : Matches(stage, steady) = {}
         \/ /\ Len(h.reads) > 1 /\ h.plan.lookups = <<Any>>
            /\ h.reads = Any /\ Tail(h.reads) = AfterSwap /\ Matches("swap", steady) = {}
         \/ /\ Len(h.reads) > 1 /\ h.plan.lookups = <<Any>>
            /\ h.reads = AfterSwap /\ Tail(h.reads) = AfterPool
            /\ Matches("swap", steady) = {} /\ Matches("pool", steady) = {}
<1> DEFINE k == h.plan.lookups[1]
<1>1. /\ k \in Kinds
      /\ h.plan.lookups = <<Swap, Swap>> \/ h.plan.lookups = <<k>>
  BY LookupFirst DEF LookInv
<1>2. \A s : Matches(s, lists) = {} => Matches(s, steady) = {}
  BY FewerMatch DEF LookInv
<1>3. CASE \E s : k = <<<<s>>>> /\ StagesOf(h.plan) = {s} /\ h.reads = k
  <2>1. PICK s : h.reads = <<<<s>>>> /\ StagesOf(h.plan) = {s}
    BY <1>3
  <2>2. Head(h.reads) = <<s>> /\ Len(h.reads) = 1
    BY <2>1
  <2> QED BY <1>2, <2>1, <2>2, NoHits
<1>4. CASE k = Any /\ h.reads = k
  <2>1. Head(h.reads) = <<"swap">> /\ Len(h.reads) > 1 /\ Tail(h.reads) = AfterSwap
    BY <1>4 DEF Any, AfterSwap
  <2>2. h.plan.lookups = <<Any>>
    BY <1>1, <1>4 DEF Any, Swap
  <2> QED BY <1>2, <1>4, <2>1, <2>2, NoHits
<1>5. CASE h.plan.lookups = <<Any>> /\ h.reads = AfterSwap /\ Matches("swap", steady) = {}
  <2>1. Head(h.reads) = <<"pool">> /\ Len(h.reads) > 1 /\ Tail(h.reads) = AfterPool
    BY <1>5 DEF AfterPool, AfterSwap
  <2> QED BY <1>2, <1>5, <2>1, NoHits
<1>6. CASE /\ h.plan.lookups = <<Any>> /\ h.reads = AfterPool
           /\ Matches("swap", steady) = {} /\ Matches("pool", steady) = {}
  <2>1. Head(h.reads) = <<"cyd", "inner">> /\ Len(h.reads) = 1
    BY <1>6 DEF AfterPool
  <2>2. Matches("cyd", steady) = {} /\ Matches("inner", steady) = {}
    BY <1>2, <2>1, NoHitsOfTwo
  <2>3. StagesOf(h.plan) = {"swap", "pool", "cyd", "inner"}
    BY <1>6 DEF StagesOf
  <2> QED BY <1>6, <2>1, <2>2, <2>3
<1>7. ReadsLeft
  BY DEF LookInv
<1> QED BY <1>1, <1>3, <1>4, <1>5, <1>6, <1>7, KindStages DEF ReadsLeft

(* A list without the token is searched, or the last one is.               *)
LEMMA NotFoundLooks == LookInv /\ NotFound => LookInv'
<1> SUFFICES ASSUME LookInv, NotFound PROVE LookInv'
  OBVIOUS
<1>1. /\ h.pc = "lookup" /\ Hits(Head(h.reads)) = {}
      /\ UNCHANGED <<lists, steady>>
      /\ h' = IF Len(h.reads) > 1
          THEN [h EXCEPT !.reads = Tail(@)]
          ELSE [Bare(IF h.plan.absent = "empty" THEN "empty" ELSE "rejected")
                EXCEPT !.plan = h.plan, !.addrs = h.addrs, !.chain = h.chain]
  BY DEF NotFound
<1>2. CASE Len(h.reads) > 1
  <2>1. /\ h' = [pc |-> "lookup", plan |-> h.plan, bad |-> h.bad, addrs |-> h.addrs, chain |-> h.chain,
              reads |-> Tail(h.reads), found |-> h.found, calls |-> h.calls]
    BY <1>1, <1>2 DEF LookInv, IsRequest
  <2>2. \A s : Matches(s, steady)' = Matches(s, steady)
    BY <1>1, <2>1 DEF Matches
  <2>3. /\ h.plan.lookups = <<Any>>
        /\ \/ Tail(h.reads) = AfterSwap /\ Matches("swap", steady) = {}
           \/ /\ Tail(h.reads) = AfterPool
              /\ Matches("swap", steady) = {} /\ Matches("pool", steady) = {}
    BY <1>1, <1>2, ReadToTheEnd, Zenon
  <2>4. h'.plan = h.plan /\ h'.reads = Tail(h.reads) /\ h'.addrs = h.addrs
        /\ h'.found = h.found /\ h'.pc = "lookup"
    BY <2>1
  <2>5. ReadsLeft'
    BY <2>2, <2>3, <2>4 DEF ReadsLeft
  <2>6. TokenNotMissed'
    BY <2>1 DEF TokenNotMissed, Missed
  <2>7. IsRequest(h')
    BY <2>1 DEF IsRequest
  <2> QED BY <1>1, <2>4, <2>7, <2>5, <2>6 DEF LookInv
<1>3. CASE ~(Len(h.reads) > 1)
  <2>1. /\ h' = [pc |-> h'.pc, plan |-> h.plan, bad |-> h'.bad, addrs |-> h.addrs, chain |-> h.chain,
              reads |-> h'.reads, found |-> h'.found, calls |-> h'.calls]
        /\ h'.pc # "lookup"
    BY <1>1, <1>3 DEF Bare, NoRequest, IsRequest
  <2>2. \A s : Matches(s, steady)' = Matches(s, steady)
    BY <1>1, <2>1 DEF Matches
  <2>3. StagesOf(h.plan)' = StagesOf(h.plan)
    BY <2>1
  <2>4. \A stage \in StagesOf(h.plan) : Matches(stage, steady) = {}
    BY <1>1, <1>3, ReadToTheEnd
  <2>5. TokenNotMissed'
    BY <2>2, <2>3, <2>4 DEF TokenNotMissed
  <2> QED BY <1>1, <2>1, <2>5 DEF LookInv, IsRequest
<1> QED BY <1>2, <1>3

(* A change of the lists leaves what they have held since then.            *)
LEMMA RelistLooks == LookInv /\ Relist => LookInv'
<1> SUFFICES ASSUME LookInv, Relist PROVE LookInv'
  OBVIOUS
<1>1. PICK l \in Lists, now \in SUBSET Tokens :
        /\ lists' = [lists EXCEPT ![l] = now]
        /\ steady' = [steady EXCEPT ![l] = @ \cap now]
        /\ h' = h /\ h.pc = "lookup"
  <2>1. PICK l \in Lists, t \in Tokens :
          LET now == IF t \in lists[l] THEN lists[l] \ {t} ELSE lists[l] \cup {t}
          IN /\ lists' = [lists EXCEPT ![l] = now]
             /\ steady' = [steady EXCEPT ![l] = @ \cap now]
    BY DEF Relist
  <2>2. lists[l] \in SUBSET Tokens
    BY DEF LookInv
  <2>3. lists[l] \ {t} \in SUBSET Tokens /\ lists[l] \cup {t} \in SUBSET Tokens
    BY <2>2
  <2> QED BY <2>1, <2>3 DEF Relist
<1>2. /\ lists' \in [Lists -> SUBSET Tokens] /\ steady' \in [Lists -> SUBSET Tokens]
      /\ \A m \in Lists : steady'[m] \subseteq lists'[m] /\ steady'[m] \subseteq steady[m]
  BY <1>1 DEF LookInv
<1>3. \A s : Matches(s, steady) = {} => Matches(s, steady)' = {}
  <2>1. \A s : Matches(s, steady') = Matches(s, steady)'
    BY <1>1 DEF Matches
  <2> QED BY <1>2, <2>1, FewerMatch
<1>4. ReadsLeft'
  BY <1>1, <1>3 DEF ReadsLeft, LookInv
<1>5. TokenNotMissed'
  BY <1>1 DEF TokenNotMissed, Missed
<1> QED BY <1>1, <1>2, <1>4, <1>5 DEF LookInv

(* Outside of its lookups a request knows no address. *)
LEMMA NoLookups ==
  ASSUME LookInv, IsRequest(h'), h'.pc # "lookup",
         h'.pc \in {"empty", "rejected"} => h'.addrs = <<>>,
         lists' = lists, steady' = steady
  PROVE  LookInv'
BY DEF LookInv, TokenNotMissed, Missed

(* An answer without an address is that of no lookup. *)
LEMMA BareIsRequest ==
  ASSUME NEW to
  PROVE  IsRequest(Bare(to)) /\ Bare(to).pc = to /\ Bare(to).addrs = <<>>
<1>1. Bare(to) = [pc |-> to, plan |-> Plan, bad |-> "none", addrs |-> <<>>,
                 chain |-> "any", reads |-> <<>>, found |-> <<>>, calls |-> <<>>]
  BY DEF Bare, NoRequest
<1> QED BY <1>1 DEF IsRequest

LEMMA LookStep == LookInv /\ [Next]_vars => LookInv'
<1> SUFFICES ASSUME LookInv, [Next]_vars PROVE LookInv'
  OBVIOUS
<1>1. CASE UNCHANGED hvars
  BY <1>1 DEF hvars, LookInv, ReadsLeft, TokenNotMissed, Missed, Matches
<1>2. CASE LookupFails
  BY <1>2, NoLookups, BareIsRequest DEF LookupFails
<1>3. CASE Check
  <2>1. lists' = lists /\ steady' = steady
    BY <1>3 DEF Check
  <2>2. PICK to \in {"rejected", "failed", "quote", "ok", "call"} :
          h' = Bare(to) \/ h' = [Bare(to) EXCEPT !.calls = h.calls]
    BY <1>3 DEF Check
  <2>3. IsRequest(h') /\ h'.pc = to /\ h'.addrs = <<>>
    <3>1. CASE h' = Bare(to)
      BY <3>1, BareIsRequest
    <3>2. CASE h' = [Bare(to) EXCEPT !.calls = h.calls]
      <4>1. h' = [pc |-> to, plan |-> Plan, bad |-> "none", addrs |-> <<>>,
                  chain |-> "any", reads |-> <<>>, found |-> <<>>, calls |-> h.calls]
        BY <3>2 DEF Bare, NoRequest
      <4> QED BY <4>1 DEF IsRequest
    <3> QED BY <2>2, <3>1, <3>2
  <2> QED BY <2>1, <2>2, <2>3, NoLookups
<1>4. CASE Call
  <2>1. lists' = lists /\ steady' = steady /\ h.pc = "call"
    BY <1>4 DEF Call
  <2>2. CASE h' = [h EXCEPT !.calls = Tail(@)]
    <3>1. IsRequest(h') /\ h'.pc = "call"
      BY <2>1, <2>2 DEF LookInv, IsRequest
    <3> QED BY <2>1, <3>1, NoLookups
  <2>3. CASE \E to \in {"ok", "rejected", "failed", "blank"} : h' = Bare(to)
    BY <2>1, <2>3, BareIsRequest, NoLookups
  <2> QED BY <1>4, <2>2, <2>3 DEF Call
<1>5. CASE OpenQuote \/ (QuoteStep /\ UNCHANGED hvars)
  BY <1>1, <1>5 DEF OpenQuote
<1>6. CASE EndQuote
  <2>1. /\ h' = Bare("ok") \/ h' = Bare("rejected")
        /\ lists' = lists /\ steady' = steady
    BY <1>6 DEF EndQuote
  <2>2. IsRequest(h') /\ h'.pc # "lookup" /\ h'.addrs = <<>>
    <3>1. CASE h' = Bare("ok")
      BY <3>1, BareIsRequest
    <3>2. CASE h' = Bare("rejected")
      BY <3>2, BareIsRequest
    <3> QED BY <2>1, <3>1, <3>2
  <2> QED BY <2>1, <2>2, NoLookups
<1>7. CASE Relist \/ Arrive \/ Found \/ NotFound
  BY <1>7, RelistLooks, ArriveLooks, FoundLooks, NotFoundLooks
<1>8. CASE Handle
  BY <1>2, <1>3, <1>4, <1>7, <1>8 DEF Handle
<1>9. CASE DetailsNext /\ UNCHANGED <<serving, hvars, qvars>>
  BY <1>1, <1>9
<1>10. CASE UNCHANGED vars
  BY <1>1, <1>10 DEF vars
<1>11. CASE Next
  BY <1>5, <1>6, <1>8, <1>9, <1>11 DEF Next
<1> QED BY <1>10, <1>11

(* A token that the lists a handler searches held all along is not missed, *)
(* for any tokens, lists and changes of the lists between the requests     *)
(* (getAnyTokenByAddress, getTokenByAddressAndType).*)
THEOREM NoTokenIsMissed == Spec => []TokenNotMissed
<1>1. Init => LookInv
  <2> SUFFICES ASSUME Init PROVE LookInv
    OBVIOUS
  <2>1. IsRequest(h) /\ h.pc = "idle"
    BY DEF Init, NoRequest, IsRequest
  <2> QED BY <2>1, ServerConstants DEF Init, LookInv, TokenNotMissed, Missed
<1>2. LookInv => TokenNotMissed
  BY DEF LookInv
<1> QED BY <1>1, <1>2, LookStep, PTL DEF Spec

-----------------------------------------------------------------------------
(* The maps of chains *)

(* A request that asked the API found nothing kept.                        *)
ReaderInv ==
  /\ version \in Nat \ {0}
  /\ reader \in [Readers -> [pc : {"idle", "asked", "answered", "served", "failed"},
                            type : MapTypes, map : Nat, early : BOOLEAN]]
  /\ \A r \in Readers :
       /\ reader[r].pc \in {"asked", "answered"} => reader[r].early
       /\ reader[r].pc = "answered" => reader[r].map # NoMap
  /\ cache \in [MapTypes -> Nat]

LEMMA ReaderStep == ReaderInv /\ [DetailsNext]_cvars => ReaderInv'
<1> SUFFICES ASSUME ReaderInv, [DetailsNext]_cvars PROVE ReaderInv'
  OBVIOUS
<1> USE DEF ReaderInv, NoMap
<1>1. CASE ApiChanges
  BY <1>1 DEF ApiChanges
<1>2. ASSUME NEW r \in Readers, ReadCache(r) PROVE ReaderInv'
  BY <1>2 DEF ReadCache
<1>3. ASSUME NEW r \in Readers, ApiAnswers(r) PROVE ReaderInv'
  BY <1>3 DEF ApiAnswers
<1>4. ASSUME NEW r \in Readers, Keep(r) PROVE ReaderInv'
  BY <1>4 DEF Keep
<1>5. CASE UNCHANGED cvars
  BY <1>5 DEF cvars
<1> QED BY <1>1, <1>2, <1>3, <1>4, <1>5 DEF DetailsNext

LEMMA DetailsStep == [Next]_vars => [DetailsNext]_cvars
BY DEF Next, vars, EndQuote, Handle

(* A map that is kept is replaced only by the answer of a request that     *)
(* came while none was kept, and is never forgotten (chainDetailsMap).     *)
THEOREM MapsSettle == Spec => KeptMapsSettle
<1>1. Init => ReaderInv
  BY DEF Init, DetailsInit, ReaderInv, Idle, MapTypes, NoMap
<1>2. ReaderInv /\ [DetailsNext]_cvars =>
        [\A t \in MapTypes :
           cache[t] # NoMap /\ cache'[t] # cache[t] =>
             /\ cache'[t] # NoMap
             /\ \E r \in Readers : /\ reader[r].pc = "answered"
                                   /\ reader[r].type = t
                                   /\ reader[r].early]_cvars
  <2> SUFFICES ASSUME ReaderInv, DetailsNext, NEW t \in MapTypes, cache'[t] # cache[t]
               PROVE  /\ cache'[t] # NoMap
                      /\ \E r \in Readers : /\ reader[r].pc = "answered"
                                            /\ reader[r].type = t
                                            /\ reader[r].early
    OBVIOUS
  <2>1. PICK r \in Readers : Keep(r)
    BY DEF DetailsNext, ApiChanges, ReadCache, ApiAnswers
  <2> QED BY <2>1 DEF Keep, ReaderInv
<1> QED BY <1>1, <1>2, ReaderStep, DetailsStep, PTL DEF Spec, KeptMapsSettle

-----------------------------------------------------------------------------
(* The quote *)

(* What is left of the amount when the fee of a payment is paid.           *)
Left(p) == IF p.method = "STABLECOIN" THEN amount - p.fee ELSE amount

OfOneAmount(p) ==
  /\ Left(p) > 0
  /\ p.received = Left(p)
  /\ p.lp \in {None, Left(p)}
  /\ p.transfer \in {None, 0, Left(p)}

PaymentShape ==
  payment \in [method : MethodSet, fee : Int, pending : BOOLEAN, received : Int, lp : Int, transfer : Int]

(* Each call about a payment is asked for what the calls before it were.   *)
QuoteInv ==
  /\ amount \in Int
  /\ offer \in [MethodSet -> Int]
  /\ methods \in Seq(MethodSet)
  /\ PaymentShape
  /\ qpc = "closed" => payments = {}
  /\ qpc \in {"pending", "receive", "lp", "transferFee"} => methods # <<>>
  /\ qpc \in {"pending", "receive", "lp", "transferFee"} => Left(payment) > 0
  /\ qpc \in {"pending", "receive"} => payment.lp = None /\ payment.transfer = None
  /\ qpc \in {"lp", "transferFee"} => payment.received = Left(payment)
  /\ qpc = "lp" => payment.transfer = None
  /\ qpc = "transferFee" => payment.lp \in {None, Left(payment)} /\ payment.transfer = None
  /\ \A p \in payments : OfOneAmount(p)

LEMMA MethodsAreTyped == Methods \in Seq(MethodSet) /\ "NATIVE" \in MethodSet
BY DEF Methods, MethodSet

LEMMA NoPaymentIsTyped ==
  /\ NoPayment \in [method : MethodSet, fee : Int, pending : BOOLEAN, received : Int, lp : Int, transfer : Int]
  /\ NoPayment.lp = None /\ NoPayment.transfer = None
BY MethodsAreTyped DEF NoPayment, None

(* On to the next method, or to the next messenger, with payments that are *)
(* all of one amount.                                                      *)
LEMMA QuoteGoesOn ==
  ASSUME QuoteInv, methods # <<>>, NextMethod, UNCHANGED <<amount, offer>>,
         \A p \in payments' : OfOneAmount(p)
  PROVE  QuoteInv'
<1>1. methods' \in Seq(MethodSet)
  BY DEF QuoteInv, NextMethod
<1>2. PaymentShape'
  BY NoPaymentIsTyped DEF PaymentShape, NextMethod
<1>3. \A p : OfOneAmount(p)' = OfOneAmount(p)
  BY DEF OfOneAmount, Left
<1> QED BY <1>1, <1>2, <1>3 DEF QuoteInv, NextMethod

(* Whether a payment is of one amount depends on the amount alone.         *)
LEMMA AmountDecides ==
  ASSUME UNCHANGED amount
  PROVE  \A p : Left(p)' = Left(p) /\ OfOneAmount(p)' = OfOneAmount(p)
BY DEF OfOneAmount, Left

LEMMA QuoteStepKeeps ==
  ASSUME QuoteInv, QuoteStep
  PROVE  QuoteInv'
<1>1. CASE GasFees
  <2>1. Fees \cup {None} \subseteq Int
    BY QuoteConstants DEF None
  <2>2. UNCHANGED <<amount, payment>> /\ qpc' \in {"method", "error"}
    BY <1>1 DEF GasFees
  <2>3. offer' \in [MethodSet -> Int] /\ methods' \in Seq(MethodSet)
    BY <1>1, <2>1, MethodsAreTyped DEF GasFees, QuoteInv
  <2>4. payments' \subseteq payments
    BY <1>1 DEF GasFees
  <2> QED BY <2>2, <2>3, <2>4, AmountDecides DEF QuoteInv, PaymentShape
<1>2. CASE Method
  <2>1. UNCHANGED <<amount, offer, payments>> /\ methods # <<>>
    BY <1>2 DEF Method
  <2>2. \A p \in payments' : OfOneAmount(p)
    BY <2>1 DEF QuoteInv
  <2>3. CASE NextMethod
    BY <2>1, <2>2, <2>3, QuoteGoesOn
  <2>4. CASE ~NextMethod
    <3> DEFINE method == Head(methods)
               fee == offer[method]
    <3>1. /\ ~(Routed(method, fee) <= 0) /\ qpc' = "pending" /\ UNCHANGED methods
          /\ payment' = [NoPayment EXCEPT !.method = method, !.fee = fee]
      BY <1>2, <2>4 DEF Method
    <3>2. method \in MethodSet /\ fee \in Int
      BY <2>1 DEF QuoteInv
    <3> HIDE DEF method, fee
    <3>3. /\ PaymentShape' /\ payment'.method = method /\ payment'.fee = fee
          /\ payment'.lp = None /\ payment'.transfer = None
      BY <3>1, <3>2, NoPaymentIsTyped DEF PaymentShape
    <3>4. Left(payment') > 0
      BY <3>1, <3>2, <3>3 DEF Left, Routed, QuoteInv
    <3> QED BY <2>1, <3>1, <3>3, <3>4, AmountDecides DEF QuoteInv
  <2> QED BY <2>3, <2>4
<1>3. CASE Pending
  <2>1. PICK known \in BOOLEAN : payment' = [payment EXCEPT !.pending = known]
    BY <1>3 DEF Pending
  <2>2. /\ qpc = "pending" /\ qpc' = "receive" /\ UNCHANGED <<amount, offer, methods, payments>>
    BY <1>3 DEF Pending
  <2>3. PaymentShape' /\ Left(payment') = Left(payment)
        /\ payment'.lp = payment.lp /\ payment'.transfer = payment.transfer
    BY <2>1 DEF QuoteInv, PaymentShape, Left
  <2> QED BY <2>2, <2>3, AmountDecides DEF QuoteInv
<1>4. CASE CalcReceive
  <2>1. UNCHANGED <<amount, offer, payments>> /\ qpc = "receive"
    BY <1>4 DEF CalcReceive
  <2>2. CASE qpc' = "lp"
    <3>1. payment' = [payment EXCEPT !.received = Left(payment)] /\ UNCHANGED methods
      BY <1>4, <2>2 DEF CalcReceive, NextMethod, Left
    <3>2. Left(payment) \in Int
      BY DEF QuoteInv, PaymentShape, Left
    <3>3. PaymentShape' /\ Left(payment') = Left(payment) /\ payment'.received = Left(payment)
          /\ payment'.lp = payment.lp /\ payment'.transfer = payment.transfer
      BY <3>1, <3>2 DEF QuoteInv, PaymentShape, Left
    <3> QED BY <2>1, <2>2, <3>1, <3>3, AmountDecides DEF QuoteInv
  <2>3. CASE qpc' # "lp"
    <3>1. NextMethod
      BY <1>4, <2>3 DEF CalcReceive
    <3>2. methods # <<>>
      BY <2>1 DEF QuoteInv
    <3>3. \A p \in payments' : OfOneAmount(p)
      BY <2>1 DEF QuoteInv
    <3> QED BY <2>1, <3>1, <3>2, <3>3, QuoteGoesOn
  <2> QED BY <2>2, <2>3
<1>5. CASE LpFee
  <2>1. qpc = "lp" /\ UNCHANGED <<amount, offer, methods, payments>>
    BY <1>5 DEF LpFee
  <2>2. CASE qpc' = "error" /\ UNCHANGED payment
    BY <2>1, <2>2, AmountDecides DEF QuoteInv, PaymentShape
  <2>3. CASE qpc' = "transferFee"
    <3>1. Routed(payment.method, payment.fee) = Left(payment)
      BY DEF Routed, Left
    <3>2. PICK lp \in {None, Left(payment)} : payment' = [payment EXCEPT !.lp = lp]
      BY <1>5, <2>3, <3>1 DEF LpFee
    <3>3. lp \in Int
      BY DEF QuoteInv, PaymentShape, Left, None
    <3>4. PaymentShape' /\ Left(payment') = Left(payment) /\ payment'.received = payment.received
          /\ payment'.lp = lp /\ payment'.transfer = payment.transfer
      BY <3>2, <3>3 DEF QuoteInv, PaymentShape, Left
    <3> QED BY <2>1, <2>3, <3>2, <3>4, AmountDecides DEF QuoteInv
  <2> QED BY <1>5, <2>2, <2>3 DEF LpFee
<1>6. CASE TransferFee
  <2>1. qpc = "transferFee" /\ UNCHANGED <<amount, offer>>
    BY <1>6 DEF TransferFee
  <2>2. CASE qpc' = "error" /\ UNCHANGED <<methods, payment, payments>>
    BY <2>1, <2>2, AmountDecides DEF QuoteInv, PaymentShape
  <2>3. CASE NextMethod
    <3>1. Routed(payment.method, payment.fee) = Left(payment)
      BY DEF Routed, Left
    <3>2. PICK p : payments' = payments \cup {p}
                   /\ (p = payment \/ \E fee \in {0, Left(payment)} : p = [payment EXCEPT !.transfer = fee])
      BY <1>6, <2>3, <3>1 DEF TransferFee, NextMethod
    <3>3. OfOneAmount(p)
      <4>1. Left(payment) \in Int /\ Left(payment) > 0 /\ payment.received = Left(payment)
            /\ payment.lp \in {None, Left(payment)} /\ payment.transfer = None
        BY <2>1 DEF QuoteInv, PaymentShape, Left
      <4>2. Left(p) = Left(payment) /\ p.received = payment.received /\ p.lp = payment.lp
            /\ p.transfer \in {None, 0, Left(payment)}
        BY <3>2, <4>1 DEF QuoteInv, PaymentShape, Left
      <4> QED BY <4>1, <4>2 DEF OfOneAmount
    <3>4. methods # <<>>
      BY <2>1 DEF QuoteInv
    <3>5. \A q \in payments' : OfOneAmount(q)
      BY <3>2, <3>3 DEF QuoteInv
    <3> QED BY <2>1, <2>3, <3>4, <3>5, QuoteGoesOn
  <2> QED BY <1>6, <2>2, <2>3 DEF TransferFee
<1>7. CASE Option
  <2>1. UNCHANGED <<amount, offer, methods, payment, payments>> /\ qpc' \in {"done", "gasFees"}
    BY <1>7 DEF Option
  <2> QED BY <2>1, AmountDecides DEF QuoteInv, PaymentShape
<1> QED BY <1>1, <1>2, <1>3, <1>4, <1>5, <1>6, <1>7 DEF QuoteStep

(* Every payment of a quote shows amounts that belong together, for any    *)
(* amounts, fees and messengers (getQuote, calcReceive, getTransferFee).   *)
THEOREM QuotesAreOfOneAmount == Spec => []QuoteIsOneAmount
<1>1. Init => QuoteInv
  BY NoPaymentIsTyped DEF Init, QuoteInit, QuoteInv, PaymentShape, None
<1>2. QuoteInv /\ [Next]_vars => QuoteInv'
  <2> SUFFICES ASSUME QuoteInv, [Next]_vars PROVE QuoteInv'
    OBVIOUS
  <2>1. CASE QuoteStep
    BY <2>1, QuoteStepKeeps
  <2>2. CASE OpenQuote
    <3>1. /\ payments = {} /\ qpc' = "gasFees" /\ amount' \in Int
          /\ UNCHANGED <<offer, methods, payment, payments>>
      BY <2>2, QuoteConstants DEF OpenQuote, Open, QuoteInv
    <3> QED BY <3>1 DEF QuoteInv, PaymentShape
  <2>3. CASE EndQuote
    BY <2>3, NoPaymentIsTyped DEF EndQuote, QuoteInv, PaymentShape, None
  <2>4. CASE UNCHANGED qvars
    BY <2>4, AmountDecides DEF qvars, QuoteInv, PaymentShape
  <2> QED BY <2>1, <2>2, <2>3, <2>4 DEF Next, vars
<1>3. QuoteInv => QuoteIsOneAmount
  BY DEF QuoteInv, OfOneAmount, Left, QuoteIsOneAmount
<1> QED BY <1>1, <1>2, <1>3, PTL DEF Spec
=============================================================================
