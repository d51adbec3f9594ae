----------------------------- MODULE RestServer -----------------------------
(***************************************************************************)
(* The REST API: handlers that look tokens up in lists of an API that      *)
(* change between their awaits, the bridge quote, and the cache of chain   *)
(* details.  Handlers share nothing but that cache, which only /chains     *)
(* uses: the model serves either any number of requests for /chains, or    *)
(* one other request at a time.                                            *)
(***************************************************************************)
EXTENDS RestPlans, BridgeQuote, ChainDetails, FiniteSets

CONSTANTS
  Tokens,      \* the tokens there are: records of chain, address and, for
               \* a yield token, the address of the token inside
  EvmChains,   \* the chains with allowances: EVM and Tron
  FirstLists,  \* what the API lists at first
  MaxRelistings  \* bound on the changes of its lists

Lists == {"swap", "pool", "yield"}

ASSUME ServerConstants ==
  /\ FirstLists \in [Lists -> SUBSET Tokens]
  /\ MaxRelistings \in Nat

VARIABLES
  serving,     \* "chains" or "tokens"
  lists,       \* what the API lists now
  relistings,
  steady,      \* what it has listed since the current lookup began
  h            \* the request being handled

hvars == <<lists, relistings, steady, h>>

vars == <<serving, hvars, qvars, cvars>>

Chains == {t.chain : t \in Tokens}

Addresses == {t.addr : t \in Tokens} \cup {t.inner : t \in Tokens}

NoRequest ==
  [pc |-> "idle", plan |-> Plan, bad |-> "none", addrs |-> <<>>,
   chain |-> "any", reads |-> <<>>, found |-> <<>>, calls |-> <<>>]

Init ==
  /\ serving \in {"chains", "tokens"}
  /\ lists = FirstLists
  /\ relistings = 0
  /\ steady = FirstLists
  /\ h = NoRequest
  /\ QuoteInit
  /\ DetailsInit

-----------------------------------------------------------------------------
(* Lookups *)

ListOf(stage) == IF stage \in {"swap", "pool"} THEN stage ELSE "yield"

AddressOf(stage, t) == IF stage = "inner" THEN t.inner ELSE t.addr

(* The tokens of some lists that a stage of a lookup would find. *)
Matches(stage, ls) ==
  {t \in ls[ListOf(stage)] :
     /\ AddressOf(stage, t) = Head(h.addrs)
     /\ h.chain \in {"any", t.chain}}

(* The first stage of a request that finds something, or none. *)
Hits(stages) ==
  {i \in 1..Len(stages) :
     /\ Matches(stages[i], lists) # {}
     /\ \A j \in 1..(i - 1) : Matches(stages[j], lists) = {}}

-----------------------------------------------------------------------------

(* The API lists a token, or no longer does; while no lookup is under way  *)
(* it makes no difference when.                                            *)
Relist ==
  /\ h.pc = "lookup"
  /\ relistings < MaxRelistings
  /\ \E l \in Lists, t \in Tokens :
       LET now == IF t \in lists[l] THEN lists[l] \ {t} ELSE lists[l] \cup {t}
       IN /\ (l = "yield") <=> (t.inner # t.addr)
          /\ lists' = [lists EXCEPT ![l] = now]
          /\ steady' = [steady EXCEPT ![l] = @ \cap now]
  /\ relistings' = relistings + 1
  /\ UNCHANGED h

(* What can be wrong with a request of a plan: a required parameter, an    *)
(* enumeration, a relayer fee or an amount.                                *)
Wrongs(p) ==
  {"none", "missing"}
    \cup (IF p.enums = "none" THEN {} ELSE {"enum"})
    \cup (IF p.fee THEN {"fee"} ELSE {})
    \cup (IF p.amount THEN {"amount"} ELSE {})

(* The next thing a handler awaits, or its check when all are found. *)
StartReads(addrs, p, n) ==
  IF addrs = <<>> THEN <<>> ELSE p.lookups[n]

(* The request, of which only its place still matters. *)
Bare(to) == [NoRequest EXCEPT !.pc = to]

(* A request comes; requireQueryParam and the first checks answer it, or   *)
(* its lookups begin.                                                      *)
Arrive ==
  /\ h.pc \in {"idle", "ok", "blank", "empty", "rejected", "failed"}
  /\ \E p \in Plans :
     \E bad \in Wrongs(p), c \in IF p.onChain THEN Chains ELSE {"any"},
        addrs \in [1..Len(p.lookups) -> Addresses] :
       LET refused == bad = "missing" \/ (bad = "enum" /\ p.enums = "first")
       IN h' = [NoRequest EXCEPT
                  !.pc = IF refused THEN "rejected"
                         ELSE IF addrs = <<>> THEN "check" ELSE "lookup",
                  !.plan = p, !.bad = bad,
                  !.addrs = IF refused THEN <<>> ELSE addrs,
                  !.chain = IF refused THEN "any" ELSE c,
                  !.reads = IF refused THEN <<>> ELSE StartReads(addrs, p, 1),
                  !.calls = IF refused THEN <<>> ELSE p.calls]
  /\ steady' = lists
  /\ UNCHANGED <<lists, relistings>>

(* An answer of the API to a lookup: its stages search it in order. *)
Found ==
  /\ h.pc = "lookup"
  /\ \E i \in Hits(Head(h.reads)) :
       \E t \in Matches(Head(h.reads)[i], lists) :
         LET rest == Tail(h.addrs)
         IN h' = [h EXCEPT
                    !.found = Append(@, t),
                    !.addrs = rest,
                    !.reads = StartReads(rest, h.plan, Len(h.found) + 2),
                    !.pc = IF rest = <<>> THEN "check" ELSE "lookup"]
  /\ steady' = lists
  /\ UNCHANGED <<lists, relistings>>

(* None has the address: on to the lookup's next request, or not found.    *)
(* What was looked for stays with the reply.                               *)
NotFound ==
  /\ h.pc = "lookup"
  /\ Hits(Head(h.reads)) = {}
  /\ h' = IF Len(h.reads) > 1
          THEN [h EXCEPT !.reads = Tail(@)]
          ELSE [Bare(IF h.plan.absent = "empty" THEN "empty" ELSE "rejected")
                EXCEPT !.plan = h.plan, !.addrs = h.addrs, !.chain = h.chain]
  /\ UNCHANGED <<lists, relistings, steady>>

(* The API fails during a lookup: a 400 inside the try, a 500 outside. *)
LookupFails ==
  /\ h.pc = "lookup"
  /\ h' = Bare(IF h.plan.caught THEN "rejected" ELSE "failed")
  /\ UNCHANGED <<lists, relistings, steady>>

ChainsFit ==
  \/ h.plan.chains = "any"
  \/ (h.plan.chains = "one") <=> (h.found[1].chain = h.found[2].chain)

HasAllowance == h.plan.evm => h.found[1].chain \in EvmChains

(* The checks between the lookups and the call: the chains, the            *)
(* enumerations, the relayer fee, the amount and the kind of chain.  Only  *)
(* the relayer fee throws something else than an HttpException.            *)
Check ==
  /\ h.pc = "check"
  /\ h' = IF ~ChainsFit \/ (h.bad = "enum" /\ h.plan.enums = "late")
          THEN Bare("rejected")
          ELSE IF h.bad = "fee" THEN Bare("failed")
          ELSE IF h.bad = "amount" \/ ~HasAllowance THEN Bare("rejected")
          ELSE IF h.plan.quote THEN Bare("quote")
          ELSE IF h.calls = <<>> THEN Bare("ok")
          ELSE [Bare("call") EXCEPT !.calls = h.calls]
  /\ UNCHANGED <<lists, relistings, steady>>

(* A call of the SDK returns. *)
Call ==
  /\ h.pc = "call"
  /\ \/ h' = IF Len(h.calls) = 1 THEN Bare("ok")
             ELSE [h EXCEPT !.calls = Tail(@)]
     \/ h' = Bare(CASE Head(h.calls) = "reject" -> "rejected"
                       [] Head(h.calls) = "blank"  -> "blank"
                       [] OTHER                    -> "failed")
  /\ UNCHANGED <<lists, relistings, steady>>

(* The quote, step by step, and its end. *)
OpenQuote ==
  /\ h.pc = "quote"
  /\ qpc = "closed"
  /\ Open
  /\ UNCHANGED hvars

EndQuote ==
  /\ qpc \in {"done", "error"}
  /\ h' = Bare(IF qpc = "done" THEN "ok" ELSE "rejected")
  /\ qpc' = "closed"
  /\ amount' = 0
  /\ todo' = <<>>
  /\ offer' = [m \in MethodSet |-> None]
  /\ methods' = <<>>
  /\ payment' = NoPayment
  /\ payments' = {}
  /\ options' = <<>>
  /\ UNCHANGED <<lists, relistings, steady>>

Handle ==
  \/ Relist \/ Arrive \/ Found \/ NotFound \/ LookupFails \/ Check
  \/ Call

Next ==
  \/ /\ serving = "tokens"
     /\ Handle
     /\ UNCHANGED <<serving, qvars, cvars>>
  \/ /\ serving = "tokens"
     /\ OpenQuote \/ (QuoteStep /\ UNCHANGED hvars) \/ EndQuote
     /\ UNCHANGED <<serving, cvars>>
  \/ /\ serving = "chains"
     /\ DetailsNext
     /\ UNCHANGED <<serving, hvars, qvars>>

Spec == Init /\ [][Next]_vars

-----------------------------------------------------------------------------

(* A lookup that finds nothing has not missed a token: none with that      *)
(* address was on one of the lists it searches from its first request to   *)
(* its last.  The lookups over several lists make one request per list,    *)
(* and the lists change between them.                                      *)
StagesOf(p) ==
  IF p.lookups[1] = Any THEN {"swap", "pool", "cyd", "inner"}
                        ELSE {p.lookups[1][1][1]}

Missed == h.pc \in {"empty", "rejected"} /\ h.addrs # <<>>

TokenNotMissed ==
  Missed => \A stage \in StagesOf(h.plan) : Matches(stage, steady) = {}
=============================================================================
