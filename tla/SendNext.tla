------------------------------ MODULE SendNext ------------------------------
(***************************************************************************)
(* `bridge send --api next` and the TUI's Send: executeNextBridgeSend and  *)
(* the per-family signing it fans out to (cli/internal/cli/                *)
(* bridge_send_next.go, bridge_send_next_evm.go, bridge_send_next_trx.go), *)
(* run by run against the sender's account.  Every call to the NEXT API,   *)
(* to the keystore and to the node may fail.                               *)
(***************************************************************************)
EXTENDS SourceChain, Sequences

VARIABLES
  pc,            \* the call the run is about to make
  run,           \* runs so far
  opts,          \* --dry-run and --approve of the run
  mayApprove,    \* --approve, and the route's relayer fee has a spender
  unsignedNonce, \* nonce of the transaction being built
  log,           \* Progress events of the run
  verdict,       \* how the run returned: "open" until it does
  reported,      \* hashes in the result or in the events of the run
  nonceRefused,  \* a node refused a nonce the program chose
  careful        \* only runs that failed before their broadcast were repeated

runVars == <<pc, run, opts, mayApprove, unsignedNonce, log, verdict, reported,
             nonceRefused, careful>>

vars == <<chainVars, runVars>>

Phases == {"quote", "build", "allowance", "approve", "approve-wait", "sign", "broadcast"}

Events == [phase : Phases, status : {"running", "done", "skipped", "failed"}]

Pcs == {"idle", "quote", "create", "open", "allowance", "approve", "approveCast",
        "wait", "build", "sign", "bridgeCast", "ended"}

TypeOK ==
  /\ ChainTypeOK
  /\ pc \in Pcs
  /\ run \in 0..MaxRuns
  /\ opts \in [dry : BOOLEAN, approve : BOOLEAN]
  /\ mayApprove \in BOOLEAN
  /\ unsignedNonce \in Nat
  /\ log \in Seq(Events)
  /\ verdict \in {"open", "ok", "failed"}
  /\ reported \subseteq {"approve", "bridge"}
  /\ nonceRefused \in BOOLEAN
  /\ careful \in BOOLEAN

Init ==
  /\ ChainInit
  /\ pc = "idle"
  /\ run = 0
  /\ opts = [dry |-> FALSE, approve |-> FALSE]
  /\ mayApprove = FALSE
  /\ unsignedNonce = 0
  /\ log = <<>>
  /\ verdict = "open"
  /\ reported = {}
  /\ nonceRefused = FALSE
  /\ careful = TRUE

-----------------------------------------------------------------------------

Event(phase, status) == [phase |-> phase, status |-> status]

Emit(events) == log' = log \o events

(* The run goes on, emitting events, or returns, emitting events. *)
Goto(step, events) == pc' = step /\ Emit(events) /\ UNCHANGED verdict

Return(v, events) == pc' = "ended" /\ Emit(events) /\ verdict' = v

(* Seeded fault: a failure emits no event. *)
FailsSilently(events) == Return("failed", <<>>)

Fails(events) == Return("failed", events)

BroadcastFailed == log # <<>> /\ log[Len(log)] = Event("broadcast", "failed")

(* A run begins: its flags, the wallet of the keystore and the sender are  *)
(* checked before the first event.                                         *)
Start(o) ==
  /\ pc \in {"idle", "ended"}
  /\ run < MaxRuns
  /\ run' = run + 1
  /\ opts' = o
  /\ mayApprove' = FALSE
  /\ reported' = {}
  /\ \/ /\ pc' = "quote"
        /\ log' = <<Event("quote", "running")>>
        /\ verdict' = "open"
     \/ /\ pc' = "ended"
        /\ log' = <<>>
        /\ verdict' = "failed"
  /\ careful' = (careful /\ (pc = "idle" \/ opts.dry \/ (verdict = "failed" /\ ~BroadcastFailed)))
  /\ UNCHANGED <<chainVars, unsignedNonce, nonceRefused>>

(* Tokens, Quote, pickNextRoute and pickRelayerFee.  An unknown token ends *)
(* the phase; a bad amount, a failed quote and a missing route do not.     *)
Quote ==
  /\ pc = "quote"
  /\ \/ /\ mayApprove' \in {FALSE, opts.approve}
        /\ Goto("create", <<Event("quote", "done"), Event("build", "running")>>)
     \/ /\ \E events \in {<<>>, <<Event("quote", "failed")>>} : Fails(events)
        /\ UNCHANGED mayApprove
  /\ UNCHANGED <<chainVars, run, opts, unsignedNonce, reported, nonceRefused, careful>>

(* POST /tx/create; a dry run returns what it was given. *)
Create ==
  /\ pc = "create"
  /\ \/ Fails(<<Event("build", "failed")>>)
     \/ opts.dry /\ Return("ok", <<Event("build", "done")>>)
     \/ ~opts.dry /\ Goto("open", <<Event("build", "done")>>)
  /\ UNCHANGED <<chainVars, run, opts, mayApprove, unsignedNonce, reported, nonceRefused, careful>>

(* nextSignAndBroadcast and the head of each family: chain, RPC URL,       *)
(* passphrase, decryption; none of their errors emits an event.            *)
Open ==
  /\ pc = "open"
  /\ \/ Fails(<<>>)
     \/ family = "SOL" /\ Goto("sign", <<Event("sign", "running")>>)
     \/ family = "EVM" /\ mayApprove /\ Goto("allowance", <<Event("allowance", "running")>>)
     \/ family = "TRX" /\ mayApprove /\ Goto("approve", <<Event("approve", "running")>>)
     \/ /\ family # "SOL" /\ ~mayApprove
        /\ Goto("build", <<Event("approve", "skipped"), Event("build", "running")>>)
  /\ UNCHANGED <<chainVars, run, opts, mayApprove, unsignedNonce, reported, nonceRefused, careful>>

(* evmAllowance reads 0 when the call fails. *)
CheckAllowance ==
  /\ pc = "allowance"
  /\ \E current \in {0, allowance} :
       IF current >= 1
       THEN Goto("build", <<Event("allowance", "done"), Event("approve", "skipped"),
                            Event("build", "running")>>)
       ELSE Goto("approve", <<Event("allowance", "done"), Event("approve", "running")>>)
  /\ UNCHANGED <<chainVars, run, opts, mayApprove, unsignedNonce, reported, nonceRefused, careful>>

(* The approve transaction is built with the pending nonce, and signed.    *)
BuildApprove ==
  /\ pc = "approve"
  /\ \/ Fails(<<Event("approve", "failed")>>) /\ UNCHANGED unsignedNonce
     \/ unsignedNonce' = PendingNonce /\ Goto("approveCast", <<>>)
  /\ UNCHANGED <<chainVars, run, opts, mayApprove, reported, nonceRefused, careful>>

(* The approve transaction is broadcast.  The EVM path then waits for its  *)
(* receipt, the Tron path does not.                                        *)
CastApprove ==
  /\ pc = "approveCast"
  /\ \E answer \in Answers :
       /\ Submit(Tx("approve", run, unsignedNonce, 1), answer)
       /\ nonceRefused' = (nonceRefused \/ answer = "nonce")
       /\ IF answer # "ok"
          THEN Fails(<<Event("approve", "failed")>>) /\ UNCHANGED reported
          ELSE /\ reported' = reported \cup {"approve"}
               /\ \/ /\ family = "EVM"
                     /\ Goto("wait", <<Event("approve", "done"), Event("approve-wait", "running")>>)
                  \/ /\ family # "EVM"
                     /\ Goto("build", <<Event("approve", "done"), Event("build", "running")>>)
  /\ UNCHANGED <<run, opts, mayApprove, unsignedNonce, careful>>

(* Seeded fault: the deadline is taken for a receipt. *)
WaitApproveAnyhow ==
  /\ pc = "wait"
  /\ Goto("build", <<Event("approve-wait", "done"), Event("build", "running")>>)
  /\ UNCHANGED <<chainVars, run, opts, mayApprove, unsignedNonce, reported, nonceRefused, careful>>

(* Seeded fault: the wait has no deadline. *)
WaitApproveForever ==
  /\ pc = "wait"
  /\ MinedAs("approve", run, "ok")
  /\ Goto("build", <<Event("approve-wait", "done"), Event("build", "running")>>)
  /\ UNCHANGED <<chainVars, run, opts, mayApprove, unsignedNonce, reported, nonceRefused, careful>>

(* WaitForReceipt: a receipt with status 1, a revert, or the deadline,     *)
(* which also ends a wait whose polls get no answer.                       *)
WaitApprove ==
  /\ pc = "wait"
  /\ \/ /\ MinedAs("approve", run, "ok")
        /\ Goto("build", <<Event("approve-wait", "done"), Event("build", "running")>>)
     \/ Fails(<<Event("approve-wait", "failed")>>)
  /\ UNCHANGED <<chainVars, run, opts, mayApprove, unsignedNonce, reported, nonceRefused, careful>>

(* Seeded fault: the nonce of the approval is used again. *)
BuildBridgeSameNonce ==
  /\ pc = "build"
  /\ \/ Fails(<<Event("build", "failed")>>)
     \/ /\ family = "EVM" => allowance >= 1
        /\ Goto("sign", <<Event("build", "done"), Event("sign", "running")>>)
  /\ UNCHANGED <<chainVars, run, opts, mayApprove, unsignedNonce, reported, nonceRefused, careful>>

(* The bridge transaction is built afresh.  On an EVM chain eth_estimateGas *)
(* executes it, so it needs the allowance; TronGrid only wraps the call.   *)
BuildBridge ==
  /\ pc = "build"
  /\ \/ Fails(<<Event("build", "failed")>>) /\ UNCHANGED unsignedNonce
     \/ /\ family = "EVM" => allowance >= 1
        /\ unsignedNonce' = PendingNonce
        /\ Goto("sign", <<Event("build", "done"), Event("sign", "running")>>)
  /\ UNCHANGED <<chainVars, run, opts, mayApprove, reported, nonceRefused, careful>>

(* Seeded fault: the signature is not reported as done. *)
SignQuietly ==
  /\ pc = "sign"
  /\ Goto("bridgeCast", <<Event("broadcast", "running")>>)
  /\ UNCHANGED <<chainVars, run, opts, mayApprove, unsignedNonce, reported, nonceRefused, careful>>

Sign ==
  /\ pc = "sign"
  /\ \/ Fails(<<Event("sign", "failed")>>)
     \/ Goto("bridgeCast", <<Event("sign", "done"), Event("broadcast", "running")>>)
  /\ UNCHANGED <<chainVars, run, opts, mayApprove, unsignedNonce, reported, nonceRefused, careful>>

(* The bridge transaction is broadcast and the run returns. *)
CastBridge ==
  /\ pc = "bridgeCast"
  /\ \E answer \in Answers :
       /\ Submit(Tx("bridge", run, unsignedNonce, 0), answer)
       /\ nonceRefused' = (nonceRefused \/ answer = "nonce")
       /\ IF answer = "ok"
          THEN /\ Return("ok", <<Event("broadcast", "done")>>)
               /\ reported' = reported \cup {"bridge"}
          ELSE /\ Fails(<<Event("broadcast", "failed")>>)
               /\ UNCHANGED reported
  /\ UNCHANGED <<run, opts, mayApprove, unsignedNonce, careful>>

(* The calls of a run, and the world it runs in. *)
RunStep ==
  \/ Quote \/ Create \/ Open \/ CheckAllowance \/ BuildApprove \/ CastApprove
  \/ WaitApprove \/ BuildBridge \/ Sign \/ CastBridge

World == ChainStep /\ UNCHANGED runVars

Next ==
  \/ \E o \in [dry : BOOLEAN, approve : BOOLEAN] : Start(o)
  \/ RunStep
  \/ World

Spec == Init /\ [][Next]_vars

(* A call returns: the HTTP clients have a timeout, the wait a deadline.   *)
Fairness == WF_vars(RunStep)

FairSpec == Spec /\ Fairness

-----------------------------------------------------------------------------

(* The bridge transaction of a run that approved is sent only once that    *)
(* approval is mined with success, or its allowance would not be there.    *)
ApprovalMinedFirst ==
  family = "EVM" => \A r \in 1..MaxRuns :
    Sent("approve", r) # {} /\ Sent("bridge", r) # {} => MinedAs("approve", r, "ok")

(* A failure that is not a failed broadcast means that the run has sent no *)
(* transfer, so that repeating it cannot send it twice.                    *)
FailedBeforeBroadcastSentNothing ==
  pc = "ended" /\ verdict = "failed" /\ ~BroadcastFailed => Sent("bridge", run) = {}

(* Repeating runs that failed before their broadcast sends one transfer.   *)
AtMostOneBridge ==
  careful => Cardinality({t \in OnChain : t.kind = "bridge"}) <= 1

(* The nonce is read after the approval is mined and right before it is    *)
(* used: a node refuses it only if another program has used it.            *)
NonceRefusalNeedsRival == nonceRefused => rivals > 0

(* The status a reader of the events would show for a phase. *)
Shown(phase) ==
  LET at == {i \in 1..Len(log) : log[i].phase = phase}
  IN  IF at = {} THEN "pending"
      ELSE log[CHOOSE i \in at : \A j \in at : j <= i].status

(* The events tell one story: one phase runs at a time, none after a       *)
(* failure, and none is left running by a run that returns without error.  *)
EventsTellTheRun ==
  /\ Cardinality({p \in Phases : Shown(p) = "running"}) <= 1
  /\ \A i \in 1..Len(log) : log[i].status = "failed" => i = Len(log) /\ verdict = "failed"
  /\ verdict = "ok" => \A p \in Phases : Shown(p) # "running"

(* Every run returns, mined or not mined. *)
RunsReturn == (pc \notin {"idle", "ended"}) ~> (pc = "ended")

(* A run implements the promise of `bridge send`. *)
Approval ==
  IF Sent("approve", run) = {} THEN "none"
  ELSE IF MinedAs("approve", run, "ok") THEN "settled"
  ELSE IF MinedAs("approve", run, "reverted") THEN "reverted" ELSE "sent"

Promise == INSTANCE Transfer WITH
  waits <- family # "TRX",
  dry <- opts.dry,
  approval <- Approval,
  bridge <- IF Sent("bridge", run) = {} THEN "none" ELSE "sent",
  verdict <- verdict

KeepsPromise == Promise!Spec
=============================================================================
