------------------------------ MODULE Transfer ------------------------------
(***************************************************************************)
(* What `bridge send` promises, whichever API it drives: a run sends the   *)
(* transfer at most once, never while an approval it waits for is open,    *)
(* reports success only of a transfer it has sent, and a dry run sends     *)
(* nothing.                                                                *)
(***************************************************************************)
VARIABLES
  waits,     \* whether runs wait for their approval to settle
  dry,       \* the run only builds the transaction
  approval,  \* the approval of the run: "none", "sent", "settled", "reverted"
  bridge,    \* the bridge transaction of the run: "none", "sent"
  verdict    \* what the run has told the user: "open", "ok", "failed"

vars == <<waits, dry, approval, bridge, verdict>>

Init ==
  /\ waits \in BOOLEAN
  /\ dry \in BOOLEAN
  /\ approval = "none"
  /\ bridge = "none"
  /\ verdict = "open"

Open == verdict = "open" /\ ~dry

(* The node has the approval; the run may not have learnt it. *)
Approve ==
  /\ Open
  /\ approval = "none" /\ bridge = "none"
  /\ approval' = "sent"
  /\ verdict' \in {"open", "failed"}
  /\ UNCHANGED <<waits, dry, bridge>>

(* The chain settles the approval, whether or not the run still waits. *)
Settle ==
  /\ approval = "sent"
  /\ approval' \in {"settled", "reverted"}
  /\ UNCHANGED <<waits, dry, bridge, verdict>>

(* The node has the transfer; a run that has not learnt it fails. *)
Bridge ==
  /\ Open
  /\ waits => approval \in {"none", "settled"}
  /\ bridge = "none"
  /\ bridge' = "sent"
  /\ verdict' \in {"ok", "failed"}
  /\ UNCHANGED <<waits, dry, approval>>

Fail ==
  /\ verdict = "open"
  /\ verdict' = "failed"
  /\ UNCHANGED <<waits, dry, approval, bridge>>

DryDone ==
  /\ verdict = "open" /\ dry
  /\ verdict' = "ok"
  /\ UNCHANGED <<waits, dry, approval, bridge>>

(* The user starts another run. *)
Begin ==
  /\ verdict = "open" => approval = "none" /\ bridge = "none"
  /\ dry' \in BOOLEAN
  /\ approval' = "none"
  /\ bridge' = "none"
  /\ verdict' \in {"open", "failed"}
  /\ UNCHANGED waits

Next == Approve \/ Settle \/ Bridge \/ Fail \/ DryDone \/ Begin

Spec == Init /\ [][Next]_vars
=============================================================================
