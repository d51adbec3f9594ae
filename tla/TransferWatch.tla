---------------------------- MODULE TransferWatch ----------------------------
(***************************************************************************)
(* `transfers status --watch`, and `bridge send --progress` which ends in  *)
(* it: polling the status of a transfer until it is delivered or a         *)
(* deadline passes (cli/internal/cli/transfers.go).  A status is what the  *)
(* API would answer: "unknown" is NEXT's 404 and an error of Core's,       *)
(* "OTHER" a value the CLI does not know.  Of Core's answer only whether   *)
(* it has a "receive" counts: SUCCESS if it has, PROCESSING if not.        *)
(***************************************************************************)
EXTENDS Naturals

CONSTANT MaxErrors  \* bound on the requests that fail for another reason

(* Assumed of the constants by the modules that run this one. *)
WatchConstant == MaxErrors \in Nat

VARIABLES
  api, watch,  \* what the command was called with
  status,      \* the status of the transfer at the API
  pc,
  answer,      \* the last answer
  late,        \* the deadline has passed
  errors,
  verdict      \* how the command ended

vars == <<api, watch, status, pc, answer, late, errors, verdict>>

Statuses(a) ==
  IF a = "next"
  THEN {"unknown", "PROCESSING", "SUCCESS", "FAILED", "REFUNDED", "OTHER"}
  ELSE {"unknown", "PROCESSING", "SUCCESS"}

Final == {"SUCCESS", "FAILED", "REFUNDED"}

Answers == Statuses("next") \cup {"error"}

TypeOK ==
  /\ api \in {"core", "next"}
  /\ watch \in BOOLEAN
  /\ status \in Statuses(api)
  /\ pc \in {"poll", "first", "again", "wait", "ended"}
  /\ answer \in Answers
  /\ late \in BOOLEAN
  /\ errors \in 0..MaxErrors
  /\ verdict \in {"open", "ok", "timeout", "net", "cancelled"}

Init ==
  /\ api \in {"core", "next"}
  /\ watch \in BOOLEAN
  /\ status \in Statuses(api)
  /\ pc = "poll"
  /\ answer = "unknown"
  /\ late = FALSE
  /\ errors = 0
  /\ verdict = "open"

-----------------------------------------------------------------------------

(* The transfer advances: indexed, then settled. *)
Advance ==
  /\ status \in {"unknown", "PROCESSING", "OTHER"}
  /\ status' \in Statuses(api) \ {"unknown"}
  /\ UNCHANGED <<api, watch, pc, answer, late, errors, verdict>>

(* The deadline, set when the loop is entered, passes. *)
Deadline ==
  /\ pc \in {"wait", "again"}
  /\ late' = TRUE
  /\ UNCHANGED <<api, watch, status, pc, answer, errors, verdict>>

(* fetchTransferStatus or fetchNextStatus. *)
Poll(from, to) ==
  /\ pc = from
  /\ pc' = to
  /\ \/ answer' = status /\ UNCHANGED errors
     \/ /\ errors < MaxErrors
        /\ errors' = errors + 1
        /\ answer' = "error"
  /\ UNCHANGED <<api, watch, status, late, verdict>>

(* An error that ends the command: on Core every one, on NEXT all but 404. *)
Failed == answer = "error" \/ (api = "core" /\ answer = "unknown")

(* transferDelivered; a NEXT status that is not in flight. *)
Done == answer \in Final

Fails(v) == pc' = "ended" /\ verdict' = v

(* The answer is printed. *)
Renders == pc' = "ended" /\ verdict' = "ok"

(* After the first request: without --watch whatever it says is printed.   *)
First ==
  /\ pc = "first"
  /\ \/ Failed /\ Fails("net")
     \/ ~Failed /\ watch /\ ~Done /\ pc' = "wait" /\ UNCHANGED verdict
     \/ ~Failed /\ watch /\ Done /\ Renders
     \/ ~Failed /\ ~watch /\ answer = "unknown" /\ Fails("net")
     \/ ~Failed /\ ~watch /\ answer # "unknown" /\ Renders
  /\ UNCHANGED <<api, watch, status, answer, late, errors>>

(* Seeded fault: a timeout breaks out of the loop to the rendering. *)
AgainBreaks ==
  /\ pc = "again"
  /\ \/ Failed /\ Fails("net")
     \/ ~Failed /\ (Done \/ late) /\ Renders
     \/ ~Failed /\ ~Done /\ ~late /\ pc' = "wait" /\ UNCHANGED verdict
  /\ UNCHANGED <<api, watch, status, answer, late, errors>>

(* Seeded fault: a 404 is retried whatever the time. *)
AgainRetries404 ==
  /\ pc = "again"
  /\ \/ Failed /\ Fails("net")
     \/ ~Failed /\ Done /\ Renders
     \/ ~Failed /\ ~Done /\ late /\ answer # "unknown" /\ Fails("timeout")
     \/ /\ ~Failed /\ ~Done /\ (~late \/ answer = "unknown")
        /\ pc' = "wait" /\ UNCHANGED verdict
  /\ UNCHANGED <<api, watch, status, answer, late, errors>>

(* After every other request: its error, then the delivery, then the       *)
(* deadline.                                                               *)
Again ==
  /\ pc = "again"
  /\ \/ Failed /\ Fails("net")
     \/ ~Failed /\ Done /\ Renders
     \/ ~Failed /\ ~Done /\ late /\ Fails("timeout")
     \/ ~Failed /\ ~Done /\ ~late /\ pc' = "wait" /\ UNCHANGED verdict
  /\ UNCHANGED <<api, watch, status, answer, late, errors>>

(* The user interrupts the command while it sleeps. *)
Interrupt ==
  /\ pc = "wait"
  /\ Fails("cancelled")
  /\ UNCHANGED <<api, watch, status, answer, late, errors>>

Command == Poll("poll", "first") \/ First \/ Poll("wait", "again") \/ Again

Next == Advance \/ Deadline \/ Interrupt \/ Command

Spec == Init /\ [][Next]_vars

(* The HTTP clients have a timeout, and time passes; the transfer need not *)
(* advance.                                                                *)
Fairness == WF_vars(Command) /\ WF_vars(Deadline)

FairSpec == Spec /\ Fairness

-----------------------------------------------------------------------------

(* A watch that returns without error has seen the end of the transfer.    *)
WatchSeesTheEnd == watch /\ verdict = "ok" => Done

(* Every watch ends, be the transfer never indexed or never delivered.     *)
WatchEnds == (pc = "poll") ~> (pc = "ended")
=============================================================================
