------------------------------- MODULE TuiTrack ------------------------------
(***************************************************************************)
(* Tracking a delivery in the TUI (cli/internal/cli/tui.go): on the result *)
(* of a run, T polls NEXT for the status of the transfer.  A tick of five  *)
(* seconds asks for the status, its answer schedules a tick.  Ticks and    *)
(* answers carry no transfer and cannot be called back.  A status is in    *)
(* flight or final (SUCCESS, FAILED, REFUNDED); "none" is a nil status: a  *)
(* transfer NEXT does not know yet, or an error.                           *)
(***************************************************************************)
EXTENDS Naturals

CONSTANTS
  MaxTransfers,  \* bound on the transfers
  MaxTracks,     \* bound on the presses of T
  MaxErrors      \* bound on the polls that get an error

(* Assumed of the constants by the modules that run this one. *)
TrackConstants == MaxTransfers \in Nat \ {0} /\ MaxTracks \in Nat /\ MaxErrors \in Nat

VARIABLES
  mode,      \* execDone, execTracking, or anything else
  transfer,  \* the transfer in execResult
  delivery,  \* what NEXT knows of each transfer
  ticks,     \* ticks scheduled
  polls,     \* requests in flight, per transfer
  answers,   \* answers on their way, per transfer and status
  status,    \* trackStatus, and the transfer it is of
  active,    \* trackTickActive
  tracks, errors,
  ended      \* the final status of the transfer tracked has come in since T

vars == <<mode, transfer, delivery, ticks, polls, answers, status, active, tracks, errors, ended>>

Transfers == 1..MaxTransfers

Statuses == {"none", "inflight", "final"}

TypeOK ==
  /\ mode \in {"done", "tracking", "form"}
  /\ transfer \in Transfers
  /\ delivery \in [Transfers -> Statuses]
  /\ ticks \in Nat
  /\ polls \in [Transfers -> Nat]
  /\ answers \in [Transfers -> [Statuses -> Nat]]
  /\ status \in [of : Transfers, is : Statuses]
  /\ active \in BOOLEAN
  /\ tracks \in 0..MaxTracks /\ errors \in 0..MaxErrors
  /\ ended \in BOOLEAN

Init ==
  /\ mode = "done"
  /\ transfer = 1
  /\ delivery = [t \in Transfers |-> "none"]
  /\ ticks = 0
  /\ polls = [t \in Transfers |-> 0]
  /\ answers = [t \in Transfers |-> [s \in Statuses |-> 0]]
  /\ status = [of |-> 1, is |-> "none"]
  /\ active = FALSE
  /\ tracks = 0 /\ errors = 0
  /\ ended = FALSE

-----------------------------------------------------------------------------

Plus(f, x) == [f EXCEPT ![x] = @ + 1]

Minus(f, x) == [f EXCEPT ![x] = @ - 1]

(* T: an immediate request, and a tick. *)
Track ==
  /\ mode = "done"
  /\ tracks < MaxTracks
  /\ tracks' = tracks + 1
  /\ mode' = "tracking"
  /\ status' = [of |-> transfer, is |-> "none"]
  /\ active' = TRUE
  /\ polls' = Plus(polls, transfer)
  /\ ticks' = ticks + 1
  /\ ended' = FALSE
  /\ UNCHANGED <<transfer, delivery, answers, errors>>

(* Esc while tracking goes back to the result. *)
StopTracking ==
  /\ mode = "tracking"
  /\ mode' = "done"
  /\ active' = FALSE
  /\ UNCHANGED <<transfer, delivery, ticks, polls, answers, status, tracks, errors, ended>>

(* N (resetExec), or Esc on the result. *)
LeaveResult ==
  /\ mode \in {"done", "tracking"}
  /\ mode' = "form"
  /\ \/ active' = FALSE /\ status' = [status EXCEPT !.is = "none"]
     \/ mode = "done" /\ UNCHANGED <<active, status>>
  /\ UNCHANGED <<transfer, delivery, ticks, polls, answers, tracks, errors, ended>>

(* Another run has sent a transfer (TuiExec). *)
SendNext ==
  /\ mode = "form"
  /\ transfer + 1 \in Transfers
  /\ transfer' = transfer + 1
  /\ mode' = "done"
  /\ UNCHANGED <<delivery, ticks, polls, answers, status, active, tracks, errors, ended>>

(* Seeded fault: a periodic ticker. *)
TrackTicker ==
  /\ ticks > 0
  /\ polls' = IF mode = "tracking" THEN Plus(polls, transfer) ELSE polls
  /\ UNCHANGED <<mode, transfer, delivery, ticks, answers, status, active, tracks, errors, ended>>

(* Seeded fault: a tick of a tracking that has seen a final status dies.   *)
TrackTickWhileActive ==
  /\ ticks > 0
  /\ ticks' = ticks - 1
  /\ polls' = IF mode = "tracking" /\ active THEN Plus(polls, transfer) ELSE polls
  /\ UNCHANGED <<mode, transfer, delivery, answers, status, active, tracks, errors, ended>>

(* A tick asks for the status while the screen tracks, or dies. *)
TrackTick ==
  /\ ticks > 0
  /\ ticks' = ticks - 1
  /\ polls' = IF mode = "tracking" THEN Plus(polls, transfer) ELSE polls
  /\ UNCHANGED <<mode, transfer, delivery, answers, status, active, tracks, errors, ended>>

(* NEXT answers a request, or it fails. *)
AnswerPoll(t) ==
  /\ polls[t] > 0
  /\ polls' = Minus(polls, t)
  /\ \/ answers' = [answers EXCEPT ![t][delivery[t]] = @ + 1] /\ UNCHANGED errors
     \/ /\ errors < MaxErrors
        /\ errors' = errors + 1
        /\ answers' = [answers EXCEPT ![t]["none"] = @ + 1]
  /\ UNCHANGED <<mode, transfer, delivery, ticks, status, active, tracks, ended>>

(* Seeded fault: a nil status ends the polling. *)
TrackStatusNil(t, s) ==
  /\ answers[t][s] > 0
  /\ answers' = [answers EXCEPT ![t][s] = @ - 1]
  /\ status' = [of |-> t, is |-> s]
  /\ ended' = (ended \/ (mode = "tracking" /\ t = transfer /\ s = "final"))
  /\ active' = (active /\ ~(mode = "tracking" /\ s = "final"))
  /\ ticks' = IF mode = "tracking" /\ s = "inflight" THEN ticks + 1 ELSE ticks
  /\ UNCHANGED <<mode, transfer, delivery, polls, tracks, errors>>

(* Update keeps the status, whatever the screen, and polls on unless it is *)
(* final.                                                                  *)
TrackStatus(t, s) ==
  /\ answers[t][s] > 0
  /\ answers' = [answers EXCEPT ![t][s] = @ - 1]
  /\ status' = [of |-> t, is |-> s]
  /\ ended' = (ended \/ (mode = "tracking" /\ t = transfer /\ s = "final"))
  /\ active' = (active /\ ~(mode = "tracking" /\ s = "final"))
  /\ ticks' = IF mode = "tracking" /\ s # "final" THEN ticks + 1 ELSE ticks
  /\ UNCHANGED <<mode, transfer, delivery, polls, tracks, errors>>

(* NEXT indexes and completes the transfers. *)
Deliver(t) ==
  /\ t <= transfer
  /\ delivery' = [delivery EXCEPT ![t] = IF @ = "none" THEN "inflight" ELSE "final"]
  /\ UNCHANGED <<mode, transfer, ticks, polls, answers, status, active, tracks, errors, ended>>

User == Track \/ StopTracking \/ LeaveResult \/ SendNext

Polling ==
  \/ TrackTick
  \/ \E t \in Transfers : AnswerPoll(t) \/ \E s \in Statuses : TrackStatus(t, s)

Next == User \/ Polling \/ \E t \in Transfers : Deliver(t)

Spec == Init /\ [][Next]_vars

(* Timers fire, requests end (the client has a timeout) and answers are    *)
(* delivered.                                                              *)
Fairness ==
  /\ WF_vars(TrackTick)
  /\ \A t \in Transfers : WF_vars(AnswerPoll(t))
  /\ \A t \in Transfers, s \in Statuses : WF_vars(TrackStatus(t, s))

FairSpec == Spec /\ Fairness

-----------------------------------------------------------------------------

Quiet ==
  /\ ticks = 0
  /\ \A t \in Transfers : polls[t] = 0 /\ \A s \in Statuses : answers[t][s] = 0

(* Answers carry no transfer, and one of an earlier transfer may come to a *)
(* screen that tracks a later one.  Whatever it says, even that its own    *)
(* transfer is over, it does not end the polling of the one tracked: until *)
(* the final status of that one comes in, a tick, a request or an answer   *)
(* of it is under way.                                                     *)
PollsUntilItsOwnEnd ==
  mode = "tracking" =>
    ended \/ ticks > 0 \/ polls[transfer] > 0 \/ \E s \in Statuses : answers[transfer][s] > 0

(* The final status of a transfer that completes comes to be shown to a    *)
(* user who stays, and not only that of an earlier one, which may replace  *)
(* it later.                                                               *)
FinalIsShown ==
  \A t \in Transfers :
    (mode = "tracking" /\ transfer = t /\ delivery[t] = "final")
      ~> (ended \/ mode # "tracking")

(* Off the screen, the polling dies out. *)
LeavingStopsPolling == (mode # "tracking") ~> (Quiet \/ mode = "tracking")
=============================================================================
