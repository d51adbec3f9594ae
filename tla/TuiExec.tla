------------------------------- MODULE TuiExec -------------------------------
(***************************************************************************)
(* The execution screen of the TUI (cli/internal/cli/tui.go): [Execute]    *)
(* spawns the NEXT send pipeline in a goroutine, which emits its Progress  *)
(* events on a buffered channel.  A command of Bubble Tea receives one     *)
(* event and mails it to Update, which awaits the next one; another waits  *)
(* for the pipeline and mails its result.  Mail arrives in any order.  The *)
(* form is only whether it shows a quote (TuiForm); an event is its number *)
(* in its run (SendNext says which events a run emits).                    *)
(***************************************************************************)
EXTENDS Naturals, Sequences

CONSTANTS
  Capacity,   \* of the progress channel, 32 in the code
  MaxEvents,  \* bound on the events of a run
  MaxRuns,    \* bound on the pipelines started
  MaxQuotes   \* bound on the changes of the form's quote

(* Assumed of the constants by the modules that run this one. *)
ExecConstants ==
  /\ Capacity \in Nat \ {0}
  /\ MaxEvents \in Nat /\ MaxRuns \in Nat /\ MaxQuotes \in Nat

VARIABLES
  api, quoted,
  quote,      \* how often the form's quote has changed
  screen,     \* stateForm or stateExec
  mode,       \* execMode
  run,        \* pipelines started; execProgressCh is the channel of this one
  pipe,       \* the goroutine of each run
  emitted,    \* events each run has emitted
  channel,    \* each run's progress channel
  waiting,    \* commands blocked on each run's channel
  mail,       \* messages on their way to Update
  phases,     \* events applied since the exec screen was last cleared
  result,     \* the run whose result is in execResult, and how it ended
  overlapped  \* a run started while an earlier one's events were on their way

formVars == <<api, quoted, quote>>

execVars == <<screen, mode, phases, result>>

runVars == <<run, pipe, emitted, channel, waiting, mail>>

vars == <<formVars, execVars, runVars, overlapped>>

Runs == 1..MaxRuns

Events == [kind : {"progress"}, run : Runs, n : 1..MaxEvents]

Results == [kind : {"done"}, run : Runs, ok : BOOLEAN]

TypeOK ==
  /\ api \in {"core", "next"}
  /\ quoted \in BOOLEAN
  /\ quote \in 0..MaxQuotes
  /\ screen \in {"form", "exec"}
  /\ mode \in {"idle", "passphrase", "running", "done", "error"}
  /\ run \in 0..MaxRuns
  /\ pipe \in [Runs -> {"none", "running", "emitting", "returned"}]
  /\ emitted \in [Runs -> 0..MaxEvents]
  /\ channel \in [Runs -> Seq(1..MaxEvents)]
  /\ waiting \in [Runs -> Nat]
  /\ mail \subseteq Events \cup Results
  /\ phases \in Seq(Events)
  /\ result \in [run : 0..MaxRuns, ok : BOOLEAN]
  /\ overlapped \in BOOLEAN

Init ==
  /\ api = "core"
  /\ quoted = FALSE /\ quote = 0
  /\ screen = "form" /\ mode = "idle"
  /\ run = 0
  /\ pipe = [r \in Runs |-> "none"]
  /\ emitted = [r \in Runs |-> 0]
  /\ channel = [r \in Runs |-> <<>>]
  /\ waiting = [r \in Runs |-> 0]
  /\ mail = {}
  /\ phases = <<>>
  /\ result = [run |-> 0, ok |-> FALSE]
  /\ overlapped = FALSE

-----------------------------------------------------------------------------

(* The form gets a new quote, or loses the one it shows (TuiForm). *)
Requote ==
  /\ screen = "form" /\ mode = "idle"
  /\ quote < MaxQuotes
  /\ quote' = quote + 1
  /\ quoted' \in BOOLEAN
  /\ UNCHANGED <<api, execVars, runVars, overlapped>>

(* Ctrl+A, on whatever screen. *)
CtrlA ==
  /\ api' \in {"core", "next"} \ {api}
  /\ quoted' = FALSE
  /\ UNCHANGED <<quote, execVars, runVars, overlapped>>

(* Something of an earlier run has not reached Update. *)
Undelivered ==
  \/ mail # {}
  \/ \E r \in Runs : channel[r] # <<>> \/ waiting[r] > 0

(* startExec: refused on Core; otherwise a fresh channel, the pipeline and *)
(* one command that awaits its first event.                                *)
StartExec ==
  \/ /\ api # "next"
     /\ mode' = "idle"
     /\ UNCHANGED <<phases, result, runVars, overlapped>>
  \/ /\ api = "next"
     /\ run < MaxRuns
     /\ run' = run + 1
     /\ mode' = "running"
     /\ phases' = <<>>
     /\ pipe' = [pipe EXCEPT ![run'] = "running"]
     /\ waiting' = [waiting EXCEPT ![run'] = 1]
     /\ overlapped' = (overlapped \/ Undelivered)
     /\ UNCHANGED <<result, emitted, channel, mail>>

(* Enter on [Execute]: the passphrase of the environment, or the prompt.   *)
Activate ==
  /\ screen = "form" /\ quoted
  /\ screen' = "exec"
  /\ \/ StartExec
     \/ mode' = "passphrase" /\ UNCHANGED <<phases, result, runVars, overlapped>>
  /\ UNCHANGED formVars

(* Enter on a passphrase that is not empty, and Esc. *)
Passphrase ==
  /\ screen = "exec" /\ mode = "passphrase"
  /\ \/ StartExec /\ UNCHANGED screen
     \/ /\ screen' = "form" /\ mode' = "idle"
        /\ UNCHANGED <<phases, result, runVars, overlapped>>
  /\ UNCHANGED formVars

(* Seeded fault: Esc also answers while the pipeline runs. *)
LeaveAnytime ==
  /\ screen = "exec"
  /\ screen' = "form" /\ mode' = "idle"
  /\ UNCHANGED <<formVars, phases, result, runVars, overlapped>>

(* [N]ew transfer (resetExec) or Esc, once the run has returned. *)
Leave ==
  /\ screen = "exec" /\ mode \in {"done", "error"}
  /\ screen' = "form"
  /\ mode' = "idle"
  /\ \/ UNCHANGED <<phases, result, quoted>>
     \/ phases' = <<>> /\ result' = [run |-> 0, ok |-> FALSE] /\ quoted' = FALSE
  /\ UNCHANGED <<api, quote, runVars, overlapped>>

(* The pipeline emits an event: it can do nothing else, not even return,   *)
(* until the channel has room for it.                                      *)
Emit(r) ==
  /\ pipe[r] = "running"
  /\ emitted[r] < MaxEvents
  /\ pipe' = [pipe EXCEPT ![r] = "emitting"]
  /\ emitted' = [emitted EXCEPT ![r] = @ + 1]
  /\ UNCHANGED <<formVars, execVars, overlapped, run, channel, waiting, mail>>

Send(r) ==
  /\ pipe[r] = "emitting"
  /\ Len(channel[r]) < Capacity
  /\ pipe' = [pipe EXCEPT ![r] = "running"]
  /\ channel' = [channel EXCEPT ![r] = Append(@, emitted[r])]
  /\ UNCHANGED <<formVars, execVars, overlapped, run, emitted, waiting, mail>>

Working == {r \in Runs : pipe[r] \in {"running", "emitting"}}

(* The pipeline returns: the channel is closed, its result is mailed. *)
PipelineReturns(r) ==
  /\ pipe[r] = "running"
  /\ pipe' = [pipe EXCEPT ![r] = "returned"]
  /\ \E ok \in BOOLEAN : mail' = mail \cup {[kind |-> "done", run |-> r, ok |-> ok]}
  /\ UNCHANGED <<formVars, execVars, overlapped, run, emitted, channel, waiting>>

(* Seeded fault: a closed channel is not drained. *)
AwaitOpen(r) ==
  /\ waiting[r] > 0
  /\ waiting' = [waiting EXCEPT ![r] = @ - 1]
  /\ \/ /\ channel[r] # <<>> /\ r \in Working
        /\ mail' = mail \cup {[kind |-> "progress", run |-> r, n |-> Head(channel[r])]}
        /\ channel' = [channel EXCEPT ![r] = Tail(@)]
     \/ /\ pipe[r] = "returned"
        /\ UNCHANGED <<mail, channel>>
  /\ UNCHANGED <<formVars, execVars, overlapped, run, pipe, emitted>>

(* A command receives an event and mails it; on a closed and drained       *)
(* channel it mails nothing.                                               *)
Await(r) ==
  /\ waiting[r] > 0
  /\ waiting' = [waiting EXCEPT ![r] = @ - 1]
  /\ \/ /\ channel[r] # <<>>
        /\ mail' = mail \cup {[kind |-> "progress", run |-> r, n |-> Head(channel[r])]}
        /\ channel' = [channel EXCEPT ![r] = Tail(@)]
     \/ /\ channel[r] = <<>> /\ pipe[r] = "returned"
        /\ UNCHANGED <<mail, channel>>
  /\ UNCHANGED <<formVars, execVars, overlapped, run, pipe, emitted>>

(* Seeded fault: the next event is not awaited. *)
ApplyProgressOnce(m) ==
  /\ m \in mail /\ m.kind = "progress"
  /\ mail' = mail \ {m}
  /\ phases' = Append(phases, m)
  /\ UNCHANGED <<formVars, overlapped, screen, mode, result, run, pipe, emitted, channel, waiting>>

(* Seeded fault: two commands await the next event. *)
ApplyProgressTwice(m) ==
  /\ m \in mail /\ m.kind = "progress"
  /\ mail' = mail \ {m}
  /\ phases' = Append(phases, m)
  /\ waiting' = [waiting EXCEPT ![run] = @ + 2]
  /\ UNCHANGED <<formVars, overlapped, screen, mode, result, run, pipe, emitted, channel>>

(* Update applies an event and awaits the next one on the current channel. *)
ApplyProgress(m) ==
  /\ m \in mail /\ m.kind = "progress"
  /\ mail' = mail \ {m}
  /\ phases' = Append(phases, m)
  /\ waiting' = [waiting EXCEPT ![run] = @ + 1]
  /\ UNCHANGED <<formVars, overlapped, screen, mode, result, run, pipe, emitted, channel>>

ApplyDone(m) ==
  /\ m \in mail /\ m.kind = "done"
  /\ mail' = mail \ {m}
  /\ result' = [run |-> m.run, ok |-> m.ok]
  /\ mode' = IF m.ok THEN "done" ELSE "error"
  /\ UNCHANGED <<formVars, overlapped, screen, phases, run, pipe, emitted, channel, waiting>>

User == Requote \/ CtrlA \/ Activate \/ Passphrase \/ Leave

Pipeline == \E r \in Runs : Emit(r) \/ Send(r) \/ PipelineReturns(r)

Deliver ==
  \/ \E r \in Runs : Await(r)
  \/ \E m \in mail : ApplyProgress(m) \/ ApplyDone(m)

Next == User \/ Pipeline \/ Deliver

Spec == Init /\ [][Next]_vars

(* Goroutines are scheduled, and the calls of the pipeline return (SendNext). *)
Fairness == WF_vars(Pipeline) /\ WF_vars(Deliver)

FairSpec == Spec /\ Fairness

-----------------------------------------------------------------------------

(* The screen says "running" exactly while a pipeline works or its result  *)
(* is on its way, and there is one at most: no key starts a second one.    *)
RunningIsTrue ==
  /\ \A q, r \in Working : q = r
  /\ mode = "running" <=>
       \/ Working # {}
       \/ \E m \in mail : m.kind = "done"

(* The events on the screen are those of the run, in the order it emitted  *)
(* them, although Bubble Tea orders no two messages; the only exception is *)
(* a run started while an earlier one still had events on their way.       *)
PhasesInOrder ==
  mode \in {"running", "done", "error"} /\ ~overlapped =>
    \A i \in DOMAIN phases : phases[i] = [kind |-> "progress", run |-> run, n |-> i]

(* The pipeline never stays blocked on its channel, so a run ends. *)
RunningEnds == mode = "running" ~> mode # "running"

(* All the events of a run reach the screen, even those its result         *)
(* overtakes.                                                              *)
AllPhasesShown ==
  (mode = "done" /\ ~overlapped) ~>
    (mode # "done" \/ Len(phases) = emitted[run])
=============================================================================
