---------------------------- MODULE MCTuiScreens -----------------------------
(* The pickers, the execution screen and the tracking screen of the TUI,   *)
(* one of them at a time: the others rest in their initial state.          *)
EXTENDS TuiPicker

CONSTANTS Capacity, MaxEvents, MaxRuns, MaxQuotes, MaxTransfers, MaxTracks, MaxErrors

VARIABLES
  at,                                                             \* the screen
  api, quoted, quote, screen, mode, run, pipe, emitted, channel,  \* TuiExec
  waiting, mail, phases, result, overlapped,
  trackMode, transfer, delivery, ticks, polls, answers, status,   \* TuiTrack
  active, tracks, errors, ended

execScreen == <<api, quoted, quote, screen, mode, run, pipe, emitted, channel,
                waiting, mail, phases, result, overlapped>>

trackScreen == <<trackMode, transfer, delivery, ticks, polls, answers, status,
                 active, tracks, errors, ended>>

Exec == INSTANCE TuiExec

Tracking == INSTANCE TuiTrack WITH mode <- trackMode

ASSUME ScreenConstants == Exec!ExecConstants /\ Tracking!TrackConstants

ScreensInit ==
  /\ at \in {"pickers", "exec", "track"}
  /\ Init /\ (at # "pickers" => walletIdx = 0)
  /\ Exec!Init
  /\ Tracking!Init

PickerKeys == at = "pickers" /\ Next /\ UNCHANGED <<at, execScreen, trackScreen>>

ExecRuns == at = "exec" /\ Exec!Next /\ UNCHANGED <<at, vars, trackScreen>>

Tracks == at = "track" /\ Tracking!Next /\ UNCHANGED <<at, vars, execScreen>>

ScreensNext == PickerKeys \/ ExecRuns \/ Tracks

ScreensSpec ==
  /\ ScreensInit /\ [][ScreensNext]_<<at, vars, execScreen, trackScreen>>
  /\ Exec!Fairness /\ Tracking!Fairness

(* The properties of TuiExec and of TuiTrack, as those modules state them. *)
RunningIsTrue == Exec!RunningIsTrue

PhasesInOrder == Exec!PhasesInOrder

RunningEnds == Exec!RunningEnds

AllPhasesShown == Exec!AllPhasesShown

PollsUntilItsOwnEnd == Tracking!PollsUntilItsOwnEnd

FinalIsShown == Tracking!FinalIsShown

LeavingStopsPolling == Tracking!LeavingStopsPolling
=============================================================================
