-------------------------- MODULE TuiScreensProofs ---------------------------
(***************************************************************************)
(* What the screens of the TUI promise: the viewport of the pickers, for   *)
(* every number of rows, of tokens and of wallets; the execution screen,   *)
(* for every capacity of the channel and any number of events and runs;    *)
(* the tracking screen, for any number of transfers, errors and presses.   *)
(***************************************************************************)
EXTENDS MCTuiScreens, Sequences, TLAPS

(* The pickers *)

(* Both claims constrain an open picker only, and each is inductive once   *)
(* the types are known.                                                    *)
PickerInv == TypeOK /\ CursorInViewport /\ WalletUnderCursor

(* Wherever the cursor goes, Scroll puts the viewport round it, and starts *)
(* it on a row of the list if the cursor is on one.                        *)
LEMMA ViewportAround ==
  ASSUME NEW o \in Int, NEW c \in Int, NEW p,
         p = IF c < o THEN c ELSE IF c >= o + Rows THEN c - Rows + 1 ELSE o
  PROVE  p \in Int /\ p <= c /\ c < p + Rows /\ (0 <= o /\ 0 <= c => 0 <= p)
BY PickerConstants

LEMMA ScrollFollows ==
  ASSUME offset \in Int, cursor' \in Int, Scroll
  PROVE  /\ offset' \in Int
         /\ offset' <= cursor' /\ cursor' < offset' + Rows
         /\ 0 <= offset /\ 0 <= cursor' => 0 <= offset'
BY ViewportAround DEF Scroll

LEMMA PickerInit == Init => PickerInv
BY PickerConstants DEF Init, PickerInv, TypeOK, CursorInViewport, WalletUnderCursor

LEMMA PickerStep == PickerInv /\ [Next]_vars => PickerInv'
<1> SUFFICES ASSUME PickerInv, [Next]_vars
             PROVE  PickerInv'
  OBVIOUS
<1> USE PickerConstants DEF PickerInv, TypeOK, CursorInViewport, WalletUnderCursor
<1>1. CASE OpenTokens
  BY <1>1 DEF OpenTokens
<1>2. CASE OpenWallets
  BY <1>2 DEF OpenWallets
<1>3. CASE Move
  <2>1. cursor' \in Int /\ picker # "none" /\ UNCHANGED <<picker, items, walletIdx>> /\ Scroll
    BY <1>3 DEF Move, Listed
  <2>2. picker = "wallets" => 0 <= cursor' /\ (Wallets > 0 => cursor' < Wallets)
    BY <1>3 DEF Move, Listed
  <2> QED
    BY <2>1, <2>2, ScrollFollows
<1>4. CASE Page
  <2>1. cursor' \in Int /\ picker' = "tokens" /\ UNCHANGED <<items, walletIdx>> /\ Scroll
    BY <1>4 DEF Page
  <2> QED
    BY <2>1, ScrollFollows
<1>5. CASE Search
  <2>1. cursor' \in Int /\ picker' = "tokens" /\ items' \in 0..MaxItems /\ UNCHANGED walletIdx /\ Scroll
    BY <1>5 DEF Search
  <2> QED
    BY <2>1, ScrollFollows
<1>6. CASE SwitchChain
  BY <1>6 DEF SwitchChain
<1>7. CASE ListChanges
  BY <1>7 DEF ListChanges
<1>8. CASE CtrlW
  <2>1. walletIdx' \in Nat
    BY <1>8 DEF CtrlW
  <2> QED
    BY <1>8, <2>1 DEF CtrlW
<1>9. CASE Pick
  <2>1. walletIdx' \in Nat
    BY <1>9 DEF Pick
  <2> QED
    BY <1>9, <2>1 DEF Pick
<1>10. CASE Close
  BY <1>10 DEF Close
<1>11. CASE UNCHANGED vars
  BY <1>11 DEF vars
<1> QED
  BY <1>1, <1>2, <1>3, <1>4, <1>5, <1>6, <1>7, <1>8, <1>9, <1>10, <1>11 DEF Next

(* The viewport of the token picker holds the cursor after every sequence  *)
(* of keys and changes of the list (handlePickerKey), for every number of  *)
(* rows and tokens.                                                        *)
THEOREM ViewportHoldsCursor == Spec => []CursorInViewport
<1>1. PickerInv => CursorInViewport
  BY DEF PickerInv
<1> QED
  BY <1>1, PickerInit, PickerStep, PTL DEF Spec

(* The wallet under the cursor exists, for every keystore                  *)
(* (handleWalletPickerKey).                                                *)
THEOREM WalletExists == Spec => []WalletUnderCursor
<1>1. PickerInv => WalletUnderCursor
  BY DEF PickerInv
<1> QED
  BY <1>1, PickerInit, PickerStep, PTL DEF Spec

(* Page down where no token matches: the cursor leaves the list.           *)
PageDownOnNothing == Page /\ items = 0 /\ cursor' < 0

(* The cursor and the viewport start on rows of the list.                  *)
OnList == 0 <= cursor /\ 0 <= offset

LEMMA ListIsKept ==
  ASSUME PickerInv, OnList, [Next]_vars, ~PageDownOnNothing
  PROVE  OnList'
<1> USE PickerConstants DEF PickerInv, TypeOK, OnList
<1>1. CASE OpenTokens \/ SwitchChain \/ ListChanges \/ CtrlW \/ Pick \/ Close
  BY <1>1 DEF OpenTokens, SwitchChain, ListChanges, CtrlW, Pick, Close
<1>2. CASE OpenWallets
  BY <1>2 DEF OpenWallets
<1>3. CASE Move \/ Page \/ Search
  <2>1. cursor' \in Int /\ Scroll
    BY <1>3 DEF Move, Page, Search, Listed
  <2>2. 0 <= cursor'
    <3>1. CASE Move
      BY <3>1 DEF Move, Listed
    <3>2. CASE Page
      BY <3>2 DEF Page, PageDownOnNothing
    <3> QED BY <1>3, <3>1, <3>2 DEF Search
  <2> QED BY <2>1, <2>2, ScrollFollows
<1>4. CASE UNCHANGED vars
  BY <1>4 DEF vars
<1> QED BY <1>1, <1>2, <1>3, <1>4 DEF Next

(* The token picker renders no row before the first unless page down was   *)
(* pressed where no token matched (handlePickerKey): the counterexample to *)
(* RowsExist needs that key, whatever else was pressed and however the     *)
(* list changed.                                                           *)
THEOREM RowsExistUnlessPagedDownOnNothing ==
  Spec /\ [][~PageDownOnNothing]_vars => []RowsExist
<1>1. Init => OnList
  BY DEF Init, OnList
<1>2. PickerInv /\ OnList /\ [Next]_vars /\ [~PageDownOnNothing]_vars => OnList'
  <2> SUFFICES ASSUME PickerInv, OnList, [Next]_vars, [~PageDownOnNothing]_vars
               PROVE  OnList'
    OBVIOUS
  <2>1. CASE UNCHANGED vars
    BY <2>1 DEF vars, OnList
  <2> QED BY <2>1, ListIsKept
<1>3. PickerInv /\ OnList => RowsExist
  BY PickerConstants DEF PickerInv, TypeOK, OnList, RowsExist
<1> QED BY <1>1, <1>2, <1>3, PickerInit, PickerStep, PTL DEF Spec

-----------------------------------------------------------------------------
(* The tracking screen *)

LEMMA TrackStep ==
  ASSUME Tracking!TypeOK, [Tracking!Next]_(Tracking!vars)
  PROVE  Tracking!TypeOK'
<1>0. MaxTransfers \in Nat \ {0} /\ MaxTracks \in Nat /\ MaxErrors \in Nat
  BY ScreenConstants DEF Tracking!TrackConstants
<1>a. "none" \in Tracking!Statuses /\ "inflight" \in Tracking!Statuses /\ "final" \in Tracking!Statuses
  BY DEF Tracking!Statuses
<1> USE <1>0, <1>a DEF Tracking!TypeOK
<1>1. CASE UNCHANGED Tracking!vars
  BY <1>1 DEF Tracking!vars
<1>2. CASE Tracking!Track
  <2>1. polls' \in [Tracking!Transfers -> Nat]
    BY <1>2 DEF Tracking!Track, Tracking!Plus
  <2>2. tracks' \in 0..MaxTracks /\ ticks' \in Nat /\ ended' = FALSE
    BY <1>2 DEF Tracking!Track
  <2>3. status' \in [of : Tracking!Transfers, is : Tracking!Statuses]
    BY <1>2 DEF Tracking!Track
  <2> QED BY <1>2, <2>1, <2>2, <2>3 DEF Tracking!Track
<1>3. CASE Tracking!StopTracking
  BY <1>3 DEF Tracking!StopTracking
<1>4. CASE Tracking!LeaveResult
  BY <1>4 DEF Tracking!LeaveResult
<1>5. CASE Tracking!SendNext
  BY <1>5 DEF Tracking!SendNext
<1>6. CASE Tracking!TrackTick
  <2>1. polls' \in [Tracking!Transfers -> Nat]
    BY <1>6 DEF Tracking!TrackTick, Tracking!Plus
  <2>2. ticks' \in Nat
    BY <1>6 DEF Tracking!TrackTick
  <2> QED BY <1>6, <2>1, <2>2 DEF Tracking!TrackTick
<1>7. ASSUME NEW t \in Tracking!Transfers, Tracking!AnswerPoll(t) PROVE Tracking!TypeOK'
  <2>1. polls' \in [Tracking!Transfers -> Nat]
    BY <1>7 DEF Tracking!AnswerPoll, Tracking!Minus
  <2>2. PICK s \in Tracking!Statuses : answers' = [answers EXCEPT ![t][s] = @ + 1]
    BY <1>7 DEF Tracking!AnswerPoll
  <2>3. answers' \in [Tracking!Transfers -> [Tracking!Statuses -> Nat]]
    BY <2>2
  <2>4. errors' \in 0..MaxErrors
    BY <1>7 DEF Tracking!AnswerPoll
  <2> QED BY <1>7, <2>1, <2>3, <2>4 DEF Tracking!AnswerPoll
<1>8. ASSUME NEW t \in Tracking!Transfers, NEW s \in Tracking!Statuses,
             Tracking!TrackStatus(t, s)
      PROVE  Tracking!TypeOK'
  <2>1. answers' \in [Tracking!Transfers -> [Tracking!Statuses -> Nat]]
    BY <1>8 DEF Tracking!TrackStatus
  <2>2. active' \in BOOLEAN /\ ended' \in BOOLEAN /\ ticks' \in Nat
    BY <1>8 DEF Tracking!TrackStatus
  <2> QED BY <1>8, <2>1, <2>2 DEF Tracking!TrackStatus
<1>9. ASSUME NEW t \in Tracking!Transfers, Tracking!Deliver(t) PROVE Tracking!TypeOK'
  BY <1>9 DEF Tracking!Deliver
<1> QED
  BY <1>1, <1>2, <1>3, <1>4, <1>5, <1>6, <1>7, <1>8, <1>9
     DEF Tracking!Next, Tracking!User, Tracking!Polling

LEMMA TrackStarts == Tracking!Init => Tracking!TypeOK
<1> SUFFICES ASSUME Tracking!Init PROVE Tracking!TypeOK
  OBVIOUS
<1>1. 1 \in Tracking!Transfers /\ 0 \in 0..MaxTracks /\ 0 \in 0..MaxErrors
  BY ScreenConstants DEF Tracking!TrackConstants, Tracking!Transfers
<1>2. "none" \in Tracking!Statuses
  BY DEF Tracking!Statuses
<1> QED BY <1>1, <1>2 DEF Tracking!Init, Tracking!TypeOK

(* A request or an answer of the transfer is under way. *)
Asked(t) == polls[t] # 0 \/ \E s \in Tracking!Statuses : answers[t][s] # 0

Polls == trackMode = "tracking" => ended \/ ticks # 0 \/ Asked(transfer)

LEMMA PollsStep ==
  ASSUME Tracking!TypeOK, Polls, [Tracking!Next]_(Tracking!vars)
  PROVE  Polls'
<1> USE DEF Tracking!TypeOK, Polls
<1>1. CASE UNCHANGED <<trackMode, transfer, ended, ticks, polls, answers>>
  BY <1>1 DEF Asked
<1>2. CASE Tracking!Track
  <2>1. ticks \in Nat /\ ticks' = ticks + 1
    BY <1>2 DEF Tracking!Track
  <2> QED BY <2>1
<1>3. CASE Tracking!StopTracking \/ Tracking!LeaveResult \/ Tracking!SendNext
  BY <1>3 DEF Tracking!StopTracking, Tracking!LeaveResult, Tracking!SendNext
<1>4. CASE Tracking!TrackTick
  <2> SUFFICES ASSUME trackMode = "tracking" PROVE Asked(transfer)'
    BY <1>4 DEF Tracking!TrackTick
  <2>1. /\ polls' = [polls EXCEPT ![transfer] = @ + 1]
        /\ transfer \in Tracking!Transfers /\ transfer' = transfer
    BY <1>4 DEF Tracking!TrackTick, Tracking!Plus
  <2>2. polls[transfer] \in Nat /\ polls'[transfer] = polls[transfer] + 1
    BY <2>1
  <2>3. polls'[transfer] # 0
    BY <2>2
  <2> QED BY <2>1, <2>3 DEF Asked
<1>5. ASSUME NEW t \in Tracking!Transfers, Tracking!AnswerPoll(t) PROVE Polls'
  <2>1. UNCHANGED <<trackMode, transfer, ended, ticks>> /\ transfer \in Tracking!Transfers
    BY <1>5 DEF Tracking!AnswerPoll
  <2>2. PICK s \in Tracking!Statuses : answers' = [answers EXCEPT ![t][s] = @ + 1]
    BY <1>5 DEF Tracking!AnswerPoll, Tracking!Statuses
  <2>3. CASE t = transfer
    <3>1. answers[t][s] \in Nat /\ answers'[t][s] = answers[t][s] + 1
      BY <2>2
    <3>2. answers'[transfer][s] # 0
      BY <2>3, <3>1
    <3> QED BY <2>1, <3>2 DEF Asked
  <2>4. CASE t # transfer
    <3>1. polls' = [polls EXCEPT ![t] = @ - 1]
      BY <1>5 DEF Tracking!AnswerPoll, Tracking!Minus
    <3>2. polls'[transfer] = polls[transfer] /\ answers'[transfer] = answers[transfer]
      BY <2>1, <2>2, <2>4, <3>1
    <3> QED BY <2>1, <3>2 DEF Asked
  <2> QED BY <2>3, <2>4
<1>6. ASSUME NEW t \in Tracking!Transfers, NEW s \in Tracking!Statuses,
             Tracking!TrackStatus(t, s)
      PROVE  Polls'
  <2> SUFFICES ASSUME trackMode' = "tracking", ~ended', ticks' = 0
               PROVE  Asked(transfer)'
    OBVIOUS
  <2>1. /\ trackMode = "tracking" /\ transfer \in Tracking!Transfers
        /\ UNCHANGED <<transfer, polls>> /\ answers' = [answers EXCEPT ![t][s] = @ - 1]
    BY <1>6 DEF Tracking!TrackStatus
  <2>2. ended' = (ended \/ (t = transfer /\ s = "final"))
        /\ (s # "final" => ticks' = ticks + 1) /\ (s = "final" => ticks' = ticks)
    BY <1>6, <2>1 DEF Tracking!TrackStatus
  <2>3. s = "final" /\ ticks = 0
    BY <2>2
  <2>4. ~ended /\ t # transfer
    BY <2>2, <2>3
  <2>5. answers'[transfer] = answers[transfer]
    BY <2>1, <2>4
  <2> QED BY <2>1, <2>3, <2>4, <2>5 DEF Asked
<1>7. ASSUME NEW t \in Tracking!Transfers, Tracking!Deliver(t) PROVE Polls'
  BY <1>1, <1>7 DEF Tracking!Deliver
<1> QED
  BY <1>1, <1>2, <1>3, <1>4, <1>5, <1>6, <1>7
     DEF Tracking!Next, Tracking!User, Tracking!Polling, Tracking!vars

(* While the screen tracks a transfer whose own final status has not come  *)
(* in, a tick, or a request or an answer of that transfer, is under way:   *)
(* neither a failed request nor one before the transfer is indexed ends    *)
(* the polling (trackStatusMsg), and no late answer of another transfer    *)
(* does, whatever it says of that one.                                     *)
THEOREM PollingGoesOn == Tracking!Spec => []PollsUntilItsOwnEnd
<1>1. Tracking!Init => Tracking!TypeOK /\ Polls
  BY TrackStarts DEF Tracking!Init, Polls
<1>2. Tracking!TypeOK /\ Polls => PollsUntilItsOwnEnd
  <2> SUFFICES ASSUME Tracking!TypeOK, Polls PROVE PollsUntilItsOwnEnd
    OBVIOUS
  <2>1. /\ ticks # 0 => ticks > 0
        /\ \A t \in Tracking!Transfers :
             /\ polls[t] # 0 => polls[t] > 0
             /\ \A s \in Tracking!Statuses : answers[t][s] # 0 => answers[t][s] > 0
    BY DEF Tracking!TypeOK
  <2>2. transfer \in Tracking!Transfers
    BY DEF Tracking!TypeOK
  <2> QED
    BY <2>1, <2>2 DEF Polls, Asked, PollsUntilItsOwnEnd, Tracking!PollsUntilItsOwnEnd
<1> QED BY <1>1, <1>2, TrackStep, PollsStep, PTL DEF Tracking!Spec

-----------------------------------------------------------------------------
(* The execution screen *)

IsDone(m) == m.kind = "done"

Messages == [kind : {"progress"}, run : Exec!Runs, n : Nat] \cup Exec!Results

ExecTypes ==
  /\ run \in Nat /\ (run # 0 => run \in Exec!Runs)
  /\ pipe \in [Exec!Runs -> {"none", "running", "emitting", "returned"}]
  /\ emitted \in [Exec!Runs -> Nat]
  /\ channel \in [Exec!Runs -> Seq(Nat)]
  /\ waiting \in [Exec!Runs -> Nat]
  /\ mail \subseteq Messages
  /\ phases \in Seq([kind : {"progress"}, run : Exec!Runs, n : Nat])
  /\ screen \in {"form", "exec"}
  /\ mode \in {"idle", "passphrase", "running", "done", "error"}

(* The form is never on the screen of a run, so that no second one starts; *)
(* what works or has mailed its result is the run the screen calls running.*)
RunningInv ==
  /\ screen = "form" => mode = "idle"
  /\ \A r \in Exec!Runs : r > run => pipe[r] = "none" /\ emitted[r] = 0
  /\ \A r \in Exec!Working : r = run /\ mode = "running"
  /\ \A m \in mail : IsDone(m) => run # 0 /\ pipe[run] = "returned" /\ mode = "running"
  /\ \A m, n \in mail : IsDone(m) /\ IsDone(n) => m = n
  /\ mode = "running" => Exec!Working # {} \/ \E m \in mail : IsDone(m)

(* startExec either does nothing or starts the next run. *)
StartsRun ==
  /\ run' = run + 1 /\ run + 1 \in Exec!Runs
  /\ mode' = "running"
  /\ phases' = <<>>
  /\ pipe' = [pipe EXCEPT ![run + 1] = "running"]
  /\ waiting' = [waiting EXCEPT ![run + 1] = 1]
  /\ overlapped' = (overlapped \/ Exec!Undelivered)
  /\ UNCHANGED <<emitted, channel, mail>>

(* The user does nothing to a run, or starts one from a screen that shows  *)
(* none.                                                                   *)
Idles ==
  /\ \/ mode' = mode /\ phases' = phases
     \/ mode # "running" /\ mode' \in {"idle", "passphrase"} /\ phases' \in {phases, <<>>}
  /\ screen' \in {"form", "exec"} /\ (screen' = "form" => mode' = "idle")
  /\ UNCHANGED <<run, pipe, emitted, channel, waiting, mail, overlapped>>

Starts == mode \in {"idle", "passphrase"} /\ StartsRun /\ screen' = "exec"

LEMMA UserSteps ==
  ASSUME ExecTypes, RunningInv, Exec!User
  PROVE  Idles \/ Starts
<1>1. MaxRuns \in Nat
  BY ScreenConstants DEF Exec!ExecConstants
<1>2. run < MaxRuns => run + 1 \in Exec!Runs
  BY <1>1 DEF ExecTypes, Exec!Runs
<1> USE DEF ExecTypes, RunningInv, Exec!execVars, Exec!runVars, Exec!formVars
<1>3. CASE Exec!Requote
  BY <1>3 DEF Exec!Requote, Idles
<1>4. CASE Exec!CtrlA
  BY <1>4 DEF Exec!CtrlA, Idles
<1>5. CASE Exec!Activate
  BY <1>2, <1>5 DEF Exec!Activate, Exec!StartExec, Idles, Starts, StartsRun
<1>6. CASE Exec!Passphrase
  BY <1>2, <1>6 DEF Exec!Passphrase, Exec!StartExec, Idles, Starts, StartsRun
<1>7. CASE Exec!Leave
  BY <1>7 DEF Exec!Leave, Idles
<1> QED BY <1>3, <1>4, <1>5, <1>6, <1>7 DEF Exec!User

LEMMA RunningStep ==
  ASSUME ExecTypes, RunningInv, [Exec!Next]_(Exec!vars)
  PROVE  ExecTypes' /\ RunningInv'
<1> USE DEF ExecTypes, RunningInv, IsDone, Exec!Working, Exec!formVars, Exec!execVars
<1>1. CASE UNCHANGED Exec!vars
  BY <1>1 DEF Exec!vars, Exec!runVars
<1>2. CASE Idles
  <2>1. UNCHANGED <<run, pipe, emitted, channel, waiting, mail>> /\ Exec!Working' = Exec!Working
    BY <1>2 DEF Idles
  <2>2. phases' \in Seq([kind : {"progress"}, run : Exec!Runs, n : Nat])
    <3>1. phases' = phases \/ phases' = <<>>
      BY <1>2 DEF Idles
    <3> DEFINE Progress == [kind : {"progress"}, run : Exec!Runs, n : Nat]
    <3>2. phases \in Seq(Progress) /\ <<>> \in Seq(Progress)
      OBVIOUS
    <3> HIDE DEF Progress
    <3>3. phases' \in Seq(Progress)
      BY <3>1, <3>2
    <3> QED BY <3>3 DEF Progress
  <2>3. ExecTypes'
    BY <1>2, <2>1, <2>2 DEF Idles
  <2>4. CASE mode' = mode
    BY <1>2, <2>1, <2>3, <2>4 DEF Idles
  <2>5. CASE mode # "running" /\ mode' \in {"idle", "passphrase"}
    <3>1. Exec!Working = {} /\ \A m \in mail : ~IsDone(m)
      BY <2>5
    <3> QED BY <1>2, <2>1, <2>3, <2>5, <3>1 DEF Idles
  <2> QED BY <1>2, <2>4, <2>5 DEF Idles
<1>3. CASE Starts
  <2>1. ExecTypes'
    BY <1>3 DEF Starts, StartsRun
  <2>2. Exec!Working = {} /\ \A m \in mail : ~IsDone(m)
    BY <1>3 DEF Starts
  <2>3. Exec!Working' = {run'} /\ mode' = "running" /\ mail' = mail /\ screen' = "exec"
    BY <1>3, <2>2 DEF Starts, StartsRun
  <2>4. \A r \in Exec!Runs : r > run' => pipe'[r] = "none" /\ emitted'[r] = 0
    <3>1. \A r \in Exec!Runs : r \in Int
      BY DEF Exec!Runs
    <3> QED BY <1>3, <3>1 DEF Starts, StartsRun
  <2> QED BY <2>1, <2>2, <2>3, <2>4
<1>4. ASSUME NEW r \in Exec!Runs, Exec!Emit(r) PROVE ExecTypes' /\ RunningInv'
  <2>1. r = run /\ mode = "running" /\ \A m \in mail : ~IsDone(m)
    BY <1>4 DEF Exec!Emit
  <2> QED BY <1>4, <2>1 DEF Exec!Emit
<1>5. ASSUME NEW r \in Exec!Runs, Exec!Send(r) PROVE ExecTypes' /\ RunningInv'
  <2>1. r = run /\ mode = "running" /\ \A m \in mail : ~IsDone(m)
    BY <1>5 DEF Exec!Send
  <2> QED BY <1>5, <2>1 DEF Exec!Send
<1>6. ASSUME NEW r \in Exec!Runs, Exec!PipelineReturns(r) PROVE ExecTypes' /\ RunningInv'
  <2>1. r = run /\ mode = "running" /\ \A m \in mail : ~IsDone(m)
    BY <1>6 DEF Exec!PipelineReturns
  <2>2. PICK ok \in BOOLEAN : mail' = mail \cup {[kind |-> "done", run |-> r, ok |-> ok]}
    BY <1>6 DEF Exec!PipelineReturns
  <2>3. mail' \subseteq Messages
    BY <2>2 DEF Messages, Exec!Results
  <2>4. /\ pipe' = [pipe EXCEPT ![r] = "returned"]
        /\ UNCHANGED <<run, emitted, channel, waiting, phases, screen, mode>>
    BY <1>6 DEF Exec!PipelineReturns
  <2>5. ExecTypes'
    BY <2>1, <2>3, <2>4
  <2>6. Exec!Working' = {}
    BY <2>1, <2>4
  <2>7. \A m \in mail' : IsDone(m) <=> m = [kind |-> "done", run |-> r, ok |-> ok]
    BY <2>1, <2>2
  <2>8. [kind |-> "done", run |-> r, ok |-> ok] \in mail'
    BY <2>2
  <2>9. \A q \in Exec!Runs : q > run => pipe'[q] = pipe[q]
    <3>1. \A q \in Exec!Runs : q \in Int
      BY DEF Exec!Runs
    <3> QED BY <2>1, <2>4, <3>1
  <2>10. run # 0 /\ pipe'[run] = "returned"
    <3>1. \A q \in Exec!Runs : q # 0
      BY DEF Exec!Runs
    <3> QED BY <2>1, <2>4, <3>1
  <2> QED BY <2>1, <2>4, <2>5, <2>6, <2>7, <2>8, <2>9, <2>10
<1>7. ASSUME NEW r \in Exec!Runs, Exec!Await(r) PROVE ExecTypes' /\ RunningInv'
  <2>1. /\ waiting' \in [Exec!Runs -> Nat]
        /\ UNCHANGED <<run, pipe, emitted, phases, screen, mode>>
    BY <1>7 DEF Exec!Await
  <2>2. CASE channel[r] # <<>> /\ channel' = [channel EXCEPT ![r] = Tail(@)]
             /\ mail' = mail \cup {[kind |-> "progress", run |-> r, n |-> Head(channel[r])]}
    <3>1. Head(channel[r]) \in Nat /\ Tail(channel[r]) \in Seq(Nat)
      BY <2>2
    <3>2. mail' \subseteq Messages
      BY <2>2, <3>1 DEF Messages
    <3>3. \A m \in mail' : IsDone(m) <=> m \in mail /\ IsDone(m)
      BY <2>2
    <3>4. mail \subseteq mail' /\ channel' \in [Exec!Runs -> Seq(Nat)]
      BY <2>2, <3>1
    <3> QED BY <2>1, <3>2, <3>3, <3>4
  <2>3. CASE UNCHANGED <<mail, channel>>
    BY <2>1, <2>3
  <2> QED BY <1>7, <2>2, <2>3 DEF Exec!Await
<1>8. ASSUME NEW m \in mail, Exec!ApplyProgress(m) PROVE ExecTypes' /\ RunningInv'
  <2>1. /\ m \in [kind : {"progress"}, run : Exec!Runs, n : Nat] /\ ~IsDone(m)
    BY <1>8 DEF Exec!ApplyProgress, Messages, Exec!Results
  <2>2. /\ mail' = mail \ {m} /\ phases' = Append(phases, m)
        /\ waiting' = [waiting EXCEPT ![run] = @ + 1]
        /\ UNCHANGED <<run, pipe, emitted, channel, screen, mode>>
    BY <1>8 DEF Exec!ApplyProgress
  <2>3. phases' \in Seq([kind : {"progress"}, run : Exec!Runs, n : Nat])
    BY <2>1, <2>2
  <2>4. waiting' \in [Exec!Runs -> Nat]
    <3>1. CASE run \in Exec!Runs
      BY <2>2, <3>1
    <3>2. CASE run \notin Exec!Runs
      BY <2>2, <3>2
    <3> QED BY <3>1, <3>2
  <2>5. ExecTypes'
    BY <2>2, <2>3, <2>4
  <2>6. \A n \in mail : IsDone(n) => n \in mail'
    BY <2>1, <2>2
  <2> QED BY <2>2, <2>5, <2>6
<1>9. ASSUME NEW m \in mail, Exec!ApplyDone(m) PROVE ExecTypes' /\ RunningInv'
  <2>1. /\ mail' = mail \ {m} /\ IsDone(m) /\ mode' \in {"done", "error"}
        /\ UNCHANGED <<run, pipe, emitted, channel, waiting, screen, phases>>
    BY <1>9 DEF Exec!ApplyDone
  <2>2. (\A n \in mail' : ~IsDone(n)) /\ Exec!Working = {} /\ screen # "form"
    BY <2>1
  <2> QED BY <2>1, <2>2
<1> QED
  BY <1>1, <1>2, <1>3, <1>4, <1>5, <1>6, <1>7, <1>8, <1>9, UserSteps
     DEF Exec!Next, Exec!Pipeline, Exec!Deliver

LEMMA RunningInit == ASSUME Exec!Init PROVE ExecTypes /\ RunningInv
BY DEF Exec!Init, ExecTypes, RunningInv, Exec!Working, IsDone

(* "Running" is on the screen exactly while a pipeline works or its result *)
(* is on its way, and no key starts a second one meanwhile.                *)
THEOREM OneRunAtATime == Exec!Spec => []RunningIsTrue
<1>1. ExecTypes /\ RunningInv => RunningIsTrue
  <2> SUFFICES ASSUME ExecTypes, RunningInv PROVE Exec!RunningIsTrue
    BY DEF RunningIsTrue
  <2>1. \A q, r \in Exec!Working : q = r
    BY DEF RunningInv
  <2>2. Exec!Working # {} => mode = "running"
    BY DEF RunningInv
  <2>3. (\E m \in mail : m.kind = "done") => mode = "running"
    BY DEF RunningInv, IsDone
  <2>4. mode = "running" => Exec!Working # {} \/ \E m \in mail : m.kind = "done"
    BY DEF RunningInv, IsDone
  <2>5. mode = "running" <=> Exec!Working # {} \/ \E m \in mail : m.kind = "done"
    BY <2>2, <2>3, <2>4
  <2> QED BY <2>1, <2>5 DEF Exec!RunningIsTrue
<1> QED BY <1>1, RunningInit, RunningStep, PTL DEF Exec!Spec

(* What is in a channel has been emitted, and so has the event that the    *)
(* pipeline is about to put there.                                         *)
RoomInv ==
  \A r \in Exec!Runs :
    /\ emitted[r] <= MaxEvents
    /\ Len(channel[r]) <= emitted[r]
    /\ pipe[r] = "emitting" => Len(channel[r]) < emitted[r]

LEMMA RoomStep ==
  ASSUME ExecTypes, RunningInv, RoomInv, [Exec!Next]_(Exec!vars)
  PROVE  RoomInv'
<1> USE DEF ExecTypes, RoomInv, Exec!runVars
<1>0. MaxEvents \in Nat
  BY ScreenConstants DEF Exec!ExecConstants
<1>1. CASE UNCHANGED Exec!vars
  BY <1>1 DEF Exec!vars
<1>2. CASE Idles
  BY <1>2 DEF Idles
<1>3. CASE Starts
  BY <1>3 DEF Starts, StartsRun
<1>4. ASSUME NEW r \in Exec!Runs, Exec!Emit(r) PROVE RoomInv'
  BY <1>0, <1>4 DEF Exec!Emit
<1>5. ASSUME NEW r \in Exec!Runs, Exec!Send(r) PROVE RoomInv'
  <2>1. channel' = [channel EXCEPT ![r] = Append(channel[r], emitted[r])]
        /\ pipe' = [pipe EXCEPT ![r] = "running"] /\ pipe[r] = "emitting"
        /\ UNCHANGED emitted
    BY <1>5 DEF Exec!Send
  <2>2. Len(channel'[r]) = Len(channel[r]) + 1 /\ Len(channel[r]) \in Nat
    BY <2>1
  <2>3. \A q \in Exec!Runs \ {r} : channel'[q] = channel[q] /\ pipe'[q] = pipe[q]
    BY <2>1
  <2>4. emitted[r] \in Nat /\ Len(channel[r]) < emitted[r] /\ pipe'[r] = "running"
    BY <2>1
  <2>5. Len(channel'[r]) <= emitted[r]
    BY <2>2, <2>4
  <2> QED BY <2>1, <2>3, <2>4, <2>5
<1>6. ASSUME NEW r \in Exec!Runs, Exec!PipelineReturns(r) PROVE RoomInv'
  BY <1>6 DEF Exec!PipelineReturns
<1>7. ASSUME NEW r \in Exec!Runs, Exec!Await(r) PROVE RoomInv'
  <2>1. UNCHANGED <<pipe, emitted>>
    BY <1>7 DEF Exec!Await
  <2>2. CASE channel[r] # <<>> /\ channel' = [channel EXCEPT ![r] = Tail(channel[r])]
    <3>1. Len(channel'[r]) = Len(channel[r]) - 1 /\ Len(channel[r]) \in Nat
      BY <2>2
    <3>2. \A q \in Exec!Runs \ {r} : channel'[q] = channel[q]
      BY <2>2
    <3>3. Len(channel'[r]) <= emitted[r] /\ (pipe[r] = "emitting" => Len(channel'[r]) < emitted[r])
      BY <3>1
    <3> QED BY <2>1, <3>2, <3>3
  <2>3. CASE UNCHANGED channel
    BY <2>1, <2>3
  <2> QED BY <1>7, <2>2, <2>3 DEF Exec!Await
<1>8. ASSUME NEW m \in mail, Exec!ApplyProgress(m) \/ Exec!ApplyDone(m) PROVE RoomInv'
  BY <1>8 DEF Exec!ApplyProgress, Exec!ApplyDone
<1> QED
  BY <1>1, <1>2, <1>3, <1>4, <1>5, <1>6, <1>7, <1>8, UserSteps
     DEF Exec!Next, Exec!Pipeline, Exec!Deliver

(* A channel that holds as many events as a run emits never holds the      *)
(* pipeline up, whatever the screen does meanwhile.  The code's holds 32   *)
(* (tui.go:869), and a run emits 16 at most (RunsAreShort).                *)
THEOREM PipelineWaitsForNoScreen ==
  ASSUME MaxEvents <= Capacity
  PROVE  Exec!Spec =>
           [](\A r \in Exec!Runs : pipe[r] = "emitting" => Len(channel[r]) < Capacity)
<1>1. Exec!Init => RoomInv
  BY ScreenConstants DEF Exec!Init, RoomInv, Exec!ExecConstants
<1>2. ExecTypes /\ RoomInv =>
        \A r \in Exec!Runs : pipe[r] = "emitting" => Len(channel[r]) < Capacity
  <2> SUFFICES ASSUME ExecTypes, RoomInv, NEW r \in Exec!Runs, pipe[r] = "emitting"
               PROVE  Len(channel[r]) < Capacity
    OBVIOUS
  <2>1. MaxEvents \in Nat /\ Capacity \in Nat /\ Len(channel[r]) \in Nat /\ emitted[r] \in Nat
    BY ScreenConstants DEF Exec!ExecConstants, ExecTypes
  <2> QED BY <2>1 DEF RoomInv
<1> QED BY <1>1, <1>2, RunningInit, RunningStep, RoomStep, PTL DEF Exec!Spec

(* An event and where it is: on the screen, in the mail, in the channel or *)
(* still with the pipeline.  Between the screen and the channel there is   *)
(* one event at most, for one command awaits and Update makes it await     *)
(* again; so they come in the order the pipeline emitted them.             *)
Progress(n) == [kind |-> "progress", run |-> run, n |-> n]

ShowsRun == mode \in {"running", "done", "error"} /\ ~overlapped

Mailed == IF \E m \in mail : ~IsDone(m) THEN 1 ELSE 0

Pending == IF pipe[run] = "emitting" THEN 1 ELSE 0

OrderInv ==
  ShowsRun =>
    /\ run # 0
    /\ \A r \in Exec!Runs \ {run} : waiting[r] = 0 /\ channel[r] = <<>>
    /\ waiting[run] + Mailed <= 1
    /\ \A m \in mail : ~IsDone(m) => m = Progress(Len(phases) + 1)
    /\ \A i \in 1..Len(phases) : phases[i] = Progress(i)
    /\ \A i \in 1..Len(channel[run]) : channel[run][i] = Len(phases) + Mailed + i
    /\ emitted[run] = Len(phases) + Mailed + Len(channel[run]) + Pending

LEMMA OrderStep ==
  ASSUME ExecTypes, RunningInv, OrderInv, [Exec!Next]_(Exec!vars)
  PROVE  OrderInv'
<1> USE DEF Exec!formVars, Exec!execVars
<1>0. mail \subseteq Messages /\ run \in Nat /\ phases \in Seq([kind : {"progress"}, run : Exec!Runs, n : Nat])
  BY DEF ExecTypes
<1>1. CASE UNCHANGED Exec!vars
  BY <1>1 DEF Exec!vars, Exec!runVars, OrderInv, ShowsRun, Mailed, Progress, Pending
<1>2. CASE Idles
  BY <1>2 DEF Idles, OrderInv, ShowsRun, Mailed, Progress, Pending
<1>3. CASE Starts
  <2> SUFFICES ASSUME ShowsRun' PROVE OrderInv'
    BY DEF OrderInv
  <2>1. /\ mail = {} /\ mail' = {} /\ phases' = <<>> /\ run' = run + 1 /\ run + 1 \in Exec!Runs
        /\ \A r \in Exec!Runs : channel[r] = <<>> /\ ~(waiting[r] > 0)
        /\ UNCHANGED <<emitted, channel>>
        /\ waiting' = [waiting EXCEPT ![run + 1] = 1]
        /\ pipe' = [pipe EXCEPT ![run + 1] = "running"]
    BY <1>3 DEF Starts, StartsRun, ShowsRun, Exec!Undelivered
  <2>2. \A r \in Exec!Runs : waiting[r] = 0
    BY <2>1 DEF ExecTypes
  <2>3. emitted[run + 1] = 0 /\ pipe'[run + 1] = "running" /\ waiting'[run + 1] = 1
    BY <1>0, <2>1 DEF RunningInv, ExecTypes
  <2>4. \A r \in Exec!Runs \ {run'} : waiting'[r] = 0 /\ channel'[r] = <<>>
    BY <2>1, <2>2 DEF ExecTypes
  <2>5. Mailed' = 0 /\ Len(phases') = 0 /\ channel'[run'] = <<>> /\ Len(channel'[run']) = 0
        /\ Pending' = 0
    BY <2>1, <2>3 DEF Mailed, Pending
  <2> QED BY <1>0, <2>1, <2>3, <2>4, <2>5 DEF OrderInv
<1>4. ASSUME NEW r \in Exec!Runs, Exec!Emit(r) PROVE OrderInv'
  <2>1. r = run
    BY <1>4 DEF Exec!Emit, RunningInv, Exec!Working
  <2>2. /\ pipe[run] = "running" /\ pipe'[run] = "emitting" /\ emitted'[run] = emitted[run] + 1
        /\ UNCHANGED <<run, mail, phases, channel, waiting, mode, overlapped>>
    BY <1>4, <2>1 DEF Exec!Emit, ExecTypes
  <2>3. Len(phases) \in Nat /\ Mailed \in Nat /\ Len(channel[run]) \in Nat
    BY <1>0, <1>4, <2>1 DEF Mailed, ExecTypes
  <2>4. UNCHANGED <<Mailed, ShowsRun>> /\ (\A n : Progress(n)' = Progress(n))
        /\ Pending = 0 /\ Pending' = 1
    BY <2>2 DEF Mailed, ShowsRun, Progress, Pending
  <2>5. ShowsRun => emitted'[run] = Len(phases) + Mailed + Len(channel[run]) + 1
    <3>1. ShowsRun => emitted[run] = Len(phases) + Mailed + Len(channel[run]) + Pending
      BY DEF OrderInv
    <3> DEFINE a == Len(phases)
               c == Len(channel[run])
    <3> HIDE DEF a, c
    <3>2. a \in Nat /\ c \in Nat /\ Mailed \in Nat
      BY <2>3 DEF a, c
    <3>3. ShowsRun => emitted[run] = a + Mailed + c + 0
      BY <2>4, <3>1 DEF a, c
    <3>4. ShowsRun => emitted'[run] = a + Mailed + c + 1
      BY <2>2, <3>2, <3>3
    <3> QED BY <3>4 DEF a, c
  <2> QED BY <2>2, <2>4, <2>5 DEF OrderInv
<1>5. ASSUME NEW r \in Exec!Runs, Exec!Send(r) PROVE OrderInv'
  <2>1. r = run
    BY <1>5 DEF Exec!Send, RunningInv, Exec!Working
  <2>2. /\ pipe[run] = "emitting" /\ pipe'[run] = "running"
        /\ channel' = [channel EXCEPT ![run] = Append(@, emitted[run])]
        /\ UNCHANGED <<run, mail, phases, emitted, waiting, mode, overlapped>>
    BY <1>5, <2>1 DEF Exec!Send, ExecTypes
  <2>3. Len(phases) \in Nat /\ Mailed \in Nat /\ Len(channel[run]) \in Nat /\ channel[run] \in Seq(Nat)
    BY <1>0, <1>5, <2>1 DEF Mailed, ExecTypes
  <2>4. /\ channel'[run] = Append(channel[run], emitted[run])
        /\ \A q \in Exec!Runs \ {run} : channel'[q] = channel[q]
    BY <1>5, <2>1, <2>2 DEF ExecTypes
  <2>5. /\ Len(channel'[run]) = Len(channel[run]) + 1
        /\ channel'[run][Len(channel[run]) + 1] = emitted[run]
        /\ \A i \in 1..Len(channel[run]) : channel'[run][i] = channel[run][i]
    BY <2>3, <2>4
  <2>6. UNCHANGED <<Mailed, ShowsRun>> /\ (\A n : Progress(n)' = Progress(n))
        /\ Pending = 1 /\ Pending' = 0
    BY <2>2 DEF Mailed, ShowsRun, Progress, Pending
  <2>7. ASSUME ShowsRun
        PROVE  /\ emitted[run] = Len(phases) + Mailed + Len(channel'[run])
               /\ \A i \in 1..Len(channel'[run]) : channel'[run][i] = Len(phases) + Mailed + i
    <3>1. emitted[run] = Len(phases) + Mailed + Len(channel[run]) + 1
      BY <2>6, <2>7 DEF OrderInv
    <3>2. \A i \in 1..Len(channel[run]) : channel[run][i] = Len(phases) + Mailed + i
      BY <2>7 DEF OrderInv
    <3>3. ASSUME NEW i \in 1..Len(channel'[run])
          PROVE  channel'[run][i] = Len(phases) + Mailed + i
      <4>1. i \in 1..Len(channel[run]) \/ i = Len(channel[run]) + 1
        BY <2>3, <2>5
      <4>2. CASE i \in 1..Len(channel[run])
        BY <2>5, <3>2, <4>2
      <4>3. CASE i = Len(channel[run]) + 1
        <5> DEFINE a == Len(phases)
                   c == Len(channel[run])
        <5> HIDE DEF a, c
        <5>1. a \in Nat /\ c \in Nat /\ Mailed \in Nat /\ i = c + 1
              /\ emitted[run] = a + Mailed + c + 1
          BY <2>3, <3>1, <4>3 DEF a, c
        <5>2. emitted[run] = a + Mailed + i
          BY <5>1
        <5> QED BY <2>5, <4>3, <5>2 DEF a
      <4> QED BY <4>1, <4>2, <4>3
    <3>4. emitted[run] = Len(phases) + Mailed + Len(channel'[run])
      <4> DEFINE a == Len(phases)
                 c == Len(channel[run])
                 d == Len(channel'[run])
      <4> HIDE DEF a, c, d
      <4>1. a \in Nat /\ c \in Nat /\ Mailed \in Nat /\ d = c + 1
            /\ emitted[run] = a + Mailed + c + 1
        BY <2>3, <2>5, <3>1 DEF a, c, d
      <4>2. emitted[run] = a + Mailed + d
        BY <4>1
      <4> QED BY <4>2 DEF a, d
    <3> QED BY <3>3, <3>4
  <2>8. Len(channel'[run]) \in Nat
    BY <2>3, <2>5
  <2>9. ShowsRun => emitted[run] = Len(phases) + Mailed + Len(channel'[run]) + 0
    <3> DEFINE a == Len(phases)
               d == Len(channel'[run])
    <3> HIDE DEF a, d
    <3>1. a \in Nat /\ d \in Nat /\ Mailed \in Nat /\ (ShowsRun => emitted[run] = a + Mailed + d)
      BY <2>3, <2>7, <2>8 DEF a, d
    <3>2. ShowsRun => emitted[run] = a + Mailed + d + 0
      BY <3>1
    <3> QED BY <3>2 DEF a, d
  <2> QED BY <2>2, <2>4, <2>6, <2>7, <2>9 DEF OrderInv
<1>6. ASSUME NEW r \in Exec!Runs, Exec!PipelineReturns(r) PROVE OrderInv'
  <2>1. r = run /\ mode = "running"
    BY <1>6 DEF Exec!PipelineReturns, RunningInv, Exec!Working
  <2>2. PICK ok \in BOOLEAN : mail' = mail \cup {[kind |-> "done", run |-> r, ok |-> ok]}
    BY <1>6 DEF Exec!PipelineReturns
  <2>3. /\ pipe[run] = "running" /\ pipe'[run] = "returned"
        /\ UNCHANGED <<run, emitted, channel, waiting, phases, mode, overlapped>>
    BY <1>6, <2>1 DEF Exec!PipelineReturns, ExecTypes
  <2>4. \A m : m \in mail' /\ ~IsDone(m) <=> m \in mail /\ ~IsDone(m)
    BY <2>2 DEF IsDone
  <2>5. Mailed' = Mailed /\ Pending' = Pending
    BY <2>3, <2>4 DEF Mailed, Pending
  <2> QED BY <2>3, <2>4, <2>5 DEF OrderInv, ShowsRun, Progress
<1>7. ASSUME NEW r \in Exec!Runs, Exec!Await(r) PROVE OrderInv'
  <2> SUFFICES ASSUME ShowsRun' PROVE OrderInv'
    BY DEF OrderInv
  <2>1. /\ waiting[r] > 0 /\ waiting' = [waiting EXCEPT ![r] = @ - 1]
        /\ UNCHANGED <<run, pipe, emitted, phases, mode, overlapped>>
    BY <1>7 DEF Exec!Await
  <2>2. ShowsRun
    BY <2>1 DEF ShowsRun
  <2>3. r = run /\ waiting[r] \in Nat
    BY <2>1, <2>2 DEF OrderInv, ExecTypes
  <2>4. waiting[run] = 1 /\ Mailed = 0
    BY <2>1, <2>2, <2>3 DEF OrderInv, Mailed
  <2>5. waiting'[run] = 0 /\ \A q \in Exec!Runs \ {run} : waiting'[q] = waiting[q]
    BY <2>1, <2>3, <2>4 DEF ExecTypes
  <2>6. Len(phases) \in Nat /\ channel[run] \in Seq(Nat) /\ Len(channel[run]) \in Nat
    BY <1>0, <2>3 DEF ExecTypes
  <2>7. (\A n : Progress(n)' = Progress(n)) /\ Pending' = Pending /\ Pending \in Nat
    BY <2>1 DEF Progress, Pending
  <2>8. \A m \in mail : IsDone(m)
    BY <2>4 DEF Mailed
  <2>9. CASE channel[r] # <<>> /\ channel' = [channel EXCEPT ![r] = Tail(@)]
             /\ mail' = mail \cup {[kind |-> "progress", run |-> r, n |-> Head(channel[r])]}
    <3>1. /\ Len(channel[run]) >= 1 /\ Head(channel[run]) = channel[run][1]
          /\ Len(Tail(channel[run])) = Len(channel[run]) - 1
          /\ \A i \in 1..Len(Tail(channel[run])) : Tail(channel[run])[i] = channel[run][i + 1]
      BY <2>3, <2>6, <2>9
    <3>2. /\ channel'[run] = Tail(channel[run])
          /\ \A q \in Exec!Runs \ {run} : channel'[q] = channel[q]
      BY <2>3, <2>9 DEF ExecTypes
    <3>3. \A i \in 1..Len(channel[run]) : channel[run][i] = Len(phases) + i
      BY <2>2, <2>4, <2>6 DEF OrderInv
    <3>4. Head(channel[run]) = Len(phases) + 1
      BY <2>6, <3>1, <3>3
    <3>5. mail' = mail \cup {Progress(Len(phases) + 1)}
      BY <2>3, <2>9, <3>4 DEF Progress
    <3>6. ~IsDone(Progress(Len(phases) + 1))
      BY DEF IsDone, Progress
    <3>7. Mailed' = 1 /\ \A m \in mail' : ~IsDone(m) => m = Progress(Len(phases) + 1)
      BY <2>8, <3>5, <3>6 DEF Mailed
    <3>8. \A i \in 1..Len(channel'[run]) : channel'[run][i] = Len(phases) + 1 + i
      <4> TAKE i \in 1..Len(channel'[run])
      <4>1. i \in 1..Len(Tail(channel[run])) /\ i + 1 \in 1..Len(channel[run]) /\ i \in Nat
        BY <2>6, <3>1, <3>2
      <4> QED BY <2>6, <3>1, <3>2, <3>3, <4>1
    <3>9. emitted[run] = Len(phases) + 1 + Len(channel'[run]) + Pending
      <4>1. emitted[run] = Len(phases) + 0 + Len(channel[run]) + Pending
        BY <2>2, <2>4 DEF OrderInv
      <4>2. Len(channel'[run]) = Len(channel[run]) - 1
        BY <3>1, <3>2
      <4> DEFINE a == Len(phases)
                 c == Len(channel[run])
                 d == Len(channel'[run])
      <4> HIDE DEF a, c, d
      <4>3. a \in Nat /\ c \in Nat /\ Pending \in Nat /\ d = c - 1
            /\ emitted[run] = a + 0 + c + Pending
        BY <2>6, <2>7, <4>1, <4>2 DEF a, c, d
      <4>4. emitted[run] = a + 1 + d + Pending
        BY <4>3
      <4> QED BY <4>4 DEF a, d
    <3> QED BY <2>1, <2>2, <2>5, <2>7, <3>2, <3>7, <3>8, <3>9 DEF OrderInv
  <2>10. CASE UNCHANGED <<mail, channel>>
    <3>1. Mailed' = 0
      BY <2>4, <2>10 DEF Mailed
    <3> QED BY <2>1, <2>2, <2>3, <2>4, <2>5, <2>7, <2>8, <2>10, <3>1 DEF OrderInv
  <2> QED BY <1>7, <2>9, <2>10 DEF Exec!Await
<1>8. ASSUME NEW m \in mail, Exec!ApplyProgress(m) PROVE OrderInv'
  <2> SUFFICES ASSUME ShowsRun' PROVE OrderInv'
    BY DEF OrderInv
  <2>1. /\ mail' = mail \ {m} /\ phases' = Append(phases, m) /\ ~IsDone(m)
        /\ waiting' = [waiting EXCEPT ![run] = @ + 1]
        /\ UNCHANGED <<run, pipe, emitted, channel, mode, overlapped>>
    BY <1>8 DEF Exec!ApplyProgress, IsDone
  <2>2. ShowsRun /\ Mailed = 1
    BY <2>1 DEF ShowsRun, Mailed
  <2>3. run \in Exec!Runs /\ m = Progress(Len(phases) + 1)
    BY <2>1, <2>2 DEF OrderInv, ExecTypes
  <2>4. Mailed' = 0 /\ \A n \in mail' : IsDone(n)
    BY <2>1, <2>2 DEF OrderInv, Mailed
  <2>5. waiting[run] = 0 /\ waiting'[run] = 1
        /\ \A q \in Exec!Runs \ {run} : waiting'[q] = waiting[q]
    BY <2>1, <2>2, <2>3 DEF OrderInv, ExecTypes
  <2>6. Len(phases) \in Nat /\ channel[run] \in Seq(Nat) /\ Len(channel[run]) \in Nat
    BY <1>0, <2>3 DEF ExecTypes
  <2>7. m \in [kind : {"progress"}, run : Exec!Runs, n : Nat]
    BY <2>3, <2>6 DEF Progress
  <2>8. /\ Len(phases') = Len(phases) + 1 /\ phases'[Len(phases) + 1] = m
        /\ \A i \in 1..Len(phases) : phases'[i] = phases[i]
    BY <1>0, <2>1, <2>7
  <2>9. (\A n : Progress(n)' = Progress(n)) /\ Pending' = Pending /\ Pending \in Nat
    BY <2>1 DEF Progress, Pending
  <2>10. \A i \in 1..Len(phases') : phases'[i] = Progress(i)
    <3> TAKE i \in 1..Len(phases')
    <3>1. i \in 1..Len(phases) \/ i = Len(phases) + 1
      BY <2>6, <2>8
    <3> QED BY <2>2, <2>3, <2>8, <3>1 DEF OrderInv
  <2>11. /\ \A i \in 1..Len(channel[run]) : channel[run][i] = Len(phases') + 0 + i
         /\ emitted[run] = Len(phases') + 0 + Len(channel[run]) + Pending
    <3>1. emitted[run] = Len(phases) + 1 + Len(channel[run]) + Pending
      BY <2>2 DEF OrderInv
    <3>2. \A i \in 1..Len(channel[run]) : channel[run][i] = Len(phases) + 1 + i
      BY <2>2 DEF OrderInv
    <3>3. Len(phases') + 0 = Len(phases) + 1
      BY <2>6, <2>8
    <3> QED BY <3>1, <3>2, <3>3
  <2> QED BY <2>1, <2>2, <2>4, <2>5, <2>9, <2>10, <2>11 DEF OrderInv
<1>9. ASSUME NEW m \in mail, Exec!ApplyDone(m) PROVE OrderInv'
  <2>1. /\ mail' = mail \ {m} /\ IsDone(m)
        /\ UNCHANGED <<run, pipe, emitted, channel, waiting, phases, overlapped>>
    BY <1>9 DEF Exec!ApplyDone, IsDone
  <2>2. mode = "running"
    BY <2>1 DEF RunningInv
  <2>3. \A n : n \in mail' /\ ~IsDone(n) <=> n \in mail /\ ~IsDone(n)
    BY <2>1
  <2>4. Mailed' = Mailed /\ Pending' = Pending /\ \A n : Progress(n)' = Progress(n)
    BY <2>1, <2>3 DEF Mailed, Progress, Pending
  <2>5. ShowsRun' => ShowsRun
    BY <2>1, <2>2 DEF ShowsRun
  <2> QED BY <2>1, <2>3, <2>4, <2>5 DEF OrderInv
<1> QED
  BY <1>1, <1>2, <1>3, <1>4, <1>5, <1>6, <1>7, <1>8, <1>9, UserSteps
     DEF Exec!Next, Exec!Pipeline, Exec!Deliver

(* The screen shows the events of its run in the order they were emitted,  *)
(* although Bubble Tea orders no two messages, unless the run was started  *)
(* while an earlier one still had events on their way.                     *)
THEOREM EventsInOrder == Exec!Spec => []PhasesInOrder
<1>1. Exec!Init => OrderInv
  BY DEF Exec!Init, OrderInv, ShowsRun
<1>2. ExecTypes /\ OrderInv => PhasesInOrder
  <2> SUFFICES ASSUME ExecTypes, OrderInv, ShowsRun, NEW i \in DOMAIN phases
               PROVE  phases[i] = [kind |-> "progress", run |-> run, n |-> i]
    BY DEF PhasesInOrder, Exec!PhasesInOrder, ShowsRun
  <2>1. DOMAIN phases = 1..Len(phases)
    BY DEF ExecTypes
  <2> QED BY <2>1 DEF OrderInv, Progress
<1> QED BY <1>1, <1>2, RunningInit, RunningStep, OrderStep, PTL DEF Exec!Spec
(* Until the channel is closed and drained, someone has or awaits the next *)
(* event: a command of Bubble Tea, or Update, which then awaits another.   *)
Unfinished == channel[run] # <<>> \/ pipe[run] \in {"running", "emitting"}

FetchInv == ShowsRun /\ Unfinished => waiting[run] > 0 \/ \E m \in mail : ~IsDone(m)

LEMMA FetchStep ==
  ASSUME ExecTypes, RunningInv, OrderInv, FetchInv, [Exec!Next]_(Exec!vars)
  PROVE  FetchInv'
<1> USE DEF Exec!formVars, Exec!execVars
<1>1. CASE UNCHANGED <<mode, overlapped, run, channel, pipe, waiting, mail>>
  BY <1>1 DEF FetchInv, ShowsRun, Unfinished
<1>2. CASE Idles
  BY <1>2 DEF Idles, FetchInv, ShowsRun, Unfinished
<1>3. CASE Starts
  BY <1>3 DEF Starts, StartsRun, FetchInv, ExecTypes
<1>4. ASSUME NEW r \in Exec!Runs, Exec!Emit(r) \/ Exec!Send(r) PROVE FetchInv'
  <2>1. r = run /\ pipe[run] \in {"running", "emitting"}
    BY <1>4 DEF Exec!Emit, Exec!Send, RunningInv, Exec!Working
  <2>2. UNCHANGED <<mode, overlapped, run, waiting, mail>>
    BY <1>4 DEF Exec!Emit, Exec!Send
  <2> QED BY <2>1, <2>2 DEF FetchInv, ShowsRun, Unfinished
<1>5. ASSUME NEW r \in Exec!Runs, Exec!PipelineReturns(r) PROVE FetchInv'
  <2>1. r = run /\ pipe[run] = "running"
    BY <1>5 DEF Exec!PipelineReturns, RunningInv, Exec!Working
  <2>2. UNCHANGED <<mode, overlapped, run, waiting>> /\ mail \subseteq mail'
    BY <1>5 DEF Exec!PipelineReturns
  <2> QED BY <2>1, <2>2 DEF FetchInv, ShowsRun, Unfinished
<1>6. ASSUME NEW r \in Exec!Runs, Exec!Await(r), ShowsRun', Unfinished'
      PROVE  \E m \in mail' : ~IsDone(m)
  <2>1. waiting[r] > 0 /\ UNCHANGED <<mode, overlapped, run, pipe>> /\ ShowsRun
    BY <1>6 DEF Exec!Await, ShowsRun
  <2>2. r = run
    BY <2>1 DEF OrderInv
  <2>3. CASE mail' = mail \cup {[kind |-> "progress", run |-> r, n |-> Head(channel[r])]}
    <3>1. ~IsDone([kind |-> "progress", run |-> r, n |-> Head(channel[r])])
      BY DEF IsDone
    <3> QED BY <2>3, <3>1
  <2>4. CASE channel[r] = <<>> /\ pipe[r] = "returned" /\ UNCHANGED <<mail, channel>>
    BY <1>6, <2>1, <2>2, <2>4 DEF Unfinished
  <2> QED BY <1>6, <2>3, <2>4 DEF Exec!Await
<1>7. ASSUME NEW m \in mail, Exec!ApplyProgress(m), ShowsRun' PROVE waiting'[run'] > 0
  <2>1. ShowsRun /\ UNCHANGED run /\ waiting' = [waiting EXCEPT ![run] = @ + 1]
    BY <1>7 DEF Exec!ApplyProgress, ShowsRun
  <2>2. run \in Exec!Runs /\ waiting[run] \in Nat
    BY <2>1 DEF OrderInv, ExecTypes
  <2> QED BY <2>1, <2>2 DEF ExecTypes
<1>8. ASSUME NEW m \in mail, Exec!ApplyDone(m) PROVE FetchInv'
  <2>1. /\ UNCHANGED <<overlapped, run, channel, pipe, waiting>>
        /\ mode = "running" /\ IsDone(m) /\ mail' = mail \ {m}
    BY <1>8 DEF Exec!ApplyDone, RunningInv, IsDone
  <2> QED BY <2>1 DEF FetchInv, ShowsRun, Unfinished
<1> QED
  BY <1>1, <1>2, <1>3, <1>4, <1>5, <1>6, <1>7, <1>8, UserSteps
     DEF Exec!Next, Exec!Pipeline, Exec!Deliver, Exec!vars, Exec!runVars, FetchInv

(* As long as the screen lacks an event of its run, the next one is in the *)
(* mail, or a command awaits it: no event is left in a channel that nobody *)
(* reads, though the run may have returned and its result been shown.      *)
THEOREM NoEventIsStranded ==
  Exec!Spec =>
    [](ShowsRun /\ Len(phases) # emitted[run] =>
         \/ waiting[run] > 0
         \/ \E m \in mail : m = Progress(Len(phases) + 1))
<1>1. Exec!Init => OrderInv /\ FetchInv
  BY DEF Exec!Init, OrderInv, FetchInv, ShowsRun
<1>2. ExecTypes /\ OrderInv /\ FetchInv =>
        (ShowsRun /\ Len(phases) # emitted[run] =>
           \/ waiting[run] > 0
           \/ \E m \in mail : m = Progress(Len(phases) + 1))
  <2> SUFFICES ASSUME ExecTypes, OrderInv, FetchInv, ShowsRun, Len(phases) # emitted[run],
                      \A m \in mail : IsDone(m)
               PROVE  waiting[run] > 0
    BY DEF OrderInv
  <2>1. run \in Exec!Runs /\ Len(phases) \in Nat /\ channel[run] \in Seq(Nat)
    BY DEF ExecTypes, OrderInv
  <2>2. emitted[run] = Len(phases) + 0 + Len(channel[run]) + Pending
    BY DEF OrderInv, Mailed
  <2>3. CASE channel[run] = <<>> /\ pipe[run] # "emitting"
    <3>1. Len(channel[run]) = 0 /\ Pending = 0
      BY <2>3 DEF Pending
    <3> QED BY <2>1, <2>2, <3>1
  <2>4. CASE Unfinished
    BY <2>4 DEF FetchInv
  <2> QED BY <2>3, <2>4 DEF Unfinished
<1> QED BY <1>1, <1>2, RunningInit, RunningStep, OrderStep, FetchStep, PTL DEF Exec!Spec
-----------------------------------------------------------------------------
(* The screens side by side *)

(* What the TUI shows on any of the three screens keeps their promises:    *)
(* keys and messages of one screen are stutters of the others.             *)
THEOREM ScreensKeepTheirWord ==
  ScreensSpec => [](/\ CursorInViewport /\ WalletUnderCursor
                    /\ RunningIsTrue /\ PhasesInOrder
                    /\ PollsUntilItsOwnEnd)
<1> USE DEF ScreensNext, PickerKeys, ExecRuns, Tracks
<1>1. ScreensInit => Init /\ Exec!Init /\ Tracking!Init
  BY DEF ScreensInit
<1>2. [ScreensNext]_<<at, vars, execScreen, trackScreen>> => [Next]_vars
  OBVIOUS
<1>3. [ScreensNext]_<<at, vars, execScreen, trackScreen>> => [Exec!Next]_(Exec!vars)
  BY DEF execScreen, Exec!vars, Exec!formVars, Exec!execVars, Exec!runVars
<1>4. [ScreensNext]_<<at, vars, execScreen, trackScreen>> => [Tracking!Next]_(Tracking!vars)
  BY DEF trackScreen, Tracking!vars
<1>5. ScreensSpec => Spec /\ Exec!Spec /\ Tracking!Spec
  BY <1>1, <1>2, <1>3, <1>4, PTL DEF ScreensSpec, Spec, Exec!Spec, Tracking!Spec
<1> QED
  BY <1>5, ViewportHoldsCursor, WalletExists, OneRunAtATime, EventsInOrder, PollingGoesOn, PTL
=============================================================================
