------------------------------- MODULE TuiSend -------------------------------
(***************************************************************************)
(* From the form to the transfer (cli/internal/cli/tui.go,                 *)
(* bridge_send_next.go): [Execute] asks for the passphrase, startExec hands *)
(* the pipeline what the form holds then, tokens by chain and symbol, and  *)
(* the pipeline resolves them, asks for a quote of its own and creates the *)
(* transfer.  Answers and Ctrl+A reach the model on every screen.          *)
(***************************************************************************)
EXTENDS TuiForm

CONSTANTS
  RefOf,    \* CHAIN:SYMBOL of each token
  Listing   \* the NEXT tokens in the order of the API

ASSUME SendConstants ==
  /\ CoreTokens \cup NextTokens \cup {NoToken} \subseteq DOMAIN RefOf
  /\ \A t \in NextTokens : \E i \in DOMAIN Listing : Listing[i] = t

VARIABLES
  exec,      \* "none", "ask", "run" or "ended"
  confirmed, \* what the form showed as [Execute] was pressed
  moved,     \* a quote answered, or Ctrl+A, while the passphrase was typed
  params,    \* what startExec gave the pipeline; tokens is what the form held
  sent       \* what the transfer was created with

sendVars == <<exec, confirmed, moved, params, sent>>

Nothing == [send |-> NoToken, recv |-> NoToken, amount |-> BadAmount, messenger |-> None]

NoParams == [from |-> "", to |-> "", amount |-> BadAmount, messenger |-> None,
             tokens |-> <<NoToken, NoToken>>]

SendInit ==
  /\ Init
  /\ exec = "none"
  /\ confirmed = Nothing
  /\ moved = FALSE
  /\ params = NoParams
  /\ sent = Nothing

-----------------------------------------------------------------------------

(* startExec: NEXT only. *)
StartExec ==
  IF api # "next"
  THEN exec' = "ended" /\ UNCHANGED params
  ELSE /\ exec' = "run"
       /\ params' = [from |-> RefOf[send], to |-> RefOf[recv],
                     amount |-> amount, messenger |-> messenger,
                     tokens |-> pair]

(* activateSendButton: with a passphrase at hand the pipeline starts. *)
Activate ==
  /\ Execute
  /\ confirmed' = [send |-> send, recv |-> recv, amount |-> amount, messenger |-> messenger]
  /\ moved' = FALSE
  /\ UNCHANGED sent
  /\ StartExec \/ (exec' = "ask" /\ UNCHANGED params)

EnterPassphrase ==
  /\ exec = "ask"
  /\ StartExec
  /\ UNCHANGED <<vars, confirmed, moved, sent>>

(* Esc, or [N]ew once there is a result. *)
LeaveExec ==
  /\ exec \in {"ask", "ended"}
  /\ ComeBack
  /\ exec = "ask" => UNCHANGED quoted
  /\ exec' = "none"
  /\ confirmed' = Nothing
  /\ moved' = FALSE
  /\ params' = NoParams
  /\ sent' = Nothing

(* resolveNextTokenRef: the first token of the reference, if there is one. *)
Resolved(ref) ==
  {Listing[i] : i \in {i \in DOMAIN Listing :
     RefOf[Listing[i]] = ref /\ \A j \in 1..(i - 1) : RefOf[Listing[j]] # ref}}

(* Seeded fault: the messenger is not passed on to the pipeline. *)
RoutesFirst(list) == {i \in DOMAIN list : i = 1}

(* pickNextRoute: the first of the messenger, or the first. *)
Routes(list) ==
  {i \in DOMAIN list :
     IF params.messenger = None THEN i = 1
     ELSE /\ list[i].messenger = params.messenger
          /\ \A j \in 1..(i - 1) : list[j].messenger # params.messenger}

(* executeNextBridgeSend, up to /tx/create: a new quote, or a failure. *)
Pipeline ==
  /\ exec = "run"
  /\ exec' = "ended"
  /\ \/ UNCHANGED sent
     \/ \E src \in Resolved(params.from), dst \in Resolved(params.to) :
          \E list \in NextQuotes : \E i \in Routes(list) :
            sent' = [send |-> src, recv |-> dst, amount |-> params.amount,
                     messenger |-> list[i].messenger]
  /\ UNCHANGED <<vars, confirmed, moved, params>>

(* Everything else the form does, on whatever screen. *)
OnFormScreen ==
  \/ \E k \in DOMAIN JumpKeys : Jump(k)
  \/ EditAmount \/ EditRecipient \/ MoveOn \/ AskQuote \/ OpenPicker \/ PickToken
  \/ PickWallet \/ ClosePicker \/ CycleMessenger \/ CycleFee

Meanwhile ==
  /\ CtrlA \/ Answer
  /\ moved' = (moved \/ (exec = "ask" /\ choice' # choice))

SendNext ==
  \/ Activate \/ EnterPassphrase \/ LeaveExec \/ Pipeline
  \/ OnFormScreen /\ UNCHANGED sendVars
  \/ Meanwhile /\ UNCHANGED <<exec, confirmed, params, sent>>

SendSpec == SendInit /\ [][SendNext]_<<vars, sendVars>>

-----------------------------------------------------------------------------

(* The transfer is of the amount the form showed as [Execute] was pressed, *)
(* and through its messenger unless an answer or Ctrl+A has changed that   *)
(* while the passphrase was typed (tui.go:880-893).                        *)
SentAsConfirmed ==
  sent # Nothing =>
    /\ sent.amount = confirmed.amount
    /\ ~moved => sent.messenger = confirmed.messenger

(* The transfer is of the tokens the form held: it keeps them by ID, as    *)
(* some chains expose a symbol under several IDs (tui.go:365-367).         *)
SentTokensAreHeld == sent # Nothing => <<sent.send, sent.recv>> = params.tokens
=============================================================================
