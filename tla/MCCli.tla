-------------------------------- MODULE MCCli --------------------------------
(* The commands of the CLI, one module each, run by run of one of them:    *)
(* `command` says which, and the others rest in one state.                 *)
EXTENDS SendNext, ConfigFile, TxPipe, RestContract

CONSTANTS
  ApproveAmounts,          \* SendCore
  MaxErrors,               \* TransferWatch
  Humans, Places, Fees,    \* BothQuote
  p1, p2, p3               \* processes of ConfigFile

VARIABLES
  command,
  coreFamily, corePool, coreMined, coreNonce, coreAllowance, coreRivals,  \* SendCore
  corePc, coreRun, coreOpts, ownSpender, bridgeNonce, approveNonce, consented,
  checked, coreVerdict,
  api, watch, status, watchPc, answer, late, errors, watchVerdict,  \* TransferWatch
  typed, decimals, quotePc, res, base, channel, winner              \* BothQuote

(* The variables of each part; those of SendNext are vars, of ConfigFile   *)
(* configVars, of TxPipe pipeVars, of RestContract contractVars.           *)
corePart == <<coreFamily, corePool, coreMined, coreNonce, coreAllowance, coreRivals,
              corePc, coreRun, coreOpts, ownSpender, bridgeNonce, approveNonce,
              consented, checked, coreVerdict>>

watchPart == <<api, watch, status, watchPc, answer, late, errors, watchVerdict>>

quotePart == <<typed, decimals, quotePc, res, base, channel, winner>>

Core == INSTANCE SendCore WITH
  family <- coreFamily, pool <- corePool, mined <- coreMined, nonce <- coreNonce,
  allowance <- coreAllowance, rivals <- coreRivals,
  pc <- corePc, run <- coreRun, opts <- coreOpts, verdict <- coreVerdict

Watching == INSTANCE TransferWatch WITH pc <- watchPc, verdict <- watchVerdict

Quoting == INSTANCE BothQuote WITH pc <- quotePc

ASSUME CliConstants ==
  /\ Core!ApproveAmountsConstant /\ Watching!WatchConstant
  /\ Quoting!BothQuoteConstants /\ ContractConstant

(* The amounts typed: 2, 10.5, 0, 0.075 and .005. *)
MCHumans ==
  {[int |-> <<2>>, frac |-> <<>>], [int |-> <<1, 0>>, frac |-> <<5>>],
   [int |-> <<0>>, frac |-> <<>>], [int |-> <<0>>, frac |-> <<0, 7, 5>>],
   [int |-> <<>>, frac |-> <<0, 0, 5>>]}

MCDefaults == [k \in Keys |-> "default"]

-----------------------------------------------------------------------------

CliCommandNames == {"next", "core", "watch", "quote", "config", "rest", "pipe"}

(* A watch and a quote that are over: nothing of theirs is owed.           *)
WatchRests ==
  /\ api = "core" /\ watch = FALSE
  /\ status = "unknown" /\ answer = "unknown"
  /\ watchPc = "ended" /\ watchVerdict = "open"
  /\ late = TRUE
  /\ errors = 0

QuoteRests ==
  /\ typed = [int |-> <<2>>, frac |-> <<>>]
  /\ decimals = [source |-> 1, destination |-> 1]
  /\ quotePc = [core |-> "ended", next |-> "ended", main |-> "failed"]
  /\ res = [s \in {"core", "next"} |-> [err |-> TRUE, fees |-> {}]]
  /\ base = <<>>
  /\ channel = [s \in {"core", "next"} |-> <<>>]
  /\ winner = "none"

CliInit ==
  /\ command \in CliCommandNames
  /\ Init /\ (command # "next" => family = "EVM" /\ nonce = 0 /\ allowance = 0)
  /\ Core!Init
  /\ command # "core" =>
       coreFamily = "EVM" /\ coreNonce = 0 /\ coreAllowance = 0 /\ ownSpender
  /\ IF command = "watch" THEN Watching!Init ELSE WatchRests
  /\ IF command = "quote" THEN Quoting!BothQuoteInit ELSE QuoteRests
  /\ ConfigInit /\ (command # "config" => file = Absent)
  /\ ContractInit
  /\ PipeInit /\ (command # "pipe" => source = "own")

SendNextRuns ==
  /\ command = "next" /\ Next
  /\ UNCHANGED <<command, corePart, watchPart, quotePart, configVars, contractVars, pipeVars>>

SendCoreRuns ==
  /\ command = "core" /\ Core!Next
  /\ UNCHANGED <<command, vars, watchPart, quotePart, configVars, contractVars, pipeVars>>

WatchRuns ==
  /\ command = "watch" /\ Watching!Next
  /\ UNCHANGED <<command, vars, corePart, quotePart, configVars, contractVars, pipeVars>>

QuoteRuns ==
  /\ command = "quote" /\ Quoting!BothQuoteNext
  /\ UNCHANGED <<command, vars, corePart, watchPart, configVars, contractVars, pipeVars>>

ConfigRuns ==
  /\ command = "config" /\ ConfigNext
  /\ UNCHANGED <<command, vars, corePart, watchPart, quotePart, contractVars, pipeVars>>

RestRuns ==
  /\ command = "rest" /\ ContractNext
  /\ UNCHANGED <<command, vars, corePart, watchPart, quotePart, configVars, pipeVars>>

PipeRuns ==
  /\ command = "pipe" /\ PipeNext
  /\ UNCHANGED <<command, vars, corePart, watchPart, quotePart, configVars, contractVars>>

CliNext ==
  \/ SendNextRuns \/ SendCoreRuns \/ WatchRuns \/ QuoteRuns
  \/ ConfigRuns \/ RestRuns \/ PipeRuns

cliVars == <<command, vars, corePart, watchPart, quotePart, configVars, contractVars, pipeVars>>

CliSpec ==
  /\ CliInit /\ [][CliNext]_cliVars
  /\ Fairness /\ Watching!Fairness /\ Quoting!QuoteFairness

(* The properties of the other modules, as those modules state them. *)
CoreKeepsPromise == Core!KeepsPromise

NothingSentUnasked == Core!NothingSentUnasked

LackHasACause == Core!LackHasACause

WatchSeesTheEnd == Watching!WatchSeesTheEnd

WatchEnds == Watching!WatchEnds

EitherSideMayFail == Quoting!EitherSideMayFail

QuoteReturns == Quoting!QuoteReturns

TypedIsAsked == Quoting!TypedIsAsked

WinnerDeliversMore == Quoting!WinnerDeliversMore
=============================================================================
