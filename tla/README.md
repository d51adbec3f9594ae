# Verification of Allbridge Core REST API and CLI

TLA+ models of this repository's two programs, TLC runs that check them on small
instances, and TLAPS proofs of what matters most: the keystore, `bridge send` over
either API, the configuration file, the transaction pipeline, the comparison of quotes,
the form and the screens of the terminal UI, and the lookups, the quotes and the Solana
fee payer replacement of the REST API. Paths are relative to the repository; line
numbers are of this commit.

## 1. Inventory

The repository holds two programs.

**`rest-api/`** (NestJS, TypeScript) wraps the Allbridge Core SDK. It keeps
almost no state: a request is validated, turned into SDK calls and answered. What
is hard there is what lies between two awaits of one request, and the one cache.

**`cli/`** (Go) is the `allbridge` command: a client of the Core REST API and of
the NEXT API that keeps wallets, signs and broadcasts transactions, and has a
terminal UI (TUI). Nearly all the state, concurrency and failure handling of the
repository is here, so the models start here.

| Component | State | Operations | Interacts with |
|---|---|---|---|
| wallet keystore (`cli/internal/wallet/keystore.go`, `cli/wallet.go`) | `keystore.json`, `.tmp`, the `Store` in memory | Load, Save, Add, Remove, SetDefault | every command that signs; other processes through the files |
| send over NEXT (`bridge_send_next*.go`, `progress.go`) | the phase of the run, the account on chain | quote, /tx/create, allowance, approve, wait, build, sign, broadcast | NEXT API, node, Progress callback (terminal or TUI) |
| send over Core (`bridge_send.go`) | as above, plus flags and prompts | preflight, /raw/bridge, confirm, unlock, approve flow, sign, broadcast | REST API, node, user |
| broadcast (`internal/broadcast`) | none | Broadcast, WaitForReceipt | node |
| signing (`internal/sign`) | none | Sign per family | raw transactions of either API |
| TUI form (`tui.go`) | selection, tokens, quotes, requests in flight | keys, Ctrl+A, answers | both APIs, by asynchronous commands |
| TUI execution (`tui.go`) | mode, events shown, channel, goroutine | Execute, events, result, leave | the NEXT send pipeline |
| TUI tracking (`tui.go`) | status, ticks and requests in flight | T, Esc, N, tick, answer | NEXT API |
| TUI pickers (`tui.go`) | cursor, offset, filter | keys, lists that change | form |
| transfer status (`transfers.go`) | last answer, deadline | poll, wait, time out | both APIs |
| quote comparison (`bridge_next.go`) | two goroutines, two channels, two results | ask, send the result however it ends, receive, render, pick a winner | both APIs |
| amounts and token references (`tui.go`, `tokens.go`) | none | human to base units and back, CHAIN:SYMBOL or ID to a token | every command that sends or quotes |
| CLI configuration (`internal/config`, `cli/config.go`) | `config.yaml`, a cached copy | load once, save in place, set | every command; other processes through the file |
| transaction pipeline (`tx.go`, `tx_sign.go`, `wallet.go`) | three processes, two pipes, a passphrase | build, sign, broadcast | REST API, each other, node |
| requests (`cli/*.go`, `internal/api/client.go`, `api/gen`) | the steps of a command, its exit code | each command's requests; one builder per endpoint in the typed client | REST API |
| REST controllers (`controller/`, `utils/validation.ts`, `error/errors.ts`) | the request being handled | look up tokens, check, call, answer 200, 400 or 500 | services |
| SDK service (`sdk.service.ts`) | `_chainDetailsMap` per type | token and chain lookup, allowance guards, raw transactions | SDK |
| bridge quote service (`bridge-quote.service.ts`) | the options built so far | options over messengers and fee methods | SDK service |
| Solana fee payer replacement (`utils/solana.ts`) | the message being rebuilt | load lookup tables, rebuild the instructions | Solana node |
| REST configuration, request context | environment, AsyncLocalStorage | parse, read headers | all of the REST service |

What is hard here:

- **Crashes and processes.** The keystore is replaced by write, rename and, where
  a rename does not replace, remove and rename; nothing locks it between
  processes.
- **Money in doubt.** A node may accept a transaction whose answer is lost; a
  wait may time out and the approval be mined later; another program may use the
  account's nonces and allowance; users repeat what failed.
- **Asynchrony.** The TUI handles one message at a time, but token lists, quotes,
  progress events, results, ticks and statuses arrive in any order and after the
  screen has moved on.
- **Blocking.** A pipeline that writes to a bounded channel blocks if no command
  reads it.
- **Awaits.** A REST handler looks its tokens up in lists that change between the
  requests of one lookup, and a quote asks for amounts, one by one, any of which
  may fail.
- **Two descriptions of one API.** The controllers, the typed client and the commands
  each name paths and parameters by hand or from a snapshot; nothing compiles them
  against each other.
- **Units.** An amount is typed in human units, sent in base units to one API and as
  typed to the other, and two answers in different units are compared.
- **Screens apart.** What the form shows, what the user confirms, and what the pipeline
  resolves again and sends are three states, with asynchronous answers in between.
- **Shared standard input.** A passphrase and a transaction on one stream.
- **Edges.** Cursor and viewport of lists that are empty or shrink.

What makes each component correct is in section 3, next to the run that checks it;
`PROJECT.json` lists the hazards by line.

## 2. Modules

| Module | Models | State ↔ code |
|---|---|---|
| `KeystoreOps` | `Add`, `Remove`, `SetDefault` on a `Store` | a store is its set of names and its default; encryption is left out |
| `Keystore` | Load, Save and the wallet commands, by processes that crash | `path`, `tmp`: what the two names resolve to; `content`: what each inode holds; `mem`, `fd`, `pc`: a process; `replaces`: the file system; `kept`, `overwritten` are history variables |
| `KeystoreAbs` | what a keystore promises: one command, one atomic step | `store` |
| `SourceChain` | *external*: the sender's account and its node | `pool`, `mined`, `nonce`, `allowance`; `Rival` is another program using the account |
| `Transfer` | what `bridge send` promises, on either API | `approval`, `bridge`, `verdict` of a run |
| `SendNext` | `executeNextBridgeSend`, EVM, Tron and Solana | `pc` is the next call; `log` the Progress events; `careful` is a history variable |
| `SendCore` | `newBridgeSendCmd`, `runPreflight`, `runApproveFlow`, `confirmSend` | `pc`, flags, the nonces of the two transactions, `checked`; `ownSpender`: the messenger spends by the contract the allowance check reads |
| `TransferWatch` | `transfers status --watch`, `--progress` | `pc`, last `answer`, `late` |
| `Amounts` | `validHumanAmount`, `humanToBase`, `baseToHuman` | digit strings as sequences of digits |
| `BothQuote` | `runBothQuote` and `pickWinner` | `pc` of the two goroutines and of the command; `channel`: `coreCh`, `nextCh`; `base`: what NEXT was asked for |
| `ConfigFile` | `Load`, `Save`, `config set` and the commands that read, by processes that die | `file`: what it parses as; `process`: cached copy and what its calls of Load returned |
| `TxPipe` | `tx build`, `tx sign` and `tx broadcast` in a shell pipeline | `pipes`, what each process has read, its exit code |
| `RestForms` | the parameters each REST handler requires and reads | a set of forms, one of each path |
| `TypedClient` | the request builder of each endpoint of `openapi.gen.go` | always and optionally carried parameters |
| `CliCommands` | each command that asks the Core API, as the steps of its function | checks, wallet lookups, requests, chain calls |
| `RestContract` | both clients against `RestForms` and `requireQueryParam` | `steps`, `filled`, `blank`, `reply`, `exit` |
| `TuiForm` | the form of `tuiModel` and its requests | `asked` is the set of requests in flight |
| `TuiSend` | [Execute], the passphrase, `startExec`, and the pipeline up to /tx/create | `confirmed`: what the form showed; `params`: what the pipeline was given; `sent` |
| `TuiExec` | the execution screen: pipeline goroutine, channel, await commands | `channel`, `waiting`, `mail`: what Bubble Tea has yet to deliver |
| `TuiTrack` | `T`, the tick chain, status answers | `ticks`, `polls`, `answers`: what is under way; `ended` is a history variable |
| `TuiPicker` | the two pickers | `cursor`, `offset`, length of the list |
| `RestPlans` | every handler of the four controllers but `/chains`, each as the plan its body follows | a record: lookups, order of checks, what a failure of each call comes to |
| `BridgeQuote` | `getQuote` | `qpc`: the next await; `todo`, `methods`: the two loops; `payment`, `options` |
| `ChainDetails` | `/chains` and the map it keeps | `cache`, and where each request is |
| `RestServer` | a request following its plan, composed with the two above | `h`; `lists` is what the API lists now |
| `SponsorWrap` | `sponsorWrapRawTx` | `msg`: the counts of a message; `signers`, `writable`: the accounts rebuilt as such |
| `MCCli`, `MCTuiScreens`, `MCTuiForm`, `MCKeystore`, `MCRestServer` | constants for TLC; the first two also put parts side by side | |
| `…Proofs` | the theorems of section 4 | |

Composition. `SendNext` and `SendCore` EXTEND `SourceChain` and refine `Transfer`.
`Keystore` refines `KeystoreAbs`. `TuiSend` EXTENDS `TuiForm`: the form goes on
taking answers while the passphrase is asked for. `RestContract` EXTENDS `CliCommands`,
which EXTENDS `TypedClient` and `RestForms`. `RestServer` EXTENDS `RestPlans`,
`BridgeQuote` and `ChainDetails`; handlers share no state but the cache, which only
`/chains` uses, so it serves either any number of requests for `/chains` or one other
at a time. `TuiExec` and `SendNext` meet at the Progress events: the first takes an
event as a number in its run, the second says which events a run emits.

`MCCli` puts the commands of the CLI next to each other, as the binary does: it
EXTENDS `SendNext`, `ConfigFile`, `TxPipe` and `RestContract`, instantiates `SendCore`,
`TransferWatch` and `BothQuote`, and starts in any one of the seven.
Commands are processes of their own that share only the keystore, the configuration
and the account, whose interleavings `Keystore`, `ConfigFile` and `SourceChain` have
inside them; so a behaviour stays in one command and the others rest. `MCTuiScreens`
does the same for three screens of the TUI that share no variable. What such a
module assumes of its constants it names (`SendCore!ApproveAmountsConstant`, …), and
the MC module assumes those.

Abstractions common to all: an HTTP or RPC call succeeds, fails, or succeeds with
its answer lost, where a transaction is sent; an amount is counted in transfers (the
allowance covers so many), except where its digits are the point (`Amounts`,
`BothQuote`); tokens, names and messengers are model values; wording and layout are
left out. A definition whose comment begins "Seeded
fault" is a wrong variant of the one that follows it: a plausible bug, used to
confirm that the properties notice it, and part of no specification.

## 3. Runs

| Run | Shows | Bounds |
|---|---|---|
| `keystore_single` | with one writer at a time, crashing anywhere, on both file systems: stores stay well formed, the live file whole. Where rename replaces, every command takes effect at once or not at all and added wallets stay in the live file (`KeptOnDisk`, `AtomicStore`); where it does not, they stay in one of the two files until a Save truncates the temporary one with no live one there (`KeptInSomeFile`) | names `a`, `b` and the empty one, 3 inodes, 4 commands, 2 aborts, a writer and a reader |
| `keystore_race` | counterexample, section 5 | 2 writers on POSIX, 2 names, 2 commands, no aborts |
| `cli_commands` | every property of the CLI's commands, and the refinements of `Transfer` over both APIs | sends: 2 runs, 1 rival transaction, the three families, `--approve-amount` empty or below the transfer, a messenger whose contract the check reads or not; watch: 1 error; quotes: amounts 2, 10.5, 0, 0.075 and .005, tokens of 1 or 2 decimals, fees of 0, 1 and 3 tenths; configuration: 3 processes, 1 of which sets, 2 keys, of which `network` is `omitempty`, 3 values, one of them blank, 4 commands; pipeline: transactions of up to 3 lines |
| `cli_misfits`, `cli_winner`, `cli_pipe` | counterexamples, section 5 | as above; `cli_misfits` adds the commands of `Misfits` |
| `tuiform_form` | tokens, quote and loading on the screen belong together in all orders of answers, and what is sent is what was confirmed | 2 toggles, 2 quotes, 1 edit, 2 tokens per API; 3 Core quotes, one of them of an option without fee methods |
| `tuiform_token` | counterexample, section 5 | as above, with a third NEXT token that shares its symbol and chain with another |
| `tuiscreens_screens` | cursor and viewport; running means running, events in order and complete, runs end; polling goes on to the end of its own transfer and dies when left | 3 rows, lists up to 8, 5 wallets; 2 runs of 3 events, channel of 1; 2 transfers, 2 presses of T, 1 error |
| `restserver_requests` | a listed token is found, the figures of a payment are of one amount, a kept map settles | an amount of 2, fees of 1 and 2, 2 messengers; 4 tokens on 2 chains, 2 changes of the lists; 3 requests for `/chains`, 3 versions |
| `tuipicker_empty`, `sponsorwrap_flags` | counterexamples, section 5 | list of 1 / up to 3 of each kind of key |

Why the bounds are enough. Two runs of a send show everything one run can do to
the next through pool, nonce and allowance; a rival transaction may be anything
another program does to the account. The amounts have a fraction that fits the
decimals, one too long for them, one without integer digits, and none that is
positive; with a fee of 3 tenths the sides' order changes with the units. Three
processes are a setter and two readers it overlaps with; two keys let one set lose or
keep what another has set, and the blank is a value that `network` cannot hold. An
approval below the transfer is the shortest there is; one of two transfers was checked
as well and adds nothing but states. Two aborts are a crash in the window between remove
and rename and another in the commands that follow it. A transaction of three lines can be cut before, between and
after a line. Every request of every command and of every typed builder is sent, with
every subset of its plain fields left blank. The channel of 1 makes the pipeline block
earlier than the code's 32, and a run of 3 events fills it with events both in
the channel and in the mail. Three inodes are a live file, a temporary file and one
being created. Two quotes and two toggles let an answer of each API arrive for
each selection it no longer fits, on the form and while the passphrase is typed. Lists
longer than two viewports show every relation of cursor, offset and end. A fee of 1
leaves something of the amount of 2 and one of 2 leaves nothing; messengers are quoted
one after the other and hand nothing on, so that two of the six, in every choice, show
the loop. A lookup makes at most three requests, between which lists change twice.
Three requests for `/chains` are one that fills the cache, one overtaken, and one that
comes later.

`CHECK_DEADLOCK FALSE` is set wherever the system may stop: commands end, users stop
typing, and the bounds stop them. No run uses `SYMMETRY`.

### What each property is for

Keystore and configuration

- `KeptOnDisk`: across crashes and failures, a wallet whose `wallet add` printed
  success is in the live file until its removal is asked for, where rename replaces.
  Two writers are outside the run and lose wallets (section 5).
- `KeptInSomeFile` is what remains of it where `Save` removes the live file before it
  renames: through crashes too, the wallets are in the live or in the temporary file. It
  holds up to the point where the code gives them up, and says where that is: a command
  that starts after a crash in the window finds no live file, takes an empty store, and
  its Save truncates the temporary one (`overwritten`).
- `AtomicStore`: the live store changes only as one whole command does.
  `LiveFileWhole`: no crash leaves half a file. `StoreWellFormed`: no order of
  commands, with any names, the empty one included, leaves a store with wallets and a
  default that is none of them. (The default may be the empty name; section 5.)
- `PosixNeverRetries` is the comment at `keystore.go:173`. With one writer it is proved;
  with two it is violated.
- `SettingsKept`: what `config set` reports is what the next process reads, with one
  set at a time and no write cut short; of a blank `api.timeout` or `network`, which
  Save omits, it reads the default. All three conditions are the code's (section 5).
  Other keys must survive the omission, the cached copy that differs from the file, and
  loads at any moment. `OneSnapshot`: all reads of one process
  agree, whatever is written meanwhile.

Sending

- `ApprovalMinedFirst`, `NonceRefusalNeedsRival` (NEXT on EVM): the transfer goes out
  only after its approval is mined; so that the node refuses a nonce only when another
  program uses the account.
- `FailedBeforeBroadcastSentNothing`, `AtMostOneBridge`: a failure that does not
  end in "broadcast failed" has sent nothing, so that a user who repeats only such
  failures sends one transfer.
- `EventsTellTheRun`: one phase at a time is shown as running, nothing follows a
  failure, and success leaves nothing running. `RunsReturn`: every run ends.
- `KeepsPromise` (NEXT) and `CoreKeepsPromise`: the refinement of `Transfer`. Tron over
  NEXT refines it with `waits = FALSE`: it does not wait for its approval.
- `NothingSentUnasked` (Core): no transaction, the approval included, before the user
  has confirmed and unlocked the key.
- `LackHasACause` (Core): a transfer that the preflight or the approve flow has let
  through fails on chain for want of allowance for four reasons only. The check read
  the allowance of another contract than the messenger's; an approval was of less than
  the transfer, which `--approve-amount` may say; another program used the account; or
  another run spent the allowance. No order of waits, timeouts, lost answers and
  approvals mined late is a reason by itself. The runs of a behaviour repeat one
  transfer with one messenger.
- `PipelineHonest`: a pipeline of `tx` commands that exits 0 has broadcast the whole
  transaction: no stage failed unseen, and nothing was cut off on the way. The shell
  reports only the last exit code, so this rests on what each stage does with
  truncated or empty input.
- `WatchSeesTheEnd`, `WatchEnds`: a watch ends at a final status, a failed request or
  its deadline, and it does end.

Quotes and requests

- `EitherSideMayFail`, `QuoteReturns`: wherever either goroutine fails, the other's
  quote is still rendered, nothing blocks on a channel nobody writes, and only two
  quotes are compared.
- `TypedIsAsked`: NEXT is asked for the amount typed, short of less than one base
  unit, and `baseToHuman` reads it back so: the two conversions against the numbers
  their strings stand for.
- `RequestsFit`: a request is refused for a missing parameter only if its user left
  one blank, and no client sends a parameter its handler ignores. It relates three
  independent lists: of the controllers, the generated client and the commands. For the
  commands of `Misfits` it fails (section 5).

Terminal UI

- `QuoteMatchesSelection`, `SelectionIsOffered`: the quote on the screen is for
  the amount and tokens shown beside it, except one that was overtaken in flight
  by a change, which the code lets in (`late` in the model); messenger, fee
  method and route index are of the quote.
- `LoadingIsAsked`: "loading" has an answer on its way that ends it.
- `SentAsConfirmed`: the amount created is the one shown as [Execute] was pressed, and
  so is the messenger, unless an answer or Ctrl+A changed it while the passphrase was
  typed (`moved`; section 5).
- `RunningIsTrue`, `PhasesInOrder`, `AllPhasesShown`, `RunningEnds`: the execution
  screen. Bubble Tea orders no two messages; order comes from awaiting one event at a
  time. The exception is a run that starts while events of an earlier one are on their
  way (`overlapped`): they carry no run, and are applied to the new one.
- `PollsUntilItsOwnEnd`: answers carry no transfer, so one of an earlier transfer is
  taken for the one tracked. Whatever it says, the polling goes on until the final
  status of the transfer tracked has itself come in. `FinalIsShown`: a user who stays
  gets to see it. `LeavingStopsPolling`: once the screen is left, polling dies out.
- `CursorInViewport`, `WalletUnderCursor`: what Enter would take is on the screen.

REST

- `TokenNotMissed`: a lookup over several lists, fetched one after the other,
  misses no token that stayed on one of them throughout. A token that moves from a
  list not yet fetched to one already fetched can be missed.
- `QuoteIsOneAmount`: amount received, LP fee and transfer fee of a payment are
  those of one amount, what is left when the fee beside them is paid; it is
  computed in three places, with awaits in between. The model says which amount
  the SDK is asked about, not what it answers; rounding is left out.
- `KeptMapsSettle`: a kept map of chain details changes only by a request that
  found none kept. An older answer may replace a newer one; then the older one
  stays.

`RowsExist`, `FlagsKept`, `RequestsFit` with the misfits, `WinnerDeliversMore`,
`PipedTxIsSigned`, `PosixNeverRetries` and `SentTokensAreHeld` are violated: section 5.

### Fairness

- `SendNext`: weak fairness of the run's next call. HTTP clients have a timeout of
  30 s and the wait for a receipt a deadline. TronGrid's default client and
  `ethclient` have none; for them it is an assumption, that the network answers or
  breaks the connection.
- `TuiExec`: goroutines are scheduled (`Pipeline`), and Bubble Tea runs commands
  and delivers their messages (`Deliver`). The user owes nothing.
- `TuiTrack`: timers fire, requests end, each answer is delivered. The transfer
  itself need not advance.
- `TransferWatch`: the command goes on, time passes. The transfer need not
  advance.
- `BothQuote`: the goroutines and the command keep running, and requests end, by the
  client's timeout if by nothing else. Neither side need succeed.

`CliSpec` and `ScreensSpec` conjoin the fairness of their parts; a part that rests has
no step enabled, so that its fairness asks nothing. The configuration, the pipeline
and the form have safety properties only.

## 4. Proofs

Assumptions: only the named ASSUMEs of the modules, and hypotheses in the theorems.
Each invariant was first checked by TLC.

`KeystoreProofs`

- `TypeCorrect`, `StoresStayWellFormed`: any number of processes, names, inodes,
  commands, on both file systems, the empty name included. The default of a store with
  entries is one of them; `Add`, `Remove` and `SetDefault` keep that, so it is inductive over
  stores in memory and on disk.
- `LiveFileStaysWhole`: with one writer at a time, on both file systems. `FileInv`
  strengthens it: the two names are different files, a descriptor is open only on
  the temporary file, by the writer between open and write, and the file that a
  writer is about to rename is whole and holds its store. Without the last two
  the rename could install an unwritten file.
- `AddedWalletsStay`: with one writer on POSIX, across any crashes; adds that the
  writer's store is the live store with its command applied, from load to rename
  (`PosixInv`). The same invariant gives `PosixNeverRetries` and that no load fails.
- `AddedWalletsStayInAFile`: with one writer, any number of crashes, on both file
  systems. `WindowInv`: while there is a live file it holds what is kept; without one
  the temporary file does, whether its writer still runs or has died, until a Save
  opens it. What a writer is about to rename in the window holds it too.
- `KeystoreIsAtomic`: the refinement of `KeystoreAbs`; every step maps to a command
  on the live store, at the rename, or to a stutter.

`SourceChainProofs`: lemmas on `Submit` and `ChainStep`. The pool is finite and, of an
EVM account, its nonces are below `PendingNonce` (`PoolInv`), so that a submission
counts exactly once; runs' transactions are never removed; each has one receipt
(`ReceiptInv`).

`SendNextProofs`, for any number of runs and rivals and any set of families

- `TypeCorrect`, `RefusalNeedsRival`: `NonceInv` ties the nonce a run is about to use
  to `PendingNonce` as long as no rival has sent.
- `ApprovalComesFirst`, `FailureSentNothing`, `OneBridge`: `FlowInv` says where a run
  can be, `SentInv` which transactions a run has sent when: none before its broadcast,
  none twice, none of runs to come, and past the wait the approval has its receipt.
- `EventsAreTrue`: `LogInv` says at each `pc` which phase is open, and `Story` what that
  means of the log: a phase's last event says `running` exactly if it is open. That a
  phase with events has a last one is part of `Story`, kept as events are appended.
- `RunsAreShort`: the safety half of `RunsReturn`. Each call lowers the number of calls
  left, from ten, and only a new run raises it; by then the run has emitted sixteen
  events at most (`ShortInv`).
- `KeepsThePromise`: the refinement of `Transfer`. A submission is its `Approve`,
  `Bridge` or `Fail`, a block that mines the run's approval is its `Settle`, all else
  but the start and the end of a run stutters. `ReceiptInv` is needed for `Settle`.

`SendCoreProofs`, also for any amounts of `--approve-amount`

- `CoreTypeCorrect`, `NothingIsSentUnasked`: as above, with consent in `SentInv`.
- `LackAlwaysHasACause`: `AllowInv` says that what a run has learnt (that the contract
  its messenger spends by has a sufficient allowance, or that its own approval is mined)
  stays true until its own transfer is mined, as long as the run is alone on the account
  and every approval is of a whole transfer. It covers approvals of earlier runs that
  are mined late: an approval sets the allowance, and so might lower it.
- `CoreKeepsThePromise`: the refinement, with `waits = TRUE`.

`CliProofs`, about the other commands and all of them together

- `OneSnapshotAlways`, for any processes and keys (`SeenInv`: what a process has seen
  is what it has cached), and `SettingsKeptAlways`, under the hypothesis `OneSetter`.
  `SavedInv`: with one setter only a `config set` gets as far as writing, and what it
  has loaded is what was saved last, read back as the file gives it. Two setters are a
  counterexample.
- `PipelineStaysHonest`, for transactions of any length. `PipeInv`: what is in a pipe
  or has been read is a rest of the numbered lines that were built, and a rest that
  begins with the first line is the whole, which is what lets `tx sign`'s decoder
  notice a cut. `TxIsSignedWithoutLine`: the counterexample `cli_pipe` needs a
  passphrase line.
- `WatchIsTrue`, for any number of errors. `EndInv`: the only answer that ends a watch
  without an error is one that says the transfer is done, and none is asked after it.
- `EitherSideIsEnough`, for any amounts. `QuoteInv`: a result is on its channel, or has
  been read, only once its goroutine has ended, and a side sends one result; so what
  the command has read is what that side ended with, and nothing is left unread.
- `QuoteRunsOut`: the safety half of `QuoteReturns`. Every step lowers a measure of at
  most 15, and the command never waits for a goroutine that has ended and left its
  channel empty (`SentInTime`).
- `NextIsAskedForTheAmount`, for digit strings of any length and tokens of one decimal or more.
  `AskedInv` ties the base amount to the amount typed; the rest is what the two
  conversions do to the numbers their strings stand for. `Number` is a recursive
  function on prefixes, so that what padding, cutting and stripping zeros do to it is
  proved by induction on the prefix. The induction theorems of the library take an
  operator; `UpTo`, which these inductions use, applies the well-foundedness of the
  naturals to the set of counterexamples instead. `AmountsAreExact`: `baseToHuman`
  loses nothing, and `humanToBase` nothing of an amount that has no more decimals than
  its token.
- `RequestsAlwaysFit`, under the hypothesis `WithMisfits = FALSE`: of every builder of the
  typed client, and of every command but the misfits, that what it carries is what the
  form of its path requires and reads; then that the steps of a command keep to it,
  whatever is left blank.
- `CoreSendsNothingUnasked`, `CoreLackHasACause`, `CoreKeepsItsPromise`: the
  theorems of `SendCoreProofs` for `SendCore` as `MCCli` instantiates it.
- `CommandsKeepTheirWord`: `CliSpec`, the specification of the run `cli_commands`, has
  the fourteen invariants and both refinements, under the hypotheses of the above. A
  behaviour of all the commands is one of each, in which the others rest.

`TuiScreensProofs`, for every list, viewport, channel and number of runs and transfers

- `ViewportHoldsCursor`, `WalletExists`: of the pickers.
- `RowsExistUnlessPagedDownOnNothing`: in a behaviour without a page down on an empty
  list every row drawn exists (`OnList`). Together with the counterexample
  `tuipicker_empty` it delimits the fault.
- `OneRunAtATime`: `RunningInv`. The form is on the screen only when nothing runs, so
  that what works, or has mailed its result, is the run the screen is of.
- `EventsInOrder`: `OrderInv`. Each event of the run is on the screen, in the mail, in
  the channel or about to be sent, in this order and without a gap, and at most one is
  in the mail, since the next is awaited only when the last has been shown. It holds of
  a run that began with nothing of an earlier one under way.
- `NoEventIsStranded`: the safety half of `AllPhasesShown`. Until its channel is closed
  and drained someone has or awaits the run's next event (`FetchInv`).
- `PipelineWaitsForNoScreen`, under the hypothesis that the channel has room for a run's
  events: the pipeline is never blocked on it, whatever the screen does (`RoomInv`). With
  `RunsAreShort` the hypothesis is the code's: 16 events, and a channel of 32.
- `PollingGoesOn`: `PollsUntilItsOwnEnd`, the safety half of `FinalIsShown`, with answers
  of any earlier transfers under way.
- `ScreensKeepTheirWord`: `ScreensSpec`, the specification of the run
  `tuiscreens_screens`, has the five invariants.

`TuiFormProofs`, for any tokens, quotes and amounts, and any bounds on the keys

- `SelectedIsOffered`: inductive with the types (`FormTypes`: the routes are a list of
  the API in use); an option without fee methods keeps the fee of the one before, which
  is why the property asks for a fee only where there is one.
- `QuoteIsOfSelection`: `AskedInv` says that a request for a quote that nothing has
  overtaken is of what the form holds now. An answer is told apart by its API only, so
  the property does not hold of a quote that was overtaken.
- `LoadingWillEnd`: for any number of toggles.
- `SentIsConfirmed`: `SendInv` says what the run was given, by how far it is; on the
  execution screen the form takes answers and Ctrl+A only.
- `SentIsHeldWithoutTwins`: if no token of the NEXT listing shares its reference with
  another, the transfer is of the tokens held. Together with the counterexample
  `tuiform_token` it delimits the fault.

`RestProofs`

- `NoTokenIsMissed`, for every handler, any tokens and lists and any number of changes.
  `PlansLookUp` says what the plans look up: nothing, one token or a pair.
  `ReadsLeft`, in `LookInv`: the lists that a search has read lacked the token since it
  began; what was on the list all along is what `steady` says.
- `MapsSettle`, for any number of requests. `ReaderInv`: who asks the API has found
  nothing kept, and an answer is a map.
- `QuotesAreOfOneAmount`, for any amounts, fees and messengers. `QuoteInv`: what each
  call about a payment was asked for is what the calls before it were, by how far the
  payment is; a finished payment is never touched.
- `FlagsKeptExactly` says for which messages `flagsForIndex` agrees with the message
  format: those that look nothing up, or have no read-only account that does not sign.
  `FlagsKeptWithoutLookups` carries it to the wrapped transaction, by the invariant that
  ties its accounts to `flagsForIndex` (`WrappedInv`). Together with the counterexample
  they delimit the fault.

Every invariant, action property and refinement of the passing runs is a theorem. Left
to TLC is liveness under fairness (`AllPhasesShown`, `FinalIsShown`, `LeavingStopsPolling`,
`QuoteReturns`, `RunningEnds`, `RunsReturn`, `WatchEnds`), which needs ENABLED; the
properties that are violated are left to it by their nature.

## 5. Where code and documentation disagree

Seven are checked by runs:

- `keystore_race`: two writers share `.tmp`, so that the rename of one can find it gone
  on POSIX too; the retry then removes the live file, which the comment at
  `keystore.go:173` excludes.
- `tuipicker_empty`: page down on a filter that matches nothing moves the cursor
  and the viewport to -1, and the next render indexes the list there
  (`tui.go:1241`).
- `tuiform_token`: the form holds tokens by ID, because a symbol is not unique on a
  chain (`tui.go:366`), and `startExec` hands CHAIN:SYMBOL to the pipeline, which takes
  the first NEXT token of that name (`tui.go:884`).
- `cli_misfits`: `tx build approve` sends parameters that its handler does not know
  and leaves out one it requires (`tx.go:151`); so do claim, deposit and withdraw
  (`:233`, `:260`, `:289`), the trustline and opt-in commands (`stellar.go:40`, `:64`,
  `algorand.go:40`, `:64`) and `bridge calc` (`bridge.go:236`). Each ends with a 400 and
  exit code 2, whatever its flags.
- `cli_winner`: `pickWinner` compares an amount in base units with one in human units,
  and can name the API that delivers less (`bridge_next.go:221`).
- `cli_pipe`: a passphrase read from the standard input goes through a buffer that takes
  the transaction behind it (`wallet.go:406`).
- `sponsorwrap_flags`: replacing the fee payer of a transaction with lookup tables
  makes read-only accounts writable and writable ones read-only
  (`utils/solana.ts:84`): the header's count of read-only keys covers only the keys
  the message holds, and is taken off the end of all keys.

Others were met while modelling; each is a behaviour of the models here, with no
run of its own:

- Over NEXT on Tron the transfer does not wait for its approval
  (`bridge_send_next_trx.go:171`). The comment expects it to "fail loud"; it can fail
  on chain while the run reports success.
- Esc after a run keeps the quote and the focus on [Execute]; Enter sends the same
  transfer again (`tui.go:796`).
- Two writers of the keystore: both load, both save, and one wallet reported as
  created is lost (`wallet.go:120`). In `Keystore` take two `Writers` and `KeptOnDisk`.
- Where a rename does not replace, a crash after the remove leaves the wallets in `.tmp`
  alone. The next command finds no keystore, starts from an empty one, and its Save
  truncates `.tmp` (`keystore.go:117`, `:168`, `:176`): all wallets are lost. The retry
  also follows a first rename that failed for any other reason.
- `wallet add ""` is accepted (`wallet.go:101`, `keystore.go:211`). In an empty keystore
  it makes the entry "" the default, which `Get("")` then reports as no default
  (`keystore.go:197`).
- `config set network ""` and `config set api.timeout ""` report success, and the next
  process reads the default: `omitempty` on fields whose default is not empty
  (`config.go:17`, `:23`, `:43`, `:45`).
- `build` is reported as done after /tx/create and then as running again
  (`bridge_send_next_evm.go:106`); `progress.go:20` says that phases do not
  re-fire. A bad amount, a failed quote or a wrong passphrase returns with a phase
  still shown as running (`bridge_send_next.go:150`).
- Tron over NEXT approves without reading the allowance
  (`bridge_send_next_trx.go:148`); the help says "if allowance is insufficient".
- Core fetches the raw transaction before the approve flow (`bridge_send.go:222`):
  if it carries a nonce, the approval uses that nonce first, and the node refuses
  the transfer.
- An empty `--approve-amount` approves the bridge amount (`bridge_send.go:431`);
  the flag says "unlimited". Any other value is passed on, one below the transfer too
  (`:429`), which then fails on chain.
- The allowance queries of Core name no messenger (`bridge_send.go:406`, `:499`), while
  the approval and the transfer do (`:434`). Of a messenger with a contract of its own
  they can read another allowance than the transfer will use (`ownSpender`), and either
  skip an approval that is needed or refuse a transfer that is not short.
- Ctrl+A does not reset `quoting` and the answer is then dropped (`tui.go:557`):
  "quoting" stays. It keeps the tokens of the other API until the new list
  arrives (`tui.go:1042`), and answers are told apart by API only, so a quote from
  before two toggles is let in.
- Ctrl+4 to Ctrl+7 focus other fields than `tui_test.go:61` expects.
- [Execute] on a Core quote opens an execution screen that answers no key but the
  global ones (`tui.go:863`).
- T starts two polling chains (`tui.go:811`), so that one can go on after a
  final status. The final status of an earlier transfer that is answered late is shown
  as that of the one tracked (`:609`); if it comes after that one's own final status, it
  stays.
- While the passphrase is typed, a late quote answer or Ctrl+A still changes the form, so
  the run takes another messenger than was confirmed, or starts on NEXT with tokens of
  Core: `startExec` looks at the API only (`tui.go:880`; `moved` in `TuiSend`).
- The wallet picker opens with its viewport at 0 whatever its cursor
  (`tui.go:1069`).
- One failed request ends a watch (`transfers.go:100`, `:148`), and on Core so does
  a transfer not indexed yet. An unexpected NEXT status is waited on
  (`transfers.go:203`), where the comment at `:125` calls it terminal. A FAILED
  transfer is printed as "still in flight" (`transfers.go:229`).
- REST handlers that look tokens up outside their try, and those that return a
  promise without awaiting it (`/chains`, `/tokens`, `/yield/tokens`), answer 500 when
  the API fails; README.md:430 gives "Server misconfiguration" as the cause of a 500.
- A malformed `relayerFeeInStables` is a 500 (`transfers.controller.ts:566`); a malformed
  `minimumReceiveAmount` is taken for 0 (`:210`), which gives up the protection asked for.
- An unknown `feePaymentMethod` is native in the allowance routes (`:641`, `:672`) and an
  error in the approve routes.
- config.yaml is written in place, and `set` is a load and a save: two of them lose one,
  and a crash leaves half a file (`config.go:81`). The keystore has a temporary file for
  this.
- `runBothQuote` wraps every failure as one of the network, wrong flags included
  (`bridge_next.go:159`): exit code 2, where `root.go:59` promises 1 for the user's. With
  no route on either side it recommends Core, which delivers 0.
- `tx build swap` requires `--recipient`; its help says "defaults to sender" (`tx.go:216`).
- The example `tx broadcast --chain STLR --in signed.xdr` (`tx.go:34`) always fails: the
  command decodes the JSON of a `sign.Result` (`tx_sign.go:112`), and the signer of the
  example writes XDR.
- `balance` drops the failures of its requests and exits with 0.
- The spinner's `Stop` does not wait for its goroutine, which can write once more behind
  the final line (`render/spinner.go`).
- `src/cli/README.md:345` promises a compile-time error when the REST contract changes.
  That is true of the generated client; the commands use the hand-written one, whose
  parameters are strings.

## 6. Not modelled

Cryptography and serialization (`sign`, scrypt, AES-GCM): functions of one value, with
no state. HTTP itself, and the text of what is printed: rendering, help, completion,
the table of explorers. Of the generated client, the parsers of answers: the same
function once per endpoint. Of the commands, the variants of the list commands that ask
the NEXT API, and what is done with an answer beyond success and failure;
`resolveTokenRef` succeeds or fails, and `cmpDecimalStrings`, which orders fees for
display, is left out. Of the REST service: what the SDK does, values of answers, the
environment parsed at start, headers. Ctrl+C during a run is the end of a behaviour. The
polls of one `WaitForReceipt` are one action. The TUI's spinner is left out. Examples,
patches and CI are no part of the program. Tokens of 0 decimals and optional
flags left empty are outside the models.

Some properties except a case that the code does get wrong, named where they stand:
an overtaken quote (`late`), a form changed while the passphrase is typed (`moved`; the
tokens are compared in `tuiform_token` only), a run that starts among events of an
earlier one (`overlapped`). `LoadingIsAsked` is about token lists: of quotes it does
not hold, as section 5 says of "quoting".

Four hazards of `PROJECT.json` have no property, each with a note: the transfer repeated
after Esc (`tui.go:795`), an error of one messenger that ends a whole quote
(`bridge-quote.service.ts:136`), a promise returned without await
(`tokens.controller.ts:40`), and read errors the client drops (`api/client.go:113`). The
code does what it does by design, or nothing says which behaviour is meant.

## 7. Plan

What is left, the most useful first:

1. **Proofs.** A measure for a watch and for the polling that dies off the screen, as
   `RunsAreShort` and `QuoteRunsOut` have one.
2. **Arithmetic.** The transfer fees of `BridgeQuote` and the rounding between units,
   against a reference definition over bounded amounts; `cmpDecimalStrings` beside
   `Amounts`, whose lemmas on `Number` it could use.
3. **Data of answers.** `resolveTokenRef` with its symbols, IDs and addresses;
   the empty body of a 2xx answer, and what each command then prints.
4. **Configuration.** `ConfigService` of the REST API; on the CLI, the composition of
   `ConfigFile` with the commands that read `DefaultWallet`, which `wallet rm` does not
   touch.
