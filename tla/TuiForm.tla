------------------------------- MODULE TuiForm -------------------------------
(***************************************************************************)
(* The form of the TUI (cli/internal/cli/tui.go): a Bubble Tea model that  *)
(* asks the Core or the NEXT API for tokens and quotes, and whose user     *)
(* goes on typing, picking and toggling the API while requests are in      *)
(* flight.  Update handles one message at a time; the answers of requests  *)
(* arrive in any order.  An amount is a model value, what the picker lists *)
(* a set; the execution screen is TuiExec and here only "away".            *)
(***************************************************************************)
EXTENDS Integers, Sequences

CONSTANTS
  CoreTokens, NextTokens,  \* the tokens of the two APIs
  Messengers, Methods,     \* bridges, and ways to pay their fee
  CoreQuotes, NextQuotes,  \* the lists of options their quotes may hold
  NoToken,                 \* the zero tuiToken
  None,                    \* the empty messenger and fee method
  Amounts,                 \* amounts that parse
  BadAmount,               \* one that does not
  MaxToggles,              \* bound on Ctrl+A
  MaxQuotes,               \* bound on the quotes asked
  MaxEdits                 \* bound on the changes of the amount and the tokens

(* An option of the Core API or a route of the NEXT API, which always      *)
(* names its messenger.                                                    *)
Options == [messenger : Messengers, fees : Seq(Methods)]

ASSUME FormConstants ==
  /\ CoreTokens \cap NextTokens = {}
  /\ NoToken \notin CoreTokens \cup NextTokens
  /\ BadAmount \notin Amounts
  /\ CoreQuotes \cup NextQuotes \subseteq Seq(Options)
  /\ None \notin Messengers
  /\ MaxToggles \in Nat /\ MaxQuotes \in Nat /\ MaxEdits \in Nat

VARIABLES
  api,        \* the API the wizard talks to
  session,    \* times Ctrl+A was pressed
  loading, quoting, quoted,
  tokens,     \* what the pickers list
  amount, send, recv,
  recipient,  \* TRUE when one is typed
  routes,     \* options or nextRoutes
  shown,      \* the request routes answers
  messenger, fee, nextIdx,
  screen,     \* the form, one of its pickers, or away from it
  focus,
  asked,      \* requests in flight
  edits, quotes

pair == <<send, recv>>

selection == <<amount, send, recv>>

choice == <<messenger, fee, nextIdx>>

quoteVars == <<quoting, quoted, routes, shown, choice>>

counters == <<session, edits, quotes>>

vars == <<api, counters, loading, quoteVars, tokens, selection, recipient, screen, focus, asked>>

Apis == {"core", "next"}

Fields == {"amount", "send", "receive", "wallet", "recipient", "messenger", "fee", "submit"}

TokensOf(a) == IF a = "core" THEN CoreTokens ELSE NextTokens

QuotesOf(a) == IF a = "core" THEN CoreQuotes ELSE NextQuotes

AnyToken == CoreTokens \cup NextTokens \cup {NoToken}

(* A request, the API and the session it was made in, what it asks for     *)
(* and, a history of the model, whether the user's selection has changed   *)
(* since.                                                                  *)
Requests == [kind : {"tokens", "quote"}, api : Apis, session : 0..MaxToggles,
             selection : (Amounts \cup {BadAmount}) \X AnyToken \X AnyToken,
             late : BOOLEAN]

TypeOK ==
  /\ api \in Apis
  /\ session \in 0..MaxToggles
  /\ loading \in BOOLEAN /\ quoting \in BOOLEAN /\ quoted \in BOOLEAN
  /\ tokens \in {{}, CoreTokens, NextTokens}
  /\ amount \in Amounts \cup {BadAmount}
  /\ send \in AnyToken /\ recv \in AnyToken
  /\ recipient \in BOOLEAN
  /\ routes \in {<<>>} \cup CoreQuotes \cup NextQuotes
  /\ shown \in Requests
  /\ nextIdx \in Nat
  /\ screen \in {"form", "send", "receive", "wallet", "away"}
  /\ focus \in Fields
  /\ asked \subseteq Requests
  /\ edits \in 0..MaxEdits
  /\ quotes \in 0..MaxQuotes

Request(kind, a, s, sel) ==
  [kind |-> kind, api |-> a, session |-> s, selection |-> sel, late |-> FALSE]

Init ==
  /\ api = "core"
  /\ session = 0 /\ edits = 0 /\ quotes = 0
  /\ loading = TRUE /\ quoting = FALSE /\ quoted = FALSE
  /\ tokens = {}
  /\ amount \in Amounts
  /\ send = NoToken /\ recv = NoToken
  /\ recipient = FALSE
  /\ routes = <<>>
  /\ messenger = None /\ fee = None /\ nextIdx = 1
  /\ screen = "form"
  /\ focus = "amount"
  /\ shown = Request("tokens", "core", 0, selection)
  /\ asked = {shown}

-----------------------------------------------------------------------------

(* The requests in flight, and the quote on the screen, are from now on    *)
(* for a selection the user has left.                                      *)
Late(r) == [r EXCEPT !.late = TRUE]

Overtake(rs) == {Late(r) : r \in rs}

(* Ctrl+A, on whatever screen. *)
CtrlA ==
  /\ session < MaxToggles
  /\ session' = session + 1
  /\ api' \in Apis \ {api}
  /\ loading' = TRUE
  /\ tokens' = {}
  /\ routes' = <<>>
  /\ quoted' = FALSE
  /\ messenger' = None
  /\ fee' = None
  /\ asked' = asked \cup {Request("tokens", api', session', selection)}
  /\ UNCHANGED <<edits, quotes, quoting, shown, nextIdx, selection, recipient, screen, focus>>

(* Seeded fault: an error leaves "loading" on. *)
TokensAnswerLoading(r) ==
  /\ r \in asked /\ r.kind = "tokens"
  /\ asked' = asked \ {r}
  /\ IF r.api # api
     THEN UNCHANGED <<loading, tokens>>
     ELSE \/ UNCHANGED <<loading, tokens>>
          \/ loading' = FALSE /\ tokens' = TokensOf(api)
  /\ UNCHANGED <<api, counters, quoteVars, selection, recipient, screen, focus>>

(* The answer to a request for tokens, dropped when it is of the other API. *)
(* defaultRoute selects two tokens of the list, or none.                    *)
TokensAnswer(r) ==
  /\ r \in asked /\ r.kind = "tokens"
  /\ IF r.api # api
     THEN asked' = asked \ {r} /\ UNCHANGED <<loading, tokens, send, recv, shown>>
     ELSE /\ loading' = FALSE
          /\ \/ UNCHANGED <<tokens, send, recv, shown>> /\ asked' = asked \ {r}
             \/ /\ tokens' = TokensOf(api)
                /\ \/ UNCHANGED <<send, recv>>
                   \/ send' \in tokens' /\ recv' \in tokens' \ {send'}
                /\ shown' = IF pair' # pair THEN Late(shown) ELSE shown
                /\ asked' = IF pair' # pair
                            THEN Overtake(asked \ {r}) ELSE asked \ {r}
  /\ UNCHANGED <<api, counters, quoting, quoted, routes, choice, amount, recipient, screen, focus>>

(* The first fee method of an option, or the one selected if it has none.  *)
FirstFee(o) == IF o.fees # <<>> THEN o.fees[1] ELSE fee

(* Seeded fault: the index of the NEXT route is kept. *)
SelectKept(list) ==
  /\ quoted' = (list # <<>>)
  /\ messenger' = IF list # <<>> THEN list[1].messenger ELSE messenger
  /\ fee' = IF list # <<>> /\ api = "core" THEN FirstFee(list[1]) ELSE fee
  /\ UNCHANGED nextIdx

(* The first option, its first fee method, and the first NEXT route are    *)
(* selected; an empty quote leaves the selection as it was.                *)
SelectFirst(list) ==
  /\ quoted' = (list # <<>>)
  /\ nextIdx' = IF api = "next" THEN 1 ELSE nextIdx
  /\ messenger' = IF list # <<>> THEN list[1].messenger ELSE messenger
  /\ fee' = IF list # <<>> /\ api = "core" THEN FirstFee(list[1]) ELSE fee

(* An API quotes its own tokens. *)
Quotable(r) == {r.selection[2], r.selection[3]} \subseteq TokensOf(r.api)

(* The answer to a request for a quote: dropped, an error, or a list. *)
QuoteAnswer(r) ==
  /\ r \in asked /\ r.kind = "quote"
  /\ asked' = asked \ {r}
  /\ IF r.api # api
     THEN UNCHANGED quoteVars
     ELSE /\ quoting' = FALSE
          /\ \/ UNCHANGED <<quoted, routes, shown, choice>>
             \/ /\ Quotable(r)
                /\ routes' \in QuotesOf(api)
                /\ shown' = r
                /\ SelectFirst(routes')
  /\ UNCHANGED <<api, counters, loading, tokens, selection, recipient, screen, focus>>

-----------------------------------------------------------------------------

OnForm(field) == screen = "form" /\ focus = field

Untouched == UNCHANGED <<api, session, loading, tokens>>

(* focusFromJumpKey. *)
JumpKeys == <<"amount", "send", "receive", "wallet", "recipient", "messenger", "fee", "submit">>

Jump(k) ==
  /\ screen = "form"
  /\ focus' = JumpKeys[k]
  /\ Untouched
  /\ UNCHANGED <<edits, quotes, quoteVars, selection, recipient, screen, asked>>

(* Seeded fault: editing the amount keeps the quote. *)
EditAmountOnly ==
  /\ OnForm("amount")
  /\ edits < MaxEdits
  /\ edits' = edits + 1
  /\ amount' \in (Amounts \cup {BadAmount}) \ {amount}
  /\ asked' = Overtake(asked)
  /\ Untouched
  /\ UNCHANGED <<quotes, quoteVars, send, recv, recipient, screen, focus>>

(* A digit or a backspace in the amount. *)
EditAmount ==
  /\ OnForm("amount")
  /\ edits < MaxEdits
  /\ edits' = edits + 1
  /\ amount' \in (Amounts \cup {BadAmount}) \ {amount}
  /\ quoted' = FALSE
  /\ asked' = Overtake(asked)
  /\ Untouched
  /\ UNCHANGED <<quotes, quoting, routes, shown, choice, send, recv, recipient, screen, focus>>

EditRecipient ==
  /\ OnForm("recipient")
  /\ recipient' \in BOOLEAN
  /\ Untouched
  /\ UNCHANGED <<edits, quotes, quoteVars, selection, screen, focus, asked>>

(* Enter on a field that only moves on, if it may: the next step needs a   *)
(* quote, the amount must parse.                                           *)
MoveOn ==
  /\ \/ OnForm("amount") /\ amount # BadAmount /\ focus' = "send"
     \/ OnForm("messenger") /\ quoted /\ focus' = "fee"
     \/ OnForm("fee") /\ quoted /\ focus' = "submit"
  /\ Untouched
  /\ UNCHANGED <<edits, quotes, quoteVars, selection, recipient, screen, asked>>

(* Enter on the recipient, or on the button while there is no quote. *)
AskQuote ==
  /\ (OnForm("recipient") /\ recipient) \/ (OnForm("submit") /\ ~quoted)
  /\ amount # BadAmount
  /\ quotes < MaxQuotes
  /\ quotes' = quotes + 1
  /\ quoting' = TRUE
  /\ focus' = "messenger"
  /\ asked' = asked \cup {Request("quote", api, session, selection)}
  /\ Untouched
  /\ UNCHANGED <<edits, quoted, routes, shown, choice, selection, recipient, screen>>

(* Enter on a token or the wallet opens its picker; Ctrl+P on the          *)
(* recipient opens the wallet picker too.                                  *)
OpenPicker ==
  /\ \/ OnForm("send") /\ screen' = "send"
     \/ OnForm("receive") /\ screen' = "receive"
     \/ (OnForm("wallet") \/ OnForm("recipient")) /\ screen' = "wallet"
  /\ Untouched
  /\ UNCHANGED <<edits, quotes, quoteVars, selection, recipient, focus, asked>>

(* Enter in a token picker, which does not offer the other side's token.   *)
PickToken ==
  /\ edits < MaxEdits
  /\ edits' = edits + 1
  /\ \/ /\ screen = "send"
        /\ send' \in tokens \ {recv}
        /\ focus' = "receive"
        /\ UNCHANGED recv
     \/ /\ screen = "receive"
        /\ recv' \in tokens \ {send}
        /\ focus' = "wallet"
        /\ UNCHANGED send
  /\ quoted' = FALSE
  /\ screen' = "form"
  /\ asked' = IF pair' # pair THEN Overtake(asked) ELSE asked
  /\ Untouched
  /\ UNCHANGED <<quotes, quoting, routes, shown, choice, amount, recipient>>

(* Enter in the wallet picker, for the sender or for the recipient. *)
PickWallet ==
  /\ screen = "wallet"
  /\ screen' = "form"
  /\ focus' = "recipient"
  /\ recipient' \in {recipient, TRUE}
  /\ Untouched
  /\ UNCHANGED <<edits, quotes, quoteVars, selection, asked>>

ClosePicker ==
  /\ screen \in {"send", "receive", "wallet"}
  /\ screen' = "form"
  /\ Untouched
  /\ UNCHANGED <<edits, quotes, quoteVars, selection, recipient, focus, asked>>

(* The position after or before i in a list of n, round the end. *)
Around(i, n) == {(i % n) + 1, ((i + n - 2) % n) + 1}

(* The first position a search finds, or position 1 when it finds none.    *)
FirstOf(found) == IF found = {} THEN {1} ELSE {i \in found : \A j \in found : i <= j}

(* Up and down on the messenger: NEXT goes by index, Core by name. *)
CycleMessenger ==
  /\ OnForm("messenger")
  /\ routes # <<>>
  /\ IF api = "next"
     THEN /\ nextIdx' \in Around(nextIdx, Len(routes))
          /\ messenger' = routes[nextIdx'].messenger
          /\ UNCHANGED fee
     ELSE \E k \in FirstOf({i \in DOMAIN routes : routes[i].messenger = messenger}) :
          \E i \in Around(k, Len(routes)) :
            /\ messenger' = routes[i].messenger
            /\ fee' = FirstFee(routes[i])
            /\ UNCHANGED nextIdx
  /\ Untouched
  /\ UNCHANGED <<edits, quotes, quoting, quoted, routes, shown, selection, recipient, screen, focus, asked>>

(* Up and down on the fee method, among those of the selected option. *)
CycleFee ==
  /\ OnForm("fee") /\ api = "core"
  /\ \E n \in FirstOf({i \in DOMAIN routes : routes[i].messenger = messenger}) :
       LET fees == routes[n].fees
       IN  /\ n \in DOMAIN routes /\ fees # <<>>
           /\ \E k \in FirstOf({i \in DOMAIN fees : fees[i] = fee}) :
              \E i \in Around(k, Len(fees)) : fee' = fees[i]
  /\ Untouched
  /\ UNCHANGED <<edits, quotes, quoting, quoted, routes, shown, messenger, nextIdx, selection,
                 recipient, screen, focus, asked>>

(* Enter on [Execute] leaves for the execution screen; Esc comes back with *)
(* the quote, [N]ew without it (resetExec).                                *)
Execute ==
  /\ OnForm("submit") /\ quoted
  /\ screen' = "away"
  /\ Untouched
  /\ UNCHANGED <<edits, quotes, quoteVars, selection, recipient, focus, asked>>

ComeBack ==
  /\ screen = "away"
  /\ screen' = "form"
  /\ \/ UNCHANGED <<quoted, recipient, focus>>
     \/ quoted' = FALSE /\ recipient' = FALSE /\ focus' = "amount"
  /\ Untouched
  /\ UNCHANGED <<edits, quotes, quoting, routes, shown, choice, selection, asked>>

User ==
  \/ CtrlA
  \/ \E k \in DOMAIN JumpKeys : Jump(k)
  \/ EditAmount \/ EditRecipient \/ MoveOn \/ AskQuote \/ OpenPicker \/ PickToken
  \/ PickWallet \/ ClosePicker \/ CycleMessenger \/ CycleFee \/ Execute \/ ComeBack

Answer == \E r \in asked : TokensAnswer(r) \/ QuoteAnswer(r)

Next == User \/ Answer

Spec == Init /\ [][Next]_vars

-----------------------------------------------------------------------------

(* What the form shows as selected is offered by the quote it shows, for   *)
(* the API in use, after any sequence of toggles, quotes and cycles.       *)
SelectionIsOffered ==
  quoted =>
    /\ routes \in QuotesOf(api)
    /\ IF api = "next"
       THEN nextIdx \in DOMAIN routes /\ messenger = routes[nextIdx].messenger
       ELSE \E i \in DOMAIN routes :
              /\ routes[i].messenger = messenger
              /\ routes[i].fees = <<>> \/ \E j \in DOMAIN routes[i].fees : routes[i].fees[j] = fee

(* A quote on the screen is for the amount and the tokens on the screen,   *)
(* unless they changed while it was in flight or a late list of tokens     *)
(* replaced them: every edit of the form withdraws the quote.              *)
QuoteMatchesSelection ==
  quoted /\ ~shown.late => shown.kind = "quote" /\ shown.api = api /\ shown.selection = selection

(* While the form says "loading", an answer that ends it is on its way.    *)
LoadingIsAsked ==
  loading => \E r \in asked : r.kind = "tokens" /\ r.api = api
=============================================================================
