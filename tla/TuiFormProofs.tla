---------------------------- MODULE TuiFormProofs ----------------------------
(***************************************************************************)
(* What the form of the TUI promises, and what the transfer it starts is   *)
(* of: for any tokens, quotes and amounts, however often the user toggles  *)
(* the API, edits and asks, and in whatever order the answers arrive.      *)
(***************************************************************************)
EXTENDS MCTuiForm, TLAPS

(* Whatever the execution screen does is a step of the form, or none.      *)
LEMMA SendStepsForm == [SendNext]_<<vars, sendVars>> => [Next]_vars
<1> SUFFICES ASSUME [SendNext]_<<vars, sendVars>> PROVE [Next]_vars
  OBVIOUS
<1>1. CASE SendNext
  BY <1>1 DEF SendNext, Activate, EnterPassphrase, LeaveExec, Pipeline, OnFormScreen,
     Meanwhile, Next, User
<1>2. CASE UNCHANGED <<vars, sendVars>>
  BY <1>2
<1> QED BY <1>1, <1>2

(* The disjuncts of Next, by what they may disturb.                        *)
Editing == EditAmount \/ PickToken

Quiet ==
  \/ \E k \in DOMAIN JumpKeys : Jump(k)
  \/ EditRecipient \/ MoveOn \/ OpenPicker \/ PickWallet \/ ClosePicker \/ Execute \/ ComeBack

Cycling == CycleMessenger \/ CycleFee

LEMMA NextCases ==
  ASSUME [Next]_vars
  PROVE  \/ CtrlA \/ AskQuote \/ Editing \/ Quiet \/ Cycling \/ UNCHANGED vars
         \/ \E r \in asked : TokensAnswer(r) \/ QuoteAnswer(r)
BY DEF Next, User, Answer, Editing, Quiet, Cycling

(* What a quiet step leaves alone.                                         *)
LEMMA QuietKeeps ==
  ASSUME Quiet
  PROVE  /\ UNCHANGED <<api, session, loading, tokens, edits, quotes, quoting, routes, shown,
                        choice, selection, asked>>
         /\ quoted' = quoted \/ quoted' = FALSE
BY DEF Quiet, Jump, EditRecipient, MoveOn, OpenPicker, PickWallet, ClosePicker, Execute, ComeBack,
   Untouched, quoteVars, choice, selection

-----------------------------------------------------------------------------
(* Types *)

LEMMA RequestIsTyped ==
  ASSUME NEW k \in {"tokens", "quote"}, NEW a \in Apis, NEW s \in 0..MaxToggles,
         NEW x \in Amounts \cup {BadAmount}, NEW y \in AnyToken, NEW z \in AnyToken
  PROVE  Request(k, a, s, <<x, y, z>>) \in Requests
BY DEF Request, Requests

LEMMA LateIsTyped == ASSUME NEW r \in Requests PROVE Late(r) \in Requests
BY DEF Late, Requests

LEMMA OvertakeIsTyped ==
  ASSUME NEW rs, rs \subseteq Requests PROVE Overtake(rs) \subseteq Requests
BY LateIsTyped DEF Overtake

LEMMA AroundIsIndex ==
  ASSUME NEW n \in Nat, n # 0, NEW i \in 1..n, NEW j \in Around(i, n)
  PROVE  j \in 1..n
BY DEF Around

LEMMA FirstIsIndex ==
  ASSUME NEW n \in Nat, n # 0, NEW found, found \subseteq 1..n, NEW k \in FirstOf(found)
  PROVE  k \in 1..n /\ (found # {} => k \in found)
<1>1. CASE found = {}
  <2>1. k = 1
    BY <1>1 DEF FirstOf
  <2> QED BY <1>1, <2>1
<1>2. CASE found # {}
  <2>1. k \in found
    BY <1>2 DEF FirstOf
  <2> QED BY <2>1
<1> QED BY <1>1, <1>2

(* The lists of routes, and what can be chosen of one.                     *)
LEMMA RoutesAreLists ==
  ASSUME NEW a \in Apis, NEW list \in {<<>>} \cup QuotesOf(a)
  PROVE  /\ list \in Seq(Options)
         /\ list # <<>> => Len(list) \in Nat \ {0} /\ DOMAIN list = 1..Len(list)
         /\ \A i \in DOMAIN list : list[i] \in Options
<1>1. list = <<>> \/ list \in CoreQuotes \cup NextQuotes
  BY DEF QuotesOf
<1>2. list \in Seq(Options)
  <2>1. CASE list = <<>>
    BY <2>1
  <2>2. CASE list \in CoreQuotes \cup NextQuotes
    <3>1. CoreQuotes \cup NextQuotes \subseteq Seq(Options)
      BY FormConstants
    <3> QED BY <2>2, <3>1
  <2> QED BY <1>1, <2>1, <2>2
<1> QED BY <1>2

LEMMA FeesAreLists ==
  ASSUME NEW o \in Options
  PROVE  /\ o.messenger # None /\ o.fees \in Seq(Methods)
         /\ o.fees # <<>> => Len(o.fees) \in Nat \ {0} /\ DOMAIN o.fees = 1..Len(o.fees)
BY FormConstants DEF Options

FormTypes == TypeOK /\ routes \in {<<>>} \cup QuotesOf(api)

LEMMA FormTypesInit == SendInit => FormTypes
<1> SUFFICES ASSUME Init PROVE FormTypes
  BY DEF SendInit
<1>1. api \in Apis /\ 0 \in 0..MaxToggles /\ 0 \in 0..MaxEdits /\ 0 \in 0..MaxQuotes
  BY FormConstants DEF Init, Apis
<1>2. NoToken \in AnyToken
  BY DEF AnyToken
<1>3. shown \in Requests
  BY <1>1, <1>2, RequestIsTyped DEF Init, selection
<1> QED BY <1>1, <1>2, <1>3 DEF Init, FormTypes, TypeOK, Fields

LEMMA FormTypesStep == FormTypes /\ [Next]_vars => FormTypes'
<1> SUFFICES ASSUME FormTypes, [Next]_vars PROVE FormTypes'
  OBVIOUS
<1>0. MaxToggles \in Nat /\ MaxQuotes \in Nat /\ MaxEdits \in Nat
  BY FormConstants
<1> USE <1>0 DEF FormTypes, TypeOK
<1>1. CASE CtrlA
  <2>1. api' \in Apis /\ session' \in 0..MaxToggles
    BY <1>1 DEF CtrlA
  <2>2. Request("tokens", api', session', selection) \in Requests
    BY <2>1, RequestIsTyped DEF selection
  <2> QED BY <1>1, <2>1, <2>2 DEF CtrlA, selection
<1>2. CASE AskQuote
  <2>1. Request("quote", api, session, selection) \in Requests
    BY RequestIsTyped DEF selection
  <2> QED BY <1>2, <2>1 DEF AskQuote, Untouched, choice, selection, Fields
<1>3. CASE EditAmount
  <2>1. Overtake(asked) \subseteq Requests
    BY OvertakeIsTyped
  <2>2. edits' \in 0..MaxEdits /\ amount' \in Amounts \cup {BadAmount}
    BY <1>3 DEF EditAmount
  <2> QED BY <1>3, <2>1, <2>2 DEF EditAmount, Untouched, choice
<1>4. CASE PickToken
  <2>1. tokens \subseteq AnyToken
    BY DEF AnyToken
  <2>2. asked' \subseteq Requests
    <3>1. Overtake(asked) \subseteq Requests
      BY OvertakeIsTyped
    <3>2. asked' = Overtake(asked) \/ asked' = asked
      BY <1>4 DEF PickToken
    <3> QED BY <3>1, <3>2
  <2>3. send' \in AnyToken /\ recv' \in AnyToken /\ focus' \in Fields
    BY <1>4, <2>1 DEF PickToken, Fields
  <2>4. edits' \in 0..MaxEdits
    BY <1>4 DEF PickToken
  <2> QED BY <1>4, <2>2, <2>3, <2>4 DEF PickToken, Untouched, choice
<1>5. CASE Quiet
  <2>1. focus' \in Fields /\ screen' \in {"form", "send", "receive", "wallet", "away"}
        /\ recipient' \in BOOLEAN
    <3>1. ASSUME NEW k \in DOMAIN JumpKeys, Jump(k)
          PROVE  focus' \in Fields /\ UNCHANGED <<screen, recipient>>
      BY <3>1 DEF Jump, JumpKeys, Fields
    <3> QED BY <1>5, <3>1 DEF Quiet, EditRecipient, MoveOn, OpenPicker, PickWallet, ClosePicker,
            Execute, ComeBack, Untouched, Fields
  <2> QED BY <1>5, <2>1, QuietKeeps DEF choice, selection
<1>6. CASE CycleMessenger
  <2>1. UNCHANGED <<api, session, loading, tokens, edits, quotes, quoting, quoted, routes, shown,
                    selection, recipient, screen, focus, asked>>
        /\ routes # <<>>
    BY <1>6 DEF CycleMessenger, Untouched
  <2>2. nextIdx' \in Nat
    <3>1. Len(routes) \in Nat \ {0}
      BY <2>1, RoutesAreLists
    <3>2. nextIdx' = nextIdx \/ nextIdx' \in Around(nextIdx, Len(routes))
      BY <1>6 DEF CycleMessenger
    <3> QED BY <3>1, <3>2 DEF Around
  <2> QED BY <2>1, <2>2 DEF selection
<1>7. CASE CycleFee
  BY <1>7 DEF CycleFee, Untouched, selection
<1>8. ASSUME NEW r \in asked, TokensAnswer(r) PROVE FormTypes'
  <2>1. asked' \subseteq Requests /\ shown' \in Requests
    BY <1>8, OvertakeIsTyped, LateIsTyped DEF TokensAnswer
  <2>2. tokens' \in {{}, CoreTokens, NextTokens} /\ send' \in AnyToken /\ recv' \in AnyToken
    BY <1>8 DEF TokensAnswer, TokensOf, AnyToken
  <2>3. loading' \in BOOLEAN
    BY <1>8 DEF TokensAnswer
  <2> QED BY <1>8, <2>1, <2>2, <2>3 DEF TokensAnswer, choice, counters
<1>9. ASSUME NEW r \in asked, QuoteAnswer(r) PROVE FormTypes'
  <2>1. routes' \in {<<>>} \cup QuotesOf(api) /\ shown' \in Requests /\ nextIdx' \in Nat
        /\ quoted' \in BOOLEAN /\ quoting' \in BOOLEAN
    <3>1. CASE UNCHANGED quoteVars
      BY <3>1 DEF quoteVars, choice
    <3>2. CASE quoting' = FALSE /\ UNCHANGED <<quoted, routes, shown, choice>>
      BY <3>2 DEF choice
    <3>3. CASE quoting' = FALSE /\ routes' \in QuotesOf(api) /\ shown' = r /\ SelectFirst(routes')
      BY <3>3 DEF SelectFirst
    <3> QED BY <1>9, <3>1, <3>2, <3>3 DEF QuoteAnswer
  <2>2. routes' \in {<<>>} \cup CoreQuotes \cup NextQuotes
    BY <2>1 DEF QuotesOf
  <2> QED BY <1>9, <2>1, <2>2 DEF QuoteAnswer, selection, counters
<1>10. CASE UNCHANGED vars
  BY <1>10 DEF vars, counters, quoteVars, choice, selection
<1> QED
  BY <1>1, <1>2, <1>3, <1>4, <1>5, <1>6, <1>7, <1>8, <1>9, <1>10, NextCases
     DEF Editing, Cycling

-----------------------------------------------------------------------------
(* The options *)

(* What is selected stays offered as long as the routes and the choice     *)
(* stay, and no quote comes on.                                            *)
LEMMA OfferedKept ==
  ASSUME SelectionIsOffered, UNCHANGED <<api, routes, choice>>, quoted' => quoted
  PROVE  SelectionIsOffered'
BY DEF SelectionIsOffered, choice

(* The first fee of an option is one of its fees.                          *)
LEMMA FirstFeeIsFee ==
  ASSUME NEW o \in Options
  PROVE  o.fees = <<>> \/ \E j \in DOMAIN o.fees : o.fees[j] = FirstFee(o)
BY FeesAreLists DEF FirstFee

LEMMA OfferedStep == FormTypes /\ SelectionIsOffered /\ [Next]_vars => SelectionIsOffered'
<1> SUFFICES ASSUME FormTypes, SelectionIsOffered, [Next]_vars PROVE SelectionIsOffered'
  OBVIOUS
<1>0. api \in Apis /\ routes \in {<<>>} \cup QuotesOf(api)
  BY DEF FormTypes, TypeOK
<1>1. CASE CtrlA
  BY <1>1 DEF CtrlA, SelectionIsOffered
<1>2. CASE AskQuote
  BY <1>2, OfferedKept DEF AskQuote, Untouched
<1>3. CASE Editing
  BY <1>3, OfferedKept DEF Editing, EditAmount, PickToken, Untouched
<1>4. CASE Quiet
  BY <1>4, OfferedKept, QuietKeeps
<1>5. CASE CycleMessenger
  <2>1. routes # <<>> /\ UNCHANGED <<api, routes, quoted>>
    BY <1>5 DEF CycleMessenger, Untouched
  <2>2. Len(routes) \in Nat \ {0} /\ DOMAIN routes = 1..Len(routes)
        /\ \A i \in DOMAIN routes : routes[i] \in Options
    BY <1>0, <2>1, RoutesAreLists
  <2>3. CASE api = "next"
    <3>1. nextIdx' \in Around(nextIdx, Len(routes)) /\ messenger' = routes[nextIdx'].messenger
      BY <1>5, <2>3 DEF CycleMessenger
    <3>2. quoted => nextIdx \in 1..Len(routes)
      BY <2>2, <2>3 DEF SelectionIsOffered
    <3>3. quoted => nextIdx' \in DOMAIN routes
      BY <2>2, <3>1, <3>2, AroundIsIndex
    <3> QED BY <2>1, <2>3, <3>1, <3>3 DEF SelectionIsOffered
  <2>4. CASE api # "next"
    <3>1. PICK k \in FirstOf({i \in DOMAIN routes : routes[i].messenger = messenger}) :
            \E i \in Around(k, Len(routes)) :
              messenger' = routes[i].messenger /\ fee' = FirstFee(routes[i])
      BY <1>5, <2>4 DEF CycleMessenger
    <3>2. k \in 1..Len(routes)
      BY <2>2, FirstIsIndex
    <3>3. PICK i \in Around(k, Len(routes)) :
            messenger' = routes[i].messenger /\ fee' = FirstFee(routes[i])
      BY <3>1
    <3>4. i \in DOMAIN routes
      BY <2>2, <3>2, AroundIsIndex
    <3>5. routes[i].fees = <<>> \/ \E j \in DOMAIN routes[i].fees : routes[i].fees[j] = fee'
      BY <2>2, <3>3, <3>4, FirstFeeIsFee
    <3> QED BY <2>1, <2>4, <3>3, <3>4, <3>5 DEF SelectionIsOffered
  <2> QED BY <2>3, <2>4
<1>6. CASE CycleFee
  <2>1. api = "core" /\ UNCHANGED <<api, routes, quoted, messenger, nextIdx>>
    BY <1>6 DEF CycleFee, Untouched
  <2>2. PICK n \in FirstOf({i \in DOMAIN routes : routes[i].messenger = messenger}) :
          /\ n \in DOMAIN routes /\ routes[n].fees # <<>>
          /\ \E k \in FirstOf({i \in DOMAIN routes[n].fees : routes[n].fees[i] = fee}) :
             \E i \in Around(k, Len(routes[n].fees)) : fee' = routes[n].fees[i]
    BY <1>6 DEF CycleFee
  <2>3. /\ routes # <<>> /\ Len(routes) \in Nat \ {0} /\ DOMAIN routes = 1..Len(routes)
        /\ routes[n] \in Options
    BY <1>0, <2>2, RoutesAreLists
  <2> DEFINE fees == routes[n].fees
  <2>4. Len(fees) \in Nat \ {0} /\ DOMAIN fees = 1..Len(fees)
    BY <2>2, <2>3, FeesAreLists
  <2>5. PICK k \in FirstOf({i \in DOMAIN fees : fees[i] = fee}) :
          \E i \in Around(k, Len(fees)) : fee' = fees[i]
    BY <2>2
  <2>6. k \in 1..Len(fees)
    <3> HIDE DEF fees
    <3> QED BY <2>4, <2>5, FirstIsIndex
  <2>7. \E j \in DOMAIN fees : fees[j] = fee'
    <3> HIDE DEF fees
    <3> QED BY <2>4, <2>5, <2>6, AroundIsIndex
  <2>8. quoted => routes[n].messenger = messenger
    <3>1. quoted => {i \in DOMAIN routes : routes[i].messenger = messenger} # {}
      BY <2>1 DEF SelectionIsOffered
    <3>2. quoted => n \in {i \in DOMAIN routes : routes[i].messenger = messenger}
      BY <2>2, <2>3, <3>1, FirstIsIndex
    <3> QED BY <3>2
  <2> QED BY <2>1, <2>2, <2>7, <2>8 DEF SelectionIsOffered
<1>7. ASSUME NEW r \in asked, TokensAnswer(r) PROVE SelectionIsOffered'
  BY <1>7, OfferedKept DEF TokensAnswer, counters
<1>8. ASSUME NEW r \in asked, QuoteAnswer(r) PROVE SelectionIsOffered'
  <2>1. UNCHANGED api
    BY <1>8 DEF QuoteAnswer
  <2>2. CASE UNCHANGED <<quoted, routes, choice>>
    BY <2>1, <2>2, OfferedKept
  <2>3. CASE routes' \in QuotesOf(api) /\ SelectFirst(routes')
    <3> SUFFICES ASSUME quoted' PROVE SelectionIsOffered'
      BY DEF SelectionIsOffered
    <3>1. routes' # <<>>
      BY <2>3 DEF SelectFirst
    <3>2. 1 \in DOMAIN routes' /\ routes'[1] \in Options
      BY <1>0, <2>3, <3>1, RoutesAreLists
    <3>3. messenger' = routes'[1].messenger /\ (api = "next" => nextIdx' = 1)
      BY <2>3, <3>1 DEF SelectFirst
    <3>4. CASE api = "next"
      BY <2>1, <2>3, <3>2, <3>3, <3>4 DEF SelectionIsOffered
    <3>5. CASE api = "core"
      <4>1. fee' = FirstFee(routes'[1])
        BY <2>3, <3>1, <3>5 DEF SelectFirst
      <4>2. routes'[1].fees = <<>> \/ \E j \in DOMAIN routes'[1].fees : routes'[1].fees[j] = fee'
        BY <3>2, <4>1, FirstFeeIsFee
      <4> QED BY <2>1, <2>3, <3>2, <3>3, <3>5, <4>2 DEF SelectionIsOffered
    <3> QED BY <1>0, <3>4, <3>5 DEF Apis
  <2> QED BY <1>8, <2>2, <2>3 DEF QuoteAnswer, quoteVars
<1>9. CASE UNCHANGED vars
  BY <1>9, OfferedKept DEF vars, quoteVars
<1> QED
  BY <1>1, <1>2, <1>3, <1>4, <1>5, <1>6, <1>7, <1>8, <1>9, NextCases DEF Cycling

(* What the form shows as selected is offered by the quote it shows, for   *)
(* any quotes and after any sequence of toggles, quotes and cycles         *)
(* (cycleMessenger, cycleFeeMethod).                                       *)
THEOREM SelectedIsOffered == SendSpec => []SelectionIsOffered
<1>1. SendInit => SelectionIsOffered
  BY DEF SendInit, Init, SelectionIsOffered
<1> QED BY <1>1, FormTypesInit, FormTypesStep, OfferedStep, SendStepsForm, PTL DEF SendSpec

-----------------------------------------------------------------------------
(* What a quote is of *)

(* A request for a quote that was not overtaken is of the selection.       *)
AskedInv == \A r \in asked : r.kind = "quote" /\ ~r.late => r.selection = selection

MatchInv == AskedInv /\ QuoteMatchesSelection

LEMMA OvertakenIsLate ==
  ASSUME NEW rs, rs \subseteq Requests, NEW r \in Overtake(rs)
  PROVE  r.late
<1>1. PICK q \in rs : r = Late(q)
  BY DEF Overtake
<1> QED BY <1>1 DEF Late, Requests

LEMMA MatchKept ==
  ASSUME MatchInv, UNCHANGED <<api, shown, selection>>, asked' \subseteq asked,
         quoted' => quoted
  PROVE  MatchInv'
BY DEF MatchInv, AskedInv, QuoteMatchesSelection

LEMMA MatchStep == FormTypes /\ MatchInv /\ [Next]_vars => MatchInv'
<1> SUFFICES ASSUME FormTypes, MatchInv, [Next]_vars PROVE MatchInv'
  OBVIOUS
<1>0. asked \subseteq Requests /\ shown \in Requests /\ quoted \in BOOLEAN
  BY DEF FormTypes, TypeOK
<1>1. CASE CtrlA
  <2>1. Request("tokens", api', session', selection).kind = "tokens"
    BY DEF Request
  <2>2. /\ quoted' = FALSE /\ UNCHANGED selection
        /\ asked' = asked \cup {Request("tokens", api', session', selection)}
    BY <1>1 DEF CtrlA
  <2> QED BY <2>1, <2>2 DEF MatchInv, AskedInv, QuoteMatchesSelection
<1>2. CASE AskQuote
  <2>1. Request("quote", api, session, selection).selection = selection
    BY DEF Request
  <2>2. /\ UNCHANGED <<api, shown, quoted, selection>>
        /\ asked' = asked \cup {Request("quote", api, session, selection)}
    BY <1>2 DEF AskQuote, Untouched
  <2>3. AskedInv'
    BY <2>1, <2>2 DEF MatchInv, AskedInv
  <2> QED BY <2>2, <2>3 DEF MatchInv, QuoteMatchesSelection
<1>3. CASE EditAmount
  <2>1. asked' = Overtake(asked) /\ quoted' = FALSE
    BY <1>3 DEF EditAmount
  <2>2. \A r \in asked' : r.late
    BY <1>0, <2>1, OvertakenIsLate
  <2> QED BY <2>1, <2>2 DEF MatchInv, AskedInv, QuoteMatchesSelection
<1>4. CASE PickToken
  <2>1. quoted' = FALSE /\ UNCHANGED amount
    BY <1>4 DEF PickToken
  <2>2. CASE pair' = pair
    <3>1. UNCHANGED selection /\ asked' = asked
      BY <1>4, <2>1, <2>2 DEF PickToken, pair, selection
    <3> QED BY <2>1, <3>1 DEF MatchInv, AskedInv, QuoteMatchesSelection
  <2>3. CASE pair' # pair
    <3>1. asked' = Overtake(asked)
      BY <1>4, <2>3 DEF PickToken
    <3>2. \A r \in asked' : r.late
      BY <1>0, <3>1, OvertakenIsLate
    <3> QED BY <2>1, <3>2 DEF MatchInv, AskedInv, QuoteMatchesSelection
  <2> QED BY <2>2, <2>3
<1>5. CASE Quiet
  BY <1>0, <1>5, MatchKept, QuietKeeps
<1>6. CASE Cycling
  BY <1>6, MatchKept DEF Cycling, CycleMessenger, CycleFee, Untouched
<1>7. ASSUME NEW r \in asked, TokensAnswer(r) PROVE MatchInv'
  <2>1. UNCHANGED <<api, quoted, amount>>
    BY <1>7 DEF TokensAnswer
  <2>2. CASE pair' = pair
    <3>1. UNCHANGED <<selection, shown>> /\ asked' = asked \ {r}
      BY <1>7, <2>1, <2>2 DEF TokensAnswer, pair, selection
    <3> QED BY <2>1, <3>1, MatchKept
  <2>3. CASE pair' # pair
    <3>1. asked' = Overtake(asked \ {r}) /\ shown' = Late(shown)
      BY <1>7, <2>3 DEF TokensAnswer, pair
    <3>2. \A q \in asked' : q.late
      BY <1>0, <3>1, OvertakenIsLate
    <3>3. shown'.late
      BY <1>0, <3>1 DEF Late, Requests
    <3> QED BY <3>2, <3>3 DEF MatchInv, AskedInv, QuoteMatchesSelection
  <2> QED BY <2>2, <2>3
<1>8. ASSUME NEW r \in asked, QuoteAnswer(r) PROVE MatchInv'
  <2>1. UNCHANGED <<api, selection>> /\ asked' = asked \ {r} /\ r.kind = "quote"
    BY <1>8 DEF QuoteAnswer
  <2>2. CASE UNCHANGED <<quoted, shown>>
    BY <2>1, <2>2, MatchKept
  <2>3. CASE shown' = r /\ r.api = api
    <3>1. ~r.late => r.selection = selection
      BY <2>1 DEF MatchInv, AskedInv
    <3>2. AskedInv'
      BY <2>1 DEF MatchInv, AskedInv
    <3> QED BY <2>1, <2>3, <3>1, <3>2 DEF MatchInv, QuoteMatchesSelection
  <2> QED BY <1>8, <2>2, <2>3 DEF QuoteAnswer, quoteVars
<1>9. CASE UNCHANGED vars
  BY <1>9, MatchKept DEF vars, quoteVars
<1> QED
  BY <1>1, <1>2, <1>3, <1>4, <1>5, <1>6, <1>7, <1>8, <1>9, NextCases DEF Editing

(* The quote on the screen is for the amount and the tokens on the screen, *)
(* unless they were changed after it was asked for, for any number of      *)
(* edits and requests and in whatever order these are answered.            *)
THEOREM QuoteIsOfSelection == SendSpec => []QuoteMatchesSelection
<1>1. SendInit => MatchInv
  BY DEF SendInit, Init, MatchInv, AskedInv, QuoteMatchesSelection, Request
<1>2. MatchInv => QuoteMatchesSelection
  BY DEF MatchInv
<1> QED
  BY <1>1, <1>2, FormTypesInit, FormTypesStep, MatchStep, SendStepsForm, PTL DEF SendSpec

-----------------------------------------------------------------------------
(* Loading *)

LEMMA LateAsksTheSame ==
  ASSUME NEW r \in Requests
  PROVE  Late(r).kind = r.kind /\ Late(r).api = r.api
BY DEF Late, Requests

LEMMA LoadingStep == FormTypes /\ LoadingIsAsked /\ [Next]_vars => LoadingIsAsked'
<1> SUFFICES ASSUME FormTypes, LoadingIsAsked, [Next]_vars PROVE LoadingIsAsked'
  OBVIOUS
<1>0. asked \subseteq Requests
  BY DEF FormTypes, TypeOK
<1>1. CASE CtrlA
  <2>1. /\ Request("tokens", api', session', selection).kind = "tokens"
        /\ Request("tokens", api', session', selection).api = api'
    BY DEF Request
  <2> QED BY <1>1, <2>1 DEF CtrlA, LoadingIsAsked
<1>2. CASE asked \subseteq asked' /\ UNCHANGED <<api, loading>>
  BY <1>2 DEF LoadingIsAsked
<1>3. CASE asked' = Overtake(asked) /\ UNCHANGED <<api, loading>>
  <2>1. \A r \in asked : Late(r) \in asked'
    BY <1>3 DEF Overtake
  <2> QED BY <1>0, <1>3, <2>1, LateAsksTheSame DEF LoadingIsAsked
<1>4. CASE AskQuote
  BY <1>2, <1>4 DEF AskQuote, Untouched
<1>5. CASE Editing
  BY <1>2, <1>3, <1>5 DEF Editing, EditAmount, PickToken, Untouched
<1>6. CASE Quiet
  BY <1>2, <1>6, QuietKeeps
<1>7. CASE Cycling
  BY <1>2, <1>7 DEF Cycling, CycleMessenger, CycleFee, Untouched
<1>8. ASSUME NEW r \in asked, TokensAnswer(r) PROVE LoadingIsAsked'
  <2>1. CASE r.api = api
    BY <1>8, <2>1 DEF TokensAnswer, LoadingIsAsked
  <2>2. CASE r.api # api
    BY <1>8, <2>2 DEF TokensAnswer, LoadingIsAsked
  <2> QED BY <2>1, <2>2
<1>9. ASSUME NEW r \in asked, QuoteAnswer(r) PROVE LoadingIsAsked'
  BY <1>9 DEF QuoteAnswer, LoadingIsAsked
<1>10. CASE UNCHANGED vars
  BY <1>2, <1>10 DEF vars
<1> QED
  BY <1>1, <1>4, <1>5, <1>6, <1>7, <1>8, <1>9, <1>10, NextCases

(* While the form says "loading" an answer that ends it is on its way,     *)
(* however often Ctrl+A is pressed (tuiTokensMsg).                         *)
THEOREM LoadingWillEnd == SendSpec => []LoadingIsAsked
<1>1. SendInit => LoadingIsAsked
  BY DEF SendInit, Init, LoadingIsAsked, Request
<1> QED BY <1>1, FormTypesInit, FormTypesStep, LoadingStep, SendStepsForm, PTL DEF SendSpec

-----------------------------------------------------------------------------
(* The transfer *)

(* What is confirmed and what the pipeline was given, by how far it is.    *)
SendInv ==
  /\ exec \in {"none", "ask", "run", "ended"}
  /\ moved \in BOOLEAN
  /\ exec # "none" => screen = "away"
  /\ exec \in {"none", "ask", "run"} => sent = Nothing
  /\ exec = "ask" =>
       /\ confirmed.amount = amount
       /\ ~moved => confirmed.messenger = messenger /\ messenger \in Messengers
  /\ exec = "run" =>
       /\ params.amount = confirmed.amount
       /\ ~moved => params.messenger = confirmed.messenger /\ params.messenger \in Messengers
  /\ SentAsConfirmed

LEMMA MessengerIsNamed ==
  ASSUME FormTypes, SelectionIsOffered, quoted
  PROVE  messenger \in Messengers
<1>1. routes \in QuotesOf(api) /\ api \in Apis
  BY DEF FormTypes, TypeOK, SelectionIsOffered
<1>2. \A i \in DOMAIN routes : routes[i] \in Options
  BY <1>1, RoutesAreLists
<1>3. \E i \in DOMAIN routes : routes[i].messenger = messenger
  BY DEF SelectionIsOffered
<1> QED BY <1>2, <1>3 DEF Options

(* The form does nothing on the execution screen but take answers and      *)
(* Ctrl+A, neither of which edits the amount.                              *)
LEMMA AwayIsQuiet == ASSUME OnFormScreen PROVE screen # "away" /\ screen' # "away"
BY DEF OnFormScreen, Jump, EditAmount, EditRecipient, MoveOn, AskQuote, OpenPicker, PickToken,
   PickWallet, ClosePicker, CycleMessenger, CycleFee, OnForm

LEMMA MeanwhileKeeps ==
  ASSUME CtrlA \/ Answer
  PROVE  UNCHANGED <<screen, amount>>
BY DEF CtrlA, Answer, TokensAnswer, QuoteAnswer, selection

LEMMA SendStep ==
  FormTypes /\ SelectionIsOffered /\ SendInv /\ [SendNext]_<<vars, sendVars>> => SendInv'
<1> SUFFICES ASSUME FormTypes, SelectionIsOffered, SendInv, [SendNext]_<<vars, sendVars>>
             PROVE  SendInv'
  OBVIOUS
<1> USE DEF SendInv
<1>1. CASE Activate
  <2>1. /\ quoted /\ screen' = "away" /\ UNCHANGED <<amount, messenger, sent>>
        /\ confirmed'.amount = amount /\ confirmed'.messenger = messenger /\ moved' = FALSE
    BY <1>1 DEF Activate, Execute, quoteVars, choice, selection
  <2>2. messenger \in Messengers
    BY <2>1, MessengerIsNamed
  <2>3. screen = "form"
    BY <1>1 DEF Activate, Execute, OnForm
  <2>4. exec = "none" /\ sent = Nothing
    BY <2>3
  <2>5. /\ exec' \in {"ask", "run", "ended"}
        /\ exec' = "run" => params'.amount = amount /\ params'.messenger = messenger
    BY <1>1 DEF Activate, StartExec
  <2> QED BY <2>1, <2>2, <2>4, <2>5 DEF SentAsConfirmed
<1>2. CASE EnterPassphrase
  <2>1. /\ exec = "ask" /\ UNCHANGED <<screen, amount, messenger, confirmed, moved, sent>>
        /\ exec' \in {"run", "ended"}
        /\ exec' = "run" => params'.amount = amount /\ params'.messenger = messenger
    BY <1>2 DEF EnterPassphrase, StartExec, vars, quoteVars, choice, selection
  <2> QED BY <2>1 DEF SentAsConfirmed
<1>3. CASE LeaveExec
  BY <1>3 DEF LeaveExec, SentAsConfirmed
<1>4. CASE Pipeline
  <2>1. /\ exec = "run" /\ exec' = "ended"
        /\ UNCHANGED <<screen, amount, messenger, confirmed, moved, params>>
    BY <1>4 DEF Pipeline, vars, quoteVars, choice, selection
  <2>2. sent' = Nothing \/ sent'.amount = params.amount
    BY <1>4 DEF Pipeline
  <2>3. sent' = Nothing \/ params.messenger = None \/ sent'.messenger = params.messenger
    BY <1>4 DEF Pipeline, Routes
  <2>4. None \notin Messengers
    BY FormConstants
  <2> QED BY <2>1, <2>2, <2>3, <2>4 DEF SentAsConfirmed
<1>5. CASE OnFormScreen /\ UNCHANGED sendVars
  BY <1>5, AwayIsQuiet DEF sendVars, SentAsConfirmed
<1>6. CASE Meanwhile /\ UNCHANGED <<exec, confirmed, params, sent>>
  <2>1. UNCHANGED <<screen, amount>> /\ moved' = (moved \/ (exec = "ask" /\ choice' # choice))
    BY <1>6, MeanwhileKeeps DEF Meanwhile
  <2>2. choice' = choice => messenger' = messenger
    BY DEF choice
  <2>3. moved' \in BOOLEAN /\ (~moved' => ~moved) /\ (exec = "ask" /\ ~moved' => messenger' = messenger)
    BY <2>1, <2>2
  <2> QED BY <1>6, <2>1, <2>3 DEF SentAsConfirmed
<1>7. CASE UNCHANGED <<vars, sendVars>>
  BY <1>7 DEF vars, sendVars, quoteVars, choice, selection, SentAsConfirmed
<1> QED BY <1>1, <1>2, <1>3, <1>4, <1>5, <1>6, <1>7 DEF SendNext

(* The transfer is of the amount the form showed as [Execute] was pressed, *)
(* and through its messenger unless the form moved while the passphrase    *)
(* was typed (activateSendButton, startExec), for any quotes.              *)
THEOREM SentIsConfirmed == SendSpec => []SentAsConfirmed
<1>1. SendInit => SendInv
  BY DEF SendInit, SendInv, SentAsConfirmed
<1>2. SendInit => SelectionIsOffered
  BY DEF SendInit, Init, SelectionIsOffered
<1>3. SendInv => SentAsConfirmed
  BY DEF SendInv
<1> QED
  BY <1>1, <1>2, <1>3, FormTypesInit, FormTypesStep, OfferedStep, SendStep, SendStepsForm, PTL
     DEF SendSpec

(* No token of the listing shares the reference of another.                *)
NoTwins ==
  \A t \in AnyToken : \A i \in DOMAIN Listing : RefOf[Listing[i]] = RefOf[t] => Listing[i] = t

(* What the pipeline resolves is what the form held.                       *)
HeldInv ==
  /\ exec \in {"none", "ask", "run"} => sent = Nothing
  /\ exec = "run" => \E t, u \in AnyToken :
       params.tokens = <<t, u>> /\ params.from = RefOf[t] /\ params.to = RefOf[u]
  /\ SentTokensAreHeld

(* Where references are unique the transfer is of the tokens the form      *)
(* held: the counterexample tuiform_token needs a symbol under two IDs on  *)
(* one chain.                                                              *)
THEOREM SentIsHeldWithoutTwins ==
  ASSUME NoTwins
  PROVE  SendSpec => []SentTokensAreHeld
<1>1. SendInit => HeldInv
  BY DEF SendInit, HeldInv, SentTokensAreHeld
<1>2. HeldInv => SentTokensAreHeld
  BY DEF HeldInv
<1>3. FormTypes /\ SendInv /\ HeldInv /\ [SendNext]_<<vars, sendVars>> => HeldInv'
  <2> SUFFICES ASSUME FormTypes, SendInv, HeldInv, [SendNext]_<<vars, sendVars>> PROVE HeldInv'
    OBVIOUS
  <2> USE DEF HeldInv
  <2>1. CASE Activate \/ EnterPassphrase
    <3>1. send \in AnyToken /\ recv \in AnyToken
      BY DEF FormTypes, TypeOK
    <3>2. exec \in {"none", "ask"}
      BY <2>1 DEF SendInv, Activate, EnterPassphrase, Execute, OnForm
    <3>3. UNCHANGED sent /\ sent = Nothing
      BY <2>1, <3>2 DEF Activate, EnterPassphrase
    <3>4. exec' \in {"ask", "run", "ended"}
          /\ (exec' = "run" => params'.tokens = <<send, recv>> /\ params'.from = RefOf[send]
                              /\ params'.to = RefOf[recv])
      BY <2>1 DEF Activate, EnterPassphrase, StartExec, pair
    <3> QED BY <3>1, <3>3, <3>4 DEF SentTokensAreHeld
  <2>2. CASE LeaveExec
    BY <2>2 DEF LeaveExec, SentTokensAreHeld
  <2>3. CASE Pipeline
    <3>1. exec = "run" /\ exec' = "ended" /\ UNCHANGED params
      BY <2>3 DEF Pipeline
    <3>2. PICK t \in AnyToken, u \in AnyToken :
            params.tokens = <<t, u>> /\ params.from = RefOf[t] /\ params.to = RefOf[u]
      BY <3>1
    <3>3. Resolved(params.from) \subseteq {t} /\ Resolved(params.to) \subseteq {u}
      BY <3>2, NoTwins DEF Resolved, NoTwins
    <3>4. sent' = Nothing \/ (sent'.send = t /\ sent'.recv = u)
      BY <2>3, <3>1, <3>3 DEF Pipeline
    <3> QED BY <3>1, <3>2, <3>4 DEF SentTokensAreHeld
  <2>4. CASE UNCHANGED <<exec, params, sent>>
    BY <2>4 DEF SentTokensAreHeld
  <2> QED BY <2>1, <2>2, <2>3, <2>4 DEF SendNext, sendVars
<1>4. SendInit => SendInv /\ SelectionIsOffered
  BY DEF SendInit, SendInv, SentAsConfirmed, Init, SelectionIsOffered
<1> QED
  BY <1>1, <1>2, <1>3, <1>4, FormTypesInit, FormTypesStep, OfferedStep, SendStep,
     SendStepsForm, PTL DEF SendSpec
=============================================================================
