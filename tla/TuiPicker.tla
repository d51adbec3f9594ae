------------------------------ MODULE TuiPicker ------------------------------
(***************************************************************************)
(* The cursor and the viewport of the TUI's pickers (cli/internal/cli/     *)
(* tui.go: handlePickerKey, handleWalletPickerKey and what renders them).  *)
(* Tokens are searched and filtered by chain, so a list of them is only    *)
(* its length; lists are indexed from 0, and an index may leave them.      *)
(***************************************************************************)
EXTENDS Integers

CONSTANTS
  Rows,      \* pickerVisibleRows
  MaxItems,  \* bound on the tokens listed
  Wallets    \* the number of wallets in the keystore

ASSUME PickerConstants == Rows \in Nat \ {0} /\ MaxItems \in Nat /\ Wallets \in Nat

VARIABLES
  picker,    \* none, tokens or wallets
  cursor, offset,
  items,     \* how many tokens pass the filter
  walletIdx

vars == <<picker, cursor, offset, items, walletIdx>>

TypeOK ==
  /\ picker \in {"none", "tokens", "wallets"}
  /\ cursor \in Int
  /\ offset \in Int
  /\ items \in 0..MaxItems
  /\ walletIdx \in Nat

Init ==
  /\ picker = "none"
  /\ cursor = 0 /\ offset = 0
  /\ items = 0
  /\ walletIdx \in {0} \cup 0..(Wallets - 1)

-----------------------------------------------------------------------------

(* Seeded fault: the wallet picker is bounded by the tokens. *)
ListedTokens == items

(* The length of the list on the screen. *)
Listed == IF picker = "wallets" THEN Wallets ELSE items

(* Seeded fault: off by one at the last row. *)
ScrollLate ==
  offset' = IF cursor' < offset THEN cursor'
            ELSE IF cursor' > offset + Rows THEN cursor' - Rows ELSE offset

(* The end of both key handlers: the viewport follows the cursor. *)
Scroll ==
  offset' = IF cursor' < offset THEN cursor'
            ELSE IF cursor' >= offset + Rows THEN cursor' - Rows + 1 ELSE offset

(* openPicker and openWalletPicker. *)
OpenTokens ==
  /\ picker = "none"
  /\ picker' = "tokens"
  /\ cursor' = 0 /\ offset' = 0
  /\ items' \in 0..MaxItems
  /\ UNCHANGED walletIdx

OpenWallets ==
  /\ picker = "none"
  /\ picker' = "wallets"
  /\ cursor' = IF walletIdx < Wallets THEN walletIdx ELSE 0
  /\ offset' = 0
  /\ UNCHANGED <<items, walletIdx>>

(* Up and down, home and end: the keys of both pickers. *)
Move ==
  /\ picker # "none"
  /\ \/ cursor' = IF cursor > 0 THEN cursor - 1 ELSE cursor
     \/ cursor' = IF cursor < Listed - 1 THEN cursor + 1 ELSE cursor
     \/ cursor' = 0
     \/ cursor' = IF Listed > 0 THEN Listed - 1 ELSE cursor
  /\ Scroll
  /\ UNCHANGED <<picker, items, walletIdx>>

Page ==
  /\ picker = "tokens"
  /\ \/ cursor' = IF cursor < Rows THEN 0 ELSE cursor - Rows
     \/ cursor' = IF cursor + Rows >= items THEN items - 1 ELSE cursor + Rows
  /\ Scroll
  /\ UNCHANGED <<picker, items, walletIdx>>

(* A character of the search is typed or erased. *)
Search ==
  /\ picker = "tokens"
  /\ cursor' = 0
  /\ Scroll
  /\ items' \in 0..MaxItems
  /\ UNCHANGED <<picker, walletIdx>>

(* Left and right change the chain. *)
SwitchChain ==
  /\ picker = "tokens"
  /\ cursor' = 0 /\ offset' = 0
  /\ items' \in 0..MaxItems
  /\ UNCHANGED <<picker, walletIdx>>

(* Ctrl+A, or an answer with tokens, changes the list under the cursor.    *)
ListChanges ==
  /\ items' \in 0..MaxItems
  /\ UNCHANGED <<picker, cursor, offset, walletIdx>>

(* Ctrl+W, on whatever screen. *)
CtrlW ==
  /\ Wallets > 1
  /\ walletIdx' = (walletIdx + 1) % Wallets
  /\ UNCHANGED <<picker, cursor, offset, items>>

(* Enter on an item; only the sender's picker moves walletIdx. *)
Pick ==
  /\ picker # "none"
  /\ 0 <= cursor /\ cursor < Listed
  /\ picker' = "none"
  /\ \/ UNCHANGED walletIdx
     \/ picker = "wallets" /\ walletIdx' = cursor
  /\ UNCHANGED <<cursor, offset, items>>

Close ==
  /\ picker # "none"
  /\ picker' = "none"
  /\ UNCHANGED <<cursor, offset, items, walletIdx>>

Next ==
  \/ OpenTokens \/ OpenWallets \/ Move \/ Page \/ Search \/ SwitchChain \/ ListChanges
  \/ CtrlW \/ Pick \/ Close

Spec == Init /\ [][Next]_vars

-----------------------------------------------------------------------------

(* The viewport of the token picker holds the cursor after every sequence  *)
(* of keys and of changes of the list.                                     *)
CursorInViewport == picker = "tokens" => offset <= cursor /\ cursor < offset + Rows

(* The wallet under the cursor exists, and no row before the first one is  *)
(* rendered.                                                               *)
WalletUnderCursor ==
  picker = "wallets" =>
    /\ 0 <= offset /\ offset <= cursor
    /\ Wallets > 0 => cursor < Wallets

(* renderPicker indexes the list by the rows of the viewport, also when    *)
(* "no tokens match this filter" (tui.go).                                 *)
RowsExist ==
  picker = "tokens" =>
    \A i \in offset..(offset + Rows - 1) : i < items => 0 <= i
=============================================================================
