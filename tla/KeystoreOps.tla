----------------------------- MODULE KeystoreOps -----------------------------
(***************************************************************************)
(* The in-memory operations of the local keystore (wallet.Store): what     *)
(* `wallet add`, `wallet import`, `wallet rm` and `wallet set-default` do  *)
(* to a store once it is loaded.  Ciphertexts, salts and addresses are     *)
(* abstracted: an entry is its name.                                       *)
(***************************************************************************)
CONSTANTS
  Names,    \* wallet names a user may type: nothing refuses the empty one
  NoName    \* the empty string: as a default, no default wallet

(* wallet.Store as it is marshalled to keystore.json. *)
Store == [entries : SUBSET Names, default : Names \cup {NoName}]

EmptyStore == [entries |-> {}, default |-> NoName]

(* The commands that change the keystore, and "use": any command that only *)
(* loads it (wallet ls, wallet show, a bridge send that looks a key up).   *)
Commands == [op : {"add", "rm", "set-default", "use"}, name : Names]

(* Store.Add refuses a duplicate name; the first entry becomes the default. *)
Added(s, n) ==
  {[entries |-> s.entries \cup {m},
    default |-> IF s.default = NoName THEN m ELSE s.default] : m \in {n} \ s.entries}

(* Seeded fault: the default stays when its wallet is removed. *)
HeirsKeptDefault(s, n) == {s.default}

(* Store.Remove: when the default goes, whichever entry the map iteration  *)
(* yields first takes its place, none when the store is empty.             *)
Heirs(s, n) ==
  IF s.default # n THEN {s.default}
  ELSE IF s.entries = {n} THEN {NoName} ELSE s.entries \ {n}

Removed(s, n) ==
  {[entries |-> s.entries \ {n}, default |-> d] :
      d \in IF n \in s.entries THEN Heirs(s, n) ELSE {}}

(* Store.SetDefault refuses a name that has no entry. *)
Defaulted(s, n) == {[s EXCEPT !.default = d] : d \in s.entries \cap {n}}

(* The stores a command may leave in memory; none when it is refused or    *)
(* has nothing to save.                                                    *)
Outcomes(s, c) ==
  CASE c.op = "add"         -> Added(s, c.name)
    [] c.op = "rm"          -> Removed(s, c.name)
    [] c.op = "set-default" -> Defaulted(s, c.name)
    [] OTHER                -> {}

(* A store with entries has one of them as its default, one without has    *)
(* none.  Store.Get("") then finds an entry, unless the default is the     *)
(* empty name, which it takes for none.                                    *)
WellFormed(s) == IF s.entries = {} THEN s.default = NoName ELSE s.default \in s.entries
=============================================================================
