------------------------------ MODULE ConfigFile -----------------------------
(***************************************************************************)
(* config.yaml (cli/internal/config/config.go, cli/internal/cli/config.go).*)
(* A process reads it once and keeps what it read; `config set` loads,     *)
(* changes one key and writes the file in place, by truncating it and      *)
(* writing it again.  A process may die, and a write fail, at any step.    *)
(***************************************************************************)
EXTENDS Naturals

CONSTANTS
  Processes,   \* which run one command after another, each a new process
  Setters,     \* those that may run `config set`
  Keys,        \* api.url, api.timeout, nextApi.url, network, rpc.<CHAIN>...
  Values,      \* what a key may be set to
  Blank,       \* the empty string, which may be one of them
  Defaults,    \* Defaults(): the value of every key
  OmitEmpty,   \* keys that Save leaves out when blank, and whose default is not
  MaxCommands  \* bound: how many commands are started

ASSUME ConfigConstants ==
  /\ Setters \subseteq Processes
  /\ Defaults \in [Keys -> Values]
  /\ OmitEmpty \subseteq Keys
  /\ MaxCommands \in Nat

VARIABLES
  file,     \* config.yaml
  process,  \* what each process is doing
  saved,    \* the settings the commands have reported as saved
  damaged,  \* whether a write was cut short
  commands  \* commands started

configVars == <<file, process, saved, damaged, commands>>

Configs == [Keys -> Values]

(* The file is absent, does not parse, or parses as the defaults with what *)
(* it names: an empty file parses as the defaults.                         *)
Absent == [is |-> "absent", config |-> Defaults]

Torn == [is |-> "torn", config |-> Defaults]

Parses(c) == [is |-> "parses", config |-> c]

Empty == Parses(Defaults)

(* What is written of a key, read back: a blank api.timeout or network is  *)
(* left out (omitempty) and then has its default; the other keys that are  *)
(* left out when blank have a blank default.                               *)
Reads(k, value) == IF k \in OmitEmpty /\ value = Blank THEN Defaults[k] ELSE value

ReadBack(c) == [k \in Keys |-> Reads(k, c[k])]

ConfigFiles == {Absent, Torn} \cup {Parses(c) : c \in Configs}

(* A process: its command, where it is, whether loadOnce has run, the      *)
(* cached config, and the configs its calls of Load have returned.         *)
Idle == [pc |-> "idle", set |-> FALSE, once |-> FALSE,
         cached |-> Defaults, seen |-> {}]

ConfigInit ==
  /\ file \in {Absent, Empty}
  /\ process = [p \in Processes |-> Idle]
  /\ saved = Defaults
  /\ damaged = FALSE
  /\ commands = 0

-----------------------------------------------------------------------------

(* `config set`, or a command that only reads the configuration.           *)
StartCommand(p, set) ==
  /\ process[p].pc = "idle"
  /\ set => p \in Setters
  /\ commands < MaxCommands
  /\ commands' = commands + 1
  /\ process' = [process EXCEPT ![p] = [Idle EXCEPT !.pc = "load", !.set = set]]
  /\ UNCHANGED <<file, saved, damaged>>

(* Seeded fault: every call reads the file. *)
LoadAgain(p) ==
  /\ process[p].pc \in {"load", "again"}
  /\ LET me == process[p]
         next == CASE me.set -> "open"
                   [] ~me.set /\ me.pc = "load" -> "again"
                   [] OTHER -> "idle"
     IN process' = [process EXCEPT ![p] =
          IF file.is = "torn" THEN Idle
          ELSE [me EXCEPT !.pc = next, !.once = TRUE, !.cached = file.config,
                          !.seen = @ \cup {file.config}]]
  /\ UNCHANGED <<file, saved, damaged, commands>>

(* Load: the first call reads the file, all return what it read.  A file   *)
(* that does not parse ends the command.                                   *)
Load(p) ==
  /\ process[p].pc \in {"load", "again"}
  /\ LET me == process[p]
         c == IF me.once THEN me.cached ELSE file.config
         next == CASE me.set -> "open"
                   [] ~me.set /\ me.pc = "load" -> "again"
                   [] OTHER -> "idle"
     IN process' = [process EXCEPT ![p] =
          IF ~me.once /\ file.is = "torn" THEN Idle
          ELSE [me EXCEPT !.pc = next, !.once = TRUE, !.cached = c,
                          !.seen = @ \cup {c}]]
  /\ UNCHANGED <<file, saved, damaged, commands>>

(* os.WriteFile opens the file with O_TRUNC, or fails to. *)
OpenFile(p) ==
  /\ process[p].pc = "open"
  /\ \/ /\ file' = Empty
        /\ process' = [process EXCEPT ![p].pc = "write"]
     \/ /\ process' = [process EXCEPT ![p].pc = "idle"]
        /\ UNCHANGED file
  /\ UNCHANGED <<saved, damaged, commands>>

(* Seeded fault: only the key that was set is written. *)
WriteKey(p, key, value) ==
  /\ process[p].pc = "write"
  /\ LET c == [Defaults EXCEPT ![key] = value]
     IN /\ file' = Parses(ReadBack(c))
        /\ process' = [process EXCEPT ![p].pc = "idle", ![p].cached = c]
        /\ saved' = [saved EXCEPT ![key] = value]
  /\ UNCHANGED <<damaged, commands>>

(* It writes the whole config; Save keeps it as the cached one, the blanks *)
(* included, and the command reports success.                              *)
WriteFile(p, key, value) ==
  /\ process[p].pc = "write"
  /\ LET c == [process[p].cached EXCEPT ![key] = value]
     IN /\ file' = Parses(ReadBack(c))
        /\ process' = [process EXCEPT ![p].pc = "idle", ![p].cached = c]
        /\ saved' = [saved EXCEPT ![key] = value]
  /\ UNCHANGED <<damaged, commands>>

(* The write fails or the process dies in it: the file holds a part of the *)
(* text, which parses as any of its settings, one of them cut, or does not.*)
CutShort(p) ==
  /\ process[p].pc = "write"
  /\ \/ file' = Torn
     \/ \E c \in Configs : file' = Parses(c)
  /\ process' = [process EXCEPT ![p].pc = "idle"]
  /\ damaged' = TRUE
  /\ UNCHANGED <<saved, commands>>

(* The process dies elsewhere. *)
Die(p) ==
  /\ process[p].pc \in {"load", "again", "open"}
  /\ process' = [process EXCEPT ![p].pc = "idle"]
  /\ UNCHANGED <<file, saved, damaged, commands>>

ConfigStep(p) ==
  \/ \E set \in BOOLEAN : StartCommand(p, set)
  \/ Load(p)
  \/ OpenFile(p)
  \/ \E key \in Keys, value \in Values : WriteFile(p, key, value)
  \/ CutShort(p)
  \/ Die(p)

ConfigNext == \E p \in Processes : ConfigStep(p)

ConfigSpec == ConfigInit /\ [][ConfigNext]_configVars

-----------------------------------------------------------------------------

ConfigTypeOK ==
  /\ file \in ConfigFiles
  /\ process \in [Processes ->
       [pc : {"idle", "load", "again", "open", "write"}, set : BOOLEAN,
        once : BOOLEAN, cached : Configs, seen : SUBSET Configs]]
  /\ saved \in Configs
  /\ damaged \in BOOLEAN
  /\ commands \in Nat

(* The next process reads of every key what `config set` has last reported *)
(* saved of it, or its default in place of a blank one that Save omits,    *)
(* unless a set is writing the file or one was cut short while it did:     *)
(* with one set at a time, for the file is written in place, from a copy   *)
(* loaded before (config.go:81).                                           *)
SettingsKept ==
  damaged \/ (\E p \in Processes : process[p].pc = "write")
    \/ (file.is # "torn" /\ \A k \in Keys : file.config[k] = Reads(k, saved[k]))

(* A process works with one configuration, whatever becomes of the file:   *)
(* all its calls of Load return the same (config.go:51-64).                *)
OneSnapshot ==
  \A p \in Processes : \A c, d \in process[p].seen : c = d
=============================================================================
