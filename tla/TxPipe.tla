-------------------------------- MODULE TxPipe -------------------------------
(***************************************************************************)
(* `tx build ... | tx sign | tx broadcast` (cli/internal/cli/tx.go,        *)
(* tx_sign.go): three processes that run at once, each reading its         *)
(* standard input to the end, which is when the one before it has ended.   *)
(* `tx sign` first looks for the passphrase, and without a command, a file *)
(* or $ALLBRIDGE_PASSPHRASE reads a line of its standard input, through a  *)
(* buffer that takes more of it than the line (wallet.go readSecret).      *)
(***************************************************************************)
EXTENDS Naturals, Sequences

CONSTANT MaxLines  \* bound: the lines of a transaction as printed

ASSUME PipeConstant == MaxLines \in Nat \ {0}

Stages == {"build", "sign", "broadcast"}

VARIABLES
  source,    \* of the passphrase: "own", a "line" piped ahead of the
             \* transaction, or "none"
  at,        \* the step of each process, or "ended"
  code,      \* its exit code
  pipes,     \* the lines in the pipe after "build" and after "sign"
  input,     \* what "sign" and "broadcast" have read of their transaction
  built,     \* the lines of the transaction that was built
  cast       \* what the chain was sent: "none", or lines

pipeVars == <<source, at, code, pipes, input, built, cast>>

(* A transaction is the lines it is printed in. *)
Lines(n) == [i \in 1..n |-> i]

PipeInit ==
  /\ source \in {"own", "line", "none"}
  /\ at = [s \in Stages |-> "config"]
  /\ code = [s \in Stages |-> 0]
  /\ pipes = [s \in {"build", "sign"} |-> <<>>]
  /\ input = [s \in {"sign", "broadcast"} |-> <<>>]
  /\ built = <<>>
  /\ cast = <<>>

-----------------------------------------------------------------------------

GoOn(s, step) == at' = [at EXCEPT ![s] = step] /\ UNCHANGED code

(* The process ends with an exit code, and its end of the pipes is closed. *)
Exit(s, n) ==
  /\ at' = [at EXCEPT ![s] = "ended"]
  /\ code' = [code EXCEPT ![s] = n]

(* resolve, which a configuration that does not parse ends. *)
Config(s) ==
  /\ at[s] = "config"
  /\ \/ GoOn(s, CASE s = "build" -> "request" [] s = "sign" -> "wallet"
                  [] s = "broadcast" -> "read")
     \/ Exit(s, 1)
  /\ UNCHANGED <<source, pipes, input, built, cast>>

(* runBuild: the flags are checked, and the answer is printed, whole.      *)
Build ==
  /\ at["build"] = "request"
  /\ \/ \E n \in 1..MaxLines :
          /\ built' = Lines(n)
          /\ pipes' = [pipes EXCEPT !["build"] = Lines(n)]
          /\ Exit("build", 0)
     \/ \E n \in {1, 2, 4} : Exit("build", n) /\ UNCHANGED <<built, pipes>>
  /\ UNCHANGED <<source, input, cast>>

(* wallet.Load and Get. *)
FindWallet ==
  /\ at["sign"] = "wallet"
  /\ GoOn("sign", "passphrase") \/ Exit("sign", 4)
  /\ UNCHANGED <<source, pipes, input, built, cast>>

(* promptPassphrase and Decrypt: the passphrase may be wrong, or its       *)
(* source fail.                                                            *)
OwnPassphrase ==
  /\ at["sign"] = "passphrase"
  /\ source = "own"
  /\ GoOn("sign", "read") \/ Exit("sign", 4)
  /\ UNCHANGED <<source, pipes, input, built, cast>>

(* readSecret: the buffer takes what the pipe holds behind the line, up to *)
(* its size, and it is not read from again.                                *)
PassphraseLine ==
  /\ at["sign"] = "passphrase"
  /\ source = "line"
  /\ \E n \in 0..Len(pipes["build"]) :
       pipes' = [pipes EXCEPT !["build"] = SubSeq(@, n + 1, Len(@))]
  /\ GoOn("sign", "read") \/ Exit("sign", 4)
  /\ UNCHANGED <<source, input, built, cast>>

(* A line of the transaction is never the passphrase. *)
TxForPassphrase ==
  /\ at["sign"] = "passphrase"
  /\ source = "none"
  /\ pipes["build"] # <<>> \/ at["build"] = "ended"
  /\ Exit("sign", 4)
  /\ UNCHANGED <<source, pipes, input, built, cast>>

Before(s) == IF s = "sign" THEN "build" ELSE "sign"

(* readBytes: io.ReadAll returns when the process before has ended.        *)
ReadAll(s) ==
  /\ at[s] = "read"
  /\ at[Before(s)] = "ended"
  /\ input' = [input EXCEPT ![s] = pipes[Before(s)]]
  /\ pipes' = [pipes EXCEPT ![Before(s)] = <<>>]
  /\ GoOn(s, "use")
  /\ UNCHANGED <<source, built, cast>>

(* Seeded fault: what is left of a transaction is signed. *)
SignAnything ==
  /\ at["sign"] = "use"
  /\ \/ /\ input["sign"] # <<>>
        /\ pipes' = [pipes EXCEPT !["sign"] = input["sign"]]
        /\ Exit("sign", 0)
     \/ Exit("sign", 3) /\ UNCHANGED pipes
  /\ UNCHANGED <<source, input, built, cast>>

(* sign.For and Sign: the rest of a transaction is not one, and is not     *)
(* signed.                                                                 *)
SignTx ==
  /\ at["sign"] = "use"
  /\ \/ /\ input["sign"] # <<>> /\ Head(input["sign"]) = 1
        /\ pipes' = [pipes EXCEPT !["sign"] = input["sign"]]
        /\ Exit("sign", 0)
     \/ Exit("sign", 3) /\ UNCHANGED pipes
  /\ UNCHANGED <<source, input, built, cast>>

(* An input that is no sign.Result ends the command before broadcast.For;  *)
(* the chain may accept what it is sent and the answer be lost.            *)
BroadcastTx ==
  /\ at["broadcast"] = "use"
  /\ IF input["broadcast"] = <<>>
     THEN Exit("broadcast", 1) /\ UNCHANGED cast
     ELSE \/ cast' = input["broadcast"] /\ \E n \in {0, 3} : Exit("broadcast", n)
          \/ Exit("broadcast", 3) /\ UNCHANGED cast
  /\ UNCHANGED <<source, pipes, input, built>>

PipeNext ==
  \/ \E s \in Stages : Config(s)
  \/ Build
  \/ FindWallet \/ OwnPassphrase \/ PassphraseLine \/ TxForPassphrase \/ SignTx
  \/ \E s \in {"sign", "broadcast"} : ReadAll(s)
  \/ BroadcastTx

PipeSpec == PipeInit /\ [][PipeNext]_pipeVars

-----------------------------------------------------------------------------

(* The exit code of a shell pipeline is that of its last process: if it is *)
(* 0 then no process before it failed, and the chain was sent all of the   *)
(* transaction that was built.                                             *)
PipelineHonest ==
  at["broadcast"] = "ended" /\ code["broadcast"] = 0 =>
    /\ \A s \in Stages : at[s] = "ended" /\ code[s] = 0
    /\ cast = built /\ built # <<>>

(* What `tx sign` goes on to sign is all that was built: the passphrase    *)
(* takes "exactly one line" of stdin (wallet.go:396).                      *)
PipedTxIsSigned == at["sign"] = "use" => input["sign"] = built
=============================================================================
