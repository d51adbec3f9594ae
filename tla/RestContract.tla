---------------------------- MODULE RestContract -----------------------------
(***************************************************************************)
(* The clients of the Core REST API against its handlers: a user of the    *)
(* typed client fills the fields of one request, a command of the CLI runs *)
(* its steps, and each request is answered by requireQueryParam before     *)
(* anything else (what follows is RestServer's).  A command ends with the  *)
(* exit code of the first failure it does not pass over.                   *)
(***************************************************************************)
EXTENDS CliCommands, Integers

CONSTANT WithMisfits  \* whether the commands of Misfits are run, too

(* Assumed of the constants by the modules that run this one. *)
ContractConstant == WithMisfits \in BOOLEAN

Commands == Fitting \cup (IF WithMisfits THEN Misfits ELSE {})

VARIABLES
  client,   \* "none", "typed" or "command"
  steps,    \* what the command has left to do
  filled,   \* the parameters of the request that carry a value
  blank,    \* those that are sent without: fields the user left at ""
  reply,    \* "none", "accepted" or "refused", and by which route
  exit      \* the exit code of the command, or -1

contractVars == <<client, steps, filled, blank, reply, exit>>

NoReply == [path |-> "none", is |-> "none"]

Carried == filled \cup blank

ContractTypeOK ==
  /\ client \in {"none", "typed", "command"}
  /\ blank = {} \/ client = "typed"
  /\ reply.is \in {"none", "accepted", "refused"}
  /\ reply.is # "none" => reply.path \in {form.path : form \in AllForms}
  /\ exit \in -1..4
  /\ client # "command" => steps = <<>>

ContractInit ==
  /\ client = "none"
  /\ steps = <<>>
  /\ filled = {} /\ blank = {}
  /\ reply = NoReply
  /\ exit = -1

Done == client = "none" \/ exit # -1 \/ (client = "typed" /\ reply # NoReply)

Reply(path, values) ==
  reply' = [path |-> path,
            is |-> IF Refused(path, values) THEN "refused" ELSE "accepted"]

(* A typed request: the plain fields are always sent, a blank one as "".   *)
SendTyped ==
  /\ Done
  /\ \E b \in Builders : \E left \in SUBSET b.always, set \in {{}, b.optional} :
       /\ client' = "typed"
       /\ steps' = <<>>
       /\ blank' = left
       /\ filled' = (b.always \ left) \cup set
       /\ Reply(b.path, filled')
  /\ exit' = -1

RunCommand ==
  /\ Done
  /\ \E c \in Commands : steps' = c
  /\ client' = "command"
  /\ filled' = {} /\ blank' = {}
  /\ reply' = NoReply
  /\ exit' = -1

(* The codes of exit.go. *)
ExitCode(step) ==
  CASE step.is = "user" -> 1 [] step.is = "get" -> 2
    [] step.is = "chain" -> 3 [] step.is = "wallet" -> 4

Pass ==
  /\ steps' = Tail(steps)
  /\ exit' = IF Len(steps) = 1 THEN 0 ELSE -1

Fail == exit' = ExitCode(Head(steps)) /\ steps' = <<>>

(* A step that is no request. *)
Step ==
  /\ client = "command" /\ exit = -1
  /\ Head(steps).is \in {"user", "wallet", "chain"}
  /\ Pass \/ Fail
  /\ filled' = {} /\ reply' = NoReply
  /\ UNCHANGED <<client, blank>>

(* A request: refused, failed on the way or behind the handler's first     *)
(* check, or answered.                                                     *)
Request ==
  /\ client = "command" /\ exit = -1
  /\ Head(steps).is \in {"get", "try"}
  /\ LET q == Head(steps).query
     IN \E set \in {{}, q.optional} :
          /\ filled' = q.always \cup set
          /\ Reply(q.path, filled')
  /\ \/ reply'.is = "accepted" /\ Pass
     \/ Head(steps).is = "try" /\ Pass
     \/ Head(steps).is = "get" /\ Fail
  /\ UNCHANGED <<client, blank>>

ContractNext == SendTyped \/ RunCommand \/ Step \/ Request

ContractSpec == ContractInit /\ [][ContractNext]_contractVars

-----------------------------------------------------------------------------

(* A request is refused for a missing parameter only if its user left one  *)
(* blank, and then it is; and no parameter is sent that its handler does   *)
(* not read.  The client was generated from a snapshot of the API, and the *)
(* commands name their parameters by hand.                                 *)
RequestsFit ==
  reply # NoReply =>
    /\ (reply.is = "refused") <=> (blank # {})
    /\ Carried \subseteq FormOf(reply.path).must \cup FormOf(reply.path).may
=============================================================================
