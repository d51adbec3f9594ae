------------------------------ MODULE Keystore ------------------------------
(***************************************************************************)
(* The keystore file under several processes of the CLI                    *)
(* (cli/internal/wallet/keystore.go, cli/internal/cli/wallet.go).          *)
(*                                                                         *)
(* A command loads keystore.json, changes the store in memory and saves    *)
(* it: os.WriteFile to keystore.json.tmp, then os.Rename over the live     *)
(* file, with a remove-and-retry when the rename fails.  The mutex of a    *)
(* Store lives in one process; nothing orders two processes.  Files are    *)
(* inodes, so a descriptor opened on the temporary name keeps writing to   *)
(* the same file after another process has renamed it.                     *)
(***************************************************************************)
EXTENDS KeystoreOps, Naturals

CONSTANTS
  Writers,         \* processes that run keystore-changing commands
  Readers,         \* processes that only load the keystore
  Inodes,          \* files the directory may hold
  NoFile,          \* what a name that does not exist resolves to
  FileSystems,     \* TRUE is POSIX; FALSE: rename onto an existing file fails
  MaxCommands,     \* bound on the commands issued
  MaxAborts        \* bound on the crashes and I/O errors

ASSUME KeystoreConstants ==
  /\ NoFile \notin Inodes
  /\ FileSystems \subseteq BOOLEAN
  /\ Writers \cap Readers = {}
  /\ MaxCommands \in Nat
  /\ MaxAborts \in Nat

Processes == Writers \cup Readers

VARIABLES
  replaces,   \* os.Rename replaces an existing file here
  path,       \* the inode keystore.json names
  tmp,        \* the inode keystore.json.tmp names
  content,    \* what each inode holds
  pc,         \* where each process is in its command
  cmd,        \* the command each process runs
  mem,        \* the wallet.Store each process holds
  fd,         \* the descriptor os.WriteFile holds
  kept,       \* names added with success whose removal nobody has asked for
  loadError,  \* a Load found no store it could parse
  issued,     \* commands so far
  aborts,     \* crashes and I/O errors so far
  overwritten \* a Save began on .tmp while wallets were kept and no live file was there

vars == <<replaces, path, tmp, content, pc, cmd, mem, fd, kept, loadError, issued,
          aborts, overwritten>>

Files == [state : {"empty", "whole", "torn"}, data : Store]

Steps == {"idle", "load", "apply", "save", "opened", "rename", "retry", "rerename"}

TypeOK ==
  /\ replaces \in BOOLEAN
  /\ path \in Inodes \cup {NoFile}
  /\ tmp \in Inodes \cup {NoFile}
  /\ content \in [Inodes -> Files]
  /\ pc \in [Processes -> Steps]
  /\ cmd \in [Processes -> Commands]
  /\ mem \in [Processes -> Store]
  /\ fd \in [Processes -> Inodes \cup {NoFile}]
  /\ kept \subseteq Names
  /\ loadError \in BOOLEAN
  /\ issued \in Nat
  /\ aborts \in Nat
  /\ overwritten \in BOOLEAN

Init ==
  /\ replaces \in FileSystems
  /\ path = NoFile
  /\ tmp = NoFile
  /\ content = [i \in Inodes |-> [state |-> "empty", data |-> EmptyStore]]
  /\ pc = [p \in Processes |-> "idle"]
  /\ \E n \in Names : cmd = [p \in Processes |-> [op |-> "use", name |-> n]]
  /\ mem = [p \in Processes |-> EmptyStore]
  /\ fd = [p \in Processes |-> NoFile]
  /\ kept = {}
  /\ loadError = FALSE
  /\ issued = 0
  /\ aborts = 0
  /\ overwritten = FALSE

-----------------------------------------------------------------------------

Goto(p, step) == pc' = [pc EXCEPT ![p] = step]

(* A user starts a command; Load stats the keystore.  No file is an empty  *)
(* store.  From the moment a removal is asked for, its name is not kept.   *)
LoadStat(p, c) ==
  /\ pc[p] = "idle"
  /\ issued < MaxCommands
  /\ p \in Readers => c.op = "use"
  /\ issued' = issued + 1
  /\ cmd' = [cmd EXCEPT ![p] = c]
  /\ kept' = IF c.op = "rm" THEN kept \ {c.name} ELSE kept
  /\ mem' = [mem EXCEPT ![p] = EmptyStore]
  /\ Goto(p, IF path = NoFile THEN "apply" ELSE "load")
  /\ UNCHANGED <<replaces, path, tmp, content, fd, loadError, aborts, overwritten>>

(* Load reads and parses the file the stat has seen; an empty or torn file *)
(* does not parse, and the command ends.                                   *)
LoadRead(p) ==
  /\ pc[p] = "load"
  /\ IF path # NoFile /\ content[path].state = "whole"
     THEN /\ mem' = [mem EXCEPT ![p] = content[path].data]
          /\ Goto(p, "apply")
          /\ UNCHANGED loadError
     ELSE /\ loadError' = TRUE
          /\ Goto(p, "idle")
          /\ UNCHANGED mem
  /\ UNCHANGED <<replaces, path, tmp, content, cmd, fd, kept, issued, aborts, overwritten>>

(* Add, Remove or SetDefault on the loaded store, or its refusal. *)
Apply(p) ==
  /\ pc[p] = "apply"
  /\ \/ /\ mem' \in {[mem EXCEPT ![p] = s] : s \in Outcomes(mem[p], cmd[p])}
        /\ Goto(p, "save")
     \/ /\ Outcomes(mem[p], cmd[p]) = {}
        /\ Goto(p, "idle")
        /\ UNCHANGED mem
  /\ UNCHANGED <<replaces, path, tmp, content, cmd, fd, kept, loadError, issued, aborts, overwritten>>

(* Seeded fault: the live file is written in place. *)
OpenLive(p) ==
  /\ pc[p] = "save"
  /\ \E i \in Inodes :
       /\ path # NoFile => i = path
       /\ tmp' = IF path = NoFile THEN i ELSE tmp
       /\ fd' = [fd EXCEPT ![p] = i]
       /\ content' = [content EXCEPT ![i].state = "empty"]
  /\ Goto(p, "opened")
  /\ UNCHANGED <<replaces, path, cmd, mem, kept, loadError, issued, aborts, overwritten>>

(* os.WriteFile opens the temporary name with O_CREATE and O_TRUNC: the    *)
(* file a crash or another process left there is emptied, not replaced.    *)
OpenTmp(p) ==
  /\ pc[p] = "save"
  /\ \E i \in Inodes :
       /\ IF tmp = NoFile
          THEN i # path /\ \A q \in Processes : fd[q] # i
          ELSE i = tmp
       /\ tmp' = i
       /\ fd' = [fd EXCEPT ![p] = i]
       /\ content' = [content EXCEPT ![i].state = "empty"]
  /\ overwritten' = (overwritten \/ (path = NoFile /\ kept # {}))
  /\ Goto(p, "opened")
  /\ UNCHANGED <<replaces, path, cmd, mem, kept, loadError, issued, aborts>>

(* os.WriteFile writes the store at offset 0 and closes.  Over another     *)
(* process's bytes the result is this store, or this store with the tail   *)
(* of a longer one.                                                        *)
WriteTmp(p) ==
  /\ pc[p] = "opened"
  /\ \E s \in {"whole", "torn"} :
       /\ s = "torn" => content[fd[p]].state # "empty"
       /\ content' = [content EXCEPT ![fd[p]] = [state |-> s, data |-> mem[p]]]
  /\ fd' = [fd EXCEPT ![p] = NoFile]
  /\ Goto(p, "rename")
  /\ UNCHANGED <<replaces, path, tmp, cmd, mem, kept, loadError, issued, aborts, overwritten>>

(* os.Rename can move the temporary file over the live one. *)
CanRename == tmp # NoFile /\ (replaces \/ path = NoFile)

Succeed(p) ==
  /\ path' = tmp
  /\ tmp' = NoFile
  /\ kept' = IF cmd[p].op = "add" THEN kept \cup {cmd[p].name} ELSE kept
  /\ Goto(p, "idle")

(* Seeded fault: the live file is always removed first. *)
RenameAfterRemove(p) ==
  /\ pc[p] = "rename"
  /\ Goto(p, "retry")
  /\ UNCHANGED <<replaces, path, tmp, content, cmd, mem, fd, kept, loadError, issued, aborts, overwritten>>

(* Seeded fault: the error of the rename is dropped. *)
RenameUnchecked(p) ==
  /\ pc[p] = "rename"
  /\ IF CanRename THEN Succeed(p)
                  ELSE /\ kept' = IF cmd[p].op = "add" THEN kept \cup {cmd[p].name} ELSE kept
                       /\ Goto(p, "idle") /\ UNCHANGED <<path, tmp>>
  /\ UNCHANGED <<replaces, content, cmd, mem, fd, loadError, issued, aborts, overwritten>>

(* The first os.Rename. *)
Rename(p) ==
  /\ pc[p] = "rename"
  /\ IF CanRename THEN Succeed(p)
                  ELSE Goto(p, "retry") /\ UNCHANGED <<path, tmp, kept>>
  /\ UNCHANGED <<replaces, content, cmd, mem, fd, loadError, issued, aborts, overwritten>>

(* os.Remove of the live file; its absence is not an error. *)
RetryRemove(p) ==
  /\ pc[p] = "retry"
  /\ path' = NoFile
  /\ Goto(p, "rerename")
  /\ UNCHANGED <<replaces, tmp, content, cmd, mem, fd, kept, loadError, issued, aborts, overwritten>>

(* The second os.Rename, whose failure is the command's. *)
RetryRename(p) ==
  /\ pc[p] = "rerename"
  /\ IF CanRename THEN Succeed(p)
                  ELSE Goto(p, "idle") /\ UNCHANGED <<path, tmp, kept>>
  /\ UNCHANGED <<replaces, content, cmd, mem, fd, loadError, issued, aborts, overwritten>>

(* The process dies, or a system call fails and the command ends with an   *)
(* error.  A write cut short leaves part of the store behind.              *)
Abort(p) ==
  /\ pc[p] # "idle"
  /\ aborts < MaxAborts
  /\ aborts' = aborts + 1
  /\ Goto(p, "idle")
  /\ fd' = [fd EXCEPT ![p] = NoFile]
  /\ \/ UNCHANGED content
     \/ /\ pc[p] = "opened"
        /\ content' = [content EXCEPT ![fd[p]].state = "torn"]
  /\ UNCHANGED <<replaces, path, tmp, cmd, mem, kept, loadError, issued, overwritten>>

Step(p) ==
  \/ \E c \in Commands : LoadStat(p, c)
  \/ LoadRead(p)
  \/ Apply(p)
  \/ OpenTmp(p)
  \/ WriteTmp(p)
  \/ Rename(p)
  \/ RetryRemove(p)
  \/ RetryRename(p)
  \/ Abort(p)

Next == \E p \in Processes : Step(p)

Spec == Init /\ [][Next]_vars

-----------------------------------------------------------------------------

(* What a Load would return now. *)
LiveStore == IF path = NoFile THEN EmptyStore ELSE content[path].data

(* Every store a process is about to save and every store on disk has one  *)
(* of its wallets as the default if it has any, whatever the processes     *)
(* interleave, under any names: Store.Remove moves the default and         *)
(* Store.Add sets it (keystore.go:249, :307).                              *)
StoreWellFormed ==
  /\ \A p \in Processes : WellFormed(mem[p])
  /\ \A i \in Inodes : content[i].state = "whole" => WellFormed(content[i].data)

(* keystore.json is absent or complete at every moment: Save never writes  *)
(* the live file in place, so no crash of the writer truncates it.         *)
LiveFileWhole == path # NoFile => content[path].state = "whole"

(* On POSIX no command that loads the keystore while it is being saved     *)
(* fails because of the save.                                              *)
ReadersNeverFail == replaces => ~loadError

(* "Keeps POSIX behaviour unchanged (the first Rename succeeds and we      *)
(* never hit the retry)" (keystore.go:173), which removes the live file.   *)
PosixNeverRetries == replaces => \A p \in Processes : pc[p] \notin {"retry", "rerename"}

(* On POSIX a wallet whose `wallet add` reported success is in the live    *)
(* file until its removal is asked for, across crashes and failed commands.*)
KeptOnDisk == replaces => kept \subseteq LiveStore.entries

InSomeFile ==
  kept # {} =>
    \E i \in {path, tmp} \ {NoFile} :
      content[i].state = "whole" /\ kept \subseteq content[i].data.entries

(* Where a rename cannot replace a file, Save removes the live one first.  *)
(* A crash then, or at any other step, leaves the wallets added with       *)
(* success in the live or in the temporary file, through any commands      *)
(* until one saves a store it has loaded without a live file: that Save    *)
(* truncates the temporary file (keystore.go:117, :168, :176).             *)
KeptInSomeFile == overwritten \/ InSomeFile

(* With one writer every command takes effect at once, at its rename, on   *)
(* the store it was applied to, where a rename replaces.                   *)
Abs == INSTANCE KeystoreAbs WITH store <- LiveStore

AtomicStore == Abs!Init /\ [][replaces => Abs!Next]_LiveStore
=============================================================================
