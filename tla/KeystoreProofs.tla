--------------------------- MODULE KeystoreProofs ---------------------------
(***************************************************************************)
(* What holds of the keystore for every set of processes, names and files. *)
(***************************************************************************)
EXTENDS Keystore, TLAPS

USE KeystoreConstants

(* Each in-memory operation turns a store into stores. *)
LEMMA OutcomesAreStores ==
  ASSUME NEW s \in Store, NEW c \in Commands, NEW t \in Outcomes(s, c)
  PROVE  t \in Store
<1>1. CASE c.op = "add"
  BY <1>1 DEF Outcomes, Added, Store, Commands
<1>2. CASE c.op = "rm"
  BY <1>2 DEF Outcomes, Removed, Heirs, Store, Commands
<1>3. CASE c.op = "set-default"
  BY <1>3 DEF Outcomes, Defaulted, Store, Commands
<1>4. CASE c.op = "use"
  BY <1>4 DEF Outcomes
<1> QED
  BY <1>1, <1>2, <1>3, <1>4 DEF Commands

(* Each in-memory operation keeps a resolvable default: Store.Add makes    *)
(* the first entry the default, Store.Remove hands the default on.         *)
LEMMA OutcomesAreWellFormed ==
  ASSUME NEW s \in Store, NEW c \in Commands, WellFormed(s), NEW t \in Outcomes(s, c)
  PROVE  WellFormed(t)
<1>1. CASE c.op = "add"
  BY <1>1 DEF Outcomes, Added, Store, Commands, WellFormed
<1>2. CASE c.op = "rm"
  BY <1>2 DEF Outcomes, Removed, Heirs, Store, Commands, WellFormed
<1>3. CASE c.op = "set-default"
  BY <1>3 DEF Outcomes, Defaulted, Store, Commands, WellFormed
<1>4. CASE c.op = "use"
  BY <1>4 DEF Outcomes
<1> QED
  BY <1>1, <1>2, <1>3, <1>4 DEF Commands

-----------------------------------------------------------------------------

LEMMA InitTypeOK == Init => TypeOK
<1> SUFFICES ASSUME Init PROVE TypeOK
  OBVIOUS
<1>1. EmptyStore \in Store
  BY DEF EmptyStore, Store
<1>2. content \in [Inodes -> Files]
  BY <1>1 DEF Init, Files
<1>3. cmd \in [Processes -> Commands]
  BY DEF Init, Commands
<1>4. pc \in [Processes -> Steps] /\ fd \in [Processes -> Inodes \cup {NoFile}]
  BY DEF Init, Steps
<1> QED
  BY <1>1, <1>2, <1>3, <1>4 DEF Init, TypeOK

LEMMA NextTypeOK == TypeOK /\ [Next]_vars => TypeOK'
<1> SUFFICES ASSUME TypeOK, [Next]_vars PROVE TypeOK'
  OBVIOUS
<1> USE DEF TypeOK, Steps, Goto
<1>1. CASE UNCHANGED vars
  BY <1>1 DEF vars
<1>2. ASSUME NEW p \in Processes, NEW c \in Commands, LoadStat(p, c) PROVE TypeOK'
  <2>1. EmptyStore \in Store
    BY DEF EmptyStore, Store
  <2>2. kept' \subseteq Names
    BY <1>2 DEF LoadStat
  <2> QED
    BY <1>2, <2>1, <2>2 DEF LoadStat
<1>3. ASSUME NEW p \in Processes, LoadRead(p) PROVE TypeOK'
  BY <1>3 DEF LoadRead, Files
<1>4. ASSUME NEW p \in Processes, Apply(p) PROVE TypeOK'
  <2>1. \A t \in Outcomes(mem[p], cmd[p]) : t \in Store
    BY OutcomesAreStores
  <2>2. mem' \in [Processes -> Store]
    BY <1>4, <2>1 DEF Apply
  <2> QED
    BY <1>4, <2>2 DEF Apply
<1>5. ASSUME NEW p \in Processes, OpenTmp(p) PROVE TypeOK'
  BY <1>5 DEF OpenTmp, Files
<1>6. ASSUME NEW p \in Processes, WriteTmp(p) PROVE TypeOK'
  <2>1. \A s \in {"whole", "torn"} : [state |-> s, data |-> mem[p]] \in Files
    BY DEF Files
  <2>2. content' \in [Inodes -> Files]
    BY <1>6, <2>1 DEF WriteTmp
  <2>3. pc' \in [Processes -> Steps] /\ fd' \in [Processes -> Inodes \cup {NoFile}]
    BY <1>6 DEF WriteTmp
  <2> QED
    BY <1>6, <2>2, <2>3 DEF WriteTmp
<1>7. ASSUME NEW p \in Processes, Rename(p) PROVE TypeOK'
  BY <1>7 DEF Rename, Succeed, Commands
<1>8. ASSUME NEW p \in Processes, RetryRemove(p) PROVE TypeOK'
  BY <1>8 DEF RetryRemove
<1>9. ASSUME NEW p \in Processes, RetryRename(p) PROVE TypeOK'
  BY <1>9 DEF RetryRename, Succeed, Commands
<1>10. ASSUME NEW p \in Processes, Abort(p) PROVE TypeOK'
  BY <1>10 DEF Abort, Files
<1> QED
  BY <1>1, <1>2, <1>3, <1>4, <1>5, <1>6, <1>7, <1>8, <1>9, <1>10 DEF Next, Step

(* Every reachable state is of its type. *)
THEOREM TypeCorrect == Spec => []TypeOK
  BY InitTypeOK, NextTypeOK, PTL DEF Spec

-----------------------------------------------------------------------------

(* The default of every store in memory and of every complete file on disk *)
(* resolves, for any number of processes saving over one another.          *)
THEOREM StoresStayWellFormed == Spec => []StoreWellFormed
<1>1. Init => StoreWellFormed
  BY DEF Init, StoreWellFormed, WellFormed, EmptyStore
<1>2. TypeOK /\ StoreWellFormed /\ [Next]_vars => StoreWellFormed'
  <2> SUFFICES ASSUME TypeOK, StoreWellFormed, [Next]_vars PROVE StoreWellFormed'
    OBVIOUS
  <2> USE DEF StoreWellFormed, TypeOK
  <2>1. CASE UNCHANGED vars
    BY <2>1 DEF vars
  <2>2. ASSUME NEW p \in Processes, NEW c \in Commands, LoadStat(p, c)
        PROVE  StoreWellFormed'
    <3>1. WellFormed(EmptyStore)
      BY DEF WellFormed, EmptyStore
    <3> QED
      BY <2>2, <3>1 DEF LoadStat
  <2>3. ASSUME NEW p \in Processes, LoadRead(p) PROVE StoreWellFormed'
    BY <2>3 DEF LoadRead
  <2>4. ASSUME NEW p \in Processes, Apply(p) PROVE StoreWellFormed'
    <3>1. \A t \in Outcomes(mem[p], cmd[p]) : WellFormed(t)
      BY OutcomesAreWellFormed
    <3> QED
      BY <2>4, <3>1 DEF Apply
  <2>5. ASSUME NEW p \in Processes, OpenTmp(p) PROVE StoreWellFormed'
    BY <2>5 DEF OpenTmp, Files
  <2>6. ASSUME NEW p \in Processes, WriteTmp(p) PROVE StoreWellFormed'
    BY <2>6 DEF WriteTmp, Files
  <2>7. ASSUME NEW p \in Processes,
               Rename(p) \/ RetryRemove(p) \/ RetryRename(p)
        PROVE  StoreWellFormed'
    BY <2>7 DEF Rename, RetryRemove, RetryRename
  <2>8. ASSUME NEW p \in Processes, Abort(p) PROVE StoreWellFormed'
    BY <2>8 DEF Abort, Files
  <2> QED
    BY <2>1, <2>2, <2>3, <2>4, <2>5, <2>6, <2>7, <2>8 DEF Next, Step
<1> QED
  BY <1>1, <1>2, TypeCorrect, PTL DEF Spec

-----------------------------------------------------------------------------

(* The mode in which nothing runs two keystore-changing commands at once.  *)
OneWriter == \A p, q \in Writers : p = q

(* How the temporary and the live file relate while one writer saves: the  *)
(* inode it fills is not the live one, and is complete when it is renamed. *)
FileInv ==
  /\ LiveFileWhole
  /\ tmp # NoFile => tmp # path
  /\ \A p \in Processes :
       /\ pc[p] \in {"save", "opened", "rename", "retry", "rerename"} => p \in Writers
       /\ p \in Readers => cmd[p].op = "use"
       /\ pc[p] = "opened" =>
            tmp # NoFile /\ fd[p] = tmp /\ content[tmp].state = "empty"
       /\ pc[p] \in {"rename", "retry", "rerename"} =>
            tmp # NoFile /\ content[tmp] = [state |-> "whole", data |-> mem[p]]

LEMMA FileInvInductive ==
  ASSUME OneWriter, TypeOK, FileInv, [Next]_vars
  PROVE  FileInv'
<1> USE DEF FileInv, TypeOK, LiveFileWhole, Goto, Processes, OneWriter
<1>1. CASE UNCHANGED vars
  BY <1>1 DEF vars
<1>2. ASSUME NEW p \in Processes, NEW c \in Commands, LoadStat(p, c) PROVE FileInv'
  BY <1>2 DEF LoadStat
<1>3. ASSUME NEW p \in Processes, LoadRead(p) PROVE FileInv'
  <2>1. pc'[p] \in {"apply", "idle"}
    BY <1>3 DEF LoadRead
  <2>2. \A q \in Processes \ {p} : pc'[q] = pc[q] /\ mem'[q] = mem[q]
    BY <1>3 DEF LoadRead
  <2>3. path' = path /\ tmp' = tmp /\ content' = content /\ fd' = fd /\ cmd' = cmd
    BY <1>3 DEF LoadRead
  <2>4. LiveFileWhole' /\ (tmp' # NoFile => tmp' # path')
    BY <2>3
  <2>5. \A q \in Processes : (pc'[q] = pc[q] /\ mem'[q] = mem[q]) \/ pc'[q] \in {"apply", "idle"}
    BY <2>1, <2>2
  <2>6. \A q \in Processes :
          /\ pc'[q] \in {"save", "opened", "rename", "retry", "rerename"} => q \in Writers
          /\ q \in Readers => cmd'[q].op = "use"
    BY <2>3, <2>5, <1>3 DEF LoadRead
  <2> QED
    BY <2>3, <2>4, <2>5, <2>6
<1>4. ASSUME NEW p \in Processes, Apply(p) PROVE FileInv'
  <2>1. p \in Readers => Outcomes(mem[p], cmd[p]) = {}
    BY DEF Outcomes
  <2> QED
    BY <1>4, <2>1 DEF Apply
<1>5. ASSUME NEW p \in Processes, OpenTmp(p) PROVE FileInv'
  <2>1. p \in Writers
    BY <1>5 DEF OpenTmp
  <2>2. PICK i \in Inodes :
          /\ i # path /\ tmp' = i
          /\ fd' = [fd EXCEPT ![p] = i]
          /\ content' = [content EXCEPT ![i].state = "empty"]
    BY <1>5 DEF OpenTmp
  <2>3. path # NoFile => content'[path'] = content[path]
    BY <1>5, <2>2 DEF OpenTmp
  <2>4. content'[i].state = "empty"
    BY <2>2 DEF Files
  <2>5. \A q \in Processes \ {p} : pc[q] \notin {"opened", "rename", "retry", "rerename"}
    BY <2>1
  <2> QED
    BY <1>5, <2>1, <2>2, <2>3, <2>4, <2>5 DEF OpenTmp
<1>6. ASSUME NEW p \in Processes, WriteTmp(p) PROVE FileInv'
  <2>1. p \in Writers /\ fd[p] = tmp /\ tmp \in Inodes /\ tmp # path
    BY <1>6 DEF WriteTmp
  <2>2. content' = [content EXCEPT ![tmp] = [state |-> "whole", data |-> mem[p]]]
    BY <1>6, <2>1 DEF WriteTmp
  <2>3. path # NoFile => content'[path'] = content[path]
    BY <1>6, <2>1, <2>2 DEF WriteTmp
  <2>4. content'[tmp'] = [state |-> "whole", data |-> mem'[p]]
    BY <1>6, <2>1, <2>2 DEF WriteTmp
  <2>5. \A q \in Processes \ {p} : pc[q] \notin {"opened", "rename", "retry", "rerename"}
    BY <2>1
  <2> QED
    BY <1>6, <2>1, <2>3, <2>4, <2>5 DEF WriteTmp
<1>7. ASSUME NEW p \in Processes, Rename(p) PROVE FileInv'
  <2>1. p \in Writers /\ tmp \in Inodes /\ tmp # path /\ content[tmp].state = "whole"
    <3>1. pc[p] = "rename"
      BY <1>7 DEF Rename
    <3>2. p \in Writers /\ tmp # NoFile /\ content[tmp] = [state |-> "whole", data |-> mem[p]]
      BY <3>1
    <3> QED
      BY <3>2
  <2>2. \A q \in Processes \ {p} :
          pc'[q] = pc[q] /\ pc[q] \notin {"opened", "rename", "retry", "rerename"}
    BY <1>7, <2>1 DEF Rename, Succeed
  <2>3. CASE CanRename
    <3>1. path' = tmp /\ tmp' = NoFile /\ pc'[p] = "idle"
      BY <1>7, <2>3 DEF Rename, Succeed
    <3> QED
      BY <1>7, <2>1, <2>2, <3>1 DEF Rename
  <2>4. CASE ~CanRename
    <3>1. path' = path /\ tmp' = tmp /\ pc'[p] \in {"idle", "retry"}
      BY <1>7, <2>4 DEF Rename
    <3> QED
      BY <1>7, <2>1, <2>2, <3>1 DEF Rename
  <2> QED
    BY <2>3, <2>4
<1>8. ASSUME NEW p \in Processes, RetryRemove(p) PROVE FileInv'
  BY <1>8 DEF RetryRemove
<1>9. ASSUME NEW p \in Processes, RetryRename(p) PROVE FileInv'
  <2>1. p \in Writers /\ tmp \in Inodes /\ tmp # path /\ content[tmp].state = "whole"
    <3>1. pc[p] = "rerename"
      BY <1>9 DEF RetryRename
    <3>2. p \in Writers /\ tmp # NoFile /\ content[tmp] = [state |-> "whole", data |-> mem[p]]
      BY <3>1
    <3> QED
      BY <3>2
  <2>2. \A q \in Processes \ {p} :
          pc'[q] = pc[q] /\ pc[q] \notin {"opened", "rename", "retry", "rerename"}
    BY <1>9, <2>1 DEF RetryRename, Succeed
  <2>3. CASE CanRename
    <3>1. path' = tmp /\ tmp' = NoFile /\ pc'[p] = "idle"
      BY <1>9, <2>3 DEF RetryRename, Succeed
    <3> QED
      BY <1>9, <2>1, <2>2, <3>1 DEF RetryRename
  <2>4. CASE ~CanRename
    <3>1. path' = path /\ tmp' = tmp /\ pc'[p] \in {"idle", "retry"}
      BY <1>9, <2>4 DEF RetryRename
    <3> QED
      BY <1>9, <2>1, <2>2, <3>1 DEF RetryRename
  <2> QED
    BY <2>3, <2>4
<1>10. ASSUME NEW p \in Processes, Abort(p) PROVE FileInv'
  <2>1. \A q \in Processes \ {p} :
          pc[p] = "opened" => pc[q] \notin {"opened", "rename", "retry", "rerename"}
    BY <1>10
  <2>2. path # NoFile => content'[path'] = content[path]
    <3>1. path' = path
      BY <1>10 DEF Abort
    <3>2. CASE content' = content
      BY <3>1, <3>2
    <3>3. CASE pc[p] = "opened" /\ content' = [content EXCEPT ![fd[p]].state = "torn"]
      <4>1. fd[p] # path
        BY <1>10, <3>3
      <4> QED
        BY <3>1, <3>3, <4>1
    <3> QED
      BY <1>10, <3>2, <3>3 DEF Abort
  <2> QED
    BY <1>10, <2>1, <2>2 DEF Abort
<1> QED
  BY <1>1, <1>2, <1>3, <1>4, <1>5, <1>6, <1>7, <1>8, <1>9, <1>10 DEF Next, Step

(* With one writer keystore.json is absent or complete at every moment,    *)
(* whether or not a rename can replace it and wherever the writer dies.    *)
THEOREM LiveFileStaysWhole ==
  ASSUME OneWriter
  PROVE  Spec => [](FileInv /\ LiveFileWhole)
<1>1. Init => FileInv
  BY DEF Init, FileInv, LiveFileWhole, Processes
<1>2. TypeOK /\ FileInv /\ [Next]_vars => FileInv'
  BY OneWriter, FileInvInductive
<1>3. FileInv => LiveFileWhole
  BY DEF FileInv
<1> QED
  BY <1>1, <1>2, <1>3, TypeCorrect, PTL DEF Spec

-----------------------------------------------------------------------------

(* An operation loses no entry but the one it was asked to remove, and an  *)
(* addition gains the one it was asked to add.                             *)
LEMMA OutcomesKeepEntries ==
  ASSUME NEW s \in Store, NEW c \in Commands, NEW t \in Outcomes(s, c)
  PROVE  /\ s.entries \ (IF c.op = "rm" THEN {c.name} ELSE {}) \subseteq t.entries
         /\ c.op = "add" => c.name \in t.entries
<1>1. CASE c.op = "add"
  BY <1>1 DEF Outcomes, Added, Store, Commands
<1>2. CASE c.op = "rm"
  BY <1>2 DEF Outcomes, Removed, Heirs, Store, Commands
<1>3. CASE c.op = "set-default"
  BY <1>3 DEF Outcomes, Defaulted, Store, Commands
<1>4. CASE c.op = "use"
  BY <1>4 DEF Outcomes
<1> QED
  BY <1>1, <1>2, <1>3, <1>4 DEF Commands

(* Where a rename replaces: what the one writer holds in memory derives    *)
(* from the store that is still live.                                      *)
PosixInv ==
  /\ kept \subseteq LiveStore.entries
  /\ ~loadError
  /\ \A p \in Processes :
       /\ pc[p] \notin {"retry", "rerename"}
       /\ pc[p] = "load" => path # NoFile
  /\ \A p \in Writers :
       /\ pc[p] = "apply" => mem[p] = LiveStore
       /\ pc[p] \in {"save", "opened", "rename"} => mem[p] \in Outcomes(LiveStore, cmd[p])
       /\ pc[p] # "idle" /\ cmd[p].op = "rm" => cmd[p].name \notin kept

(* Only a rename changes what a Load would return. *)
LEMMA OnlyRenameChangesTheStore ==
  ASSUME OneWriter, TypeOK, FileInv, NEW p \in Processes,
         (\E c \in Commands : LoadStat(p, c)) \/ LoadRead(p) \/ Apply(p)
           \/ OpenTmp(p) \/ WriteTmp(p) \/ Abort(p)
  PROVE  LiveStore' = LiveStore
<1> USE DEF TypeOK, LiveStore
<1>1. CASE (\E c \in Commands : LoadStat(p, c)) \/ LoadRead(p) \/ Apply(p)
  BY <1>1 DEF LoadStat, LoadRead, Apply
<1>2. CASE OpenTmp(p)
  <2>1. PICK i \in Inodes : i # path /\ content' = [content EXCEPT ![i].state = "empty"]
    BY <1>2 DEF OpenTmp, FileInv
  <2> QED
    BY <1>2, <2>1 DEF OpenTmp
<1>3. CASE WriteTmp(p)
  <2>1. fd[p] # path /\ path' = path
    BY <1>3 DEF WriteTmp, FileInv
  <2>2. \A i \in Inodes : i # fd[p] => content'[i] = content[i]
    BY <1>3 DEF WriteTmp
  <2> QED
    BY <2>1, <2>2
<1>4. CASE Abort(p)
  <2>1. pc[p] = "opened" => fd[p] # path
    BY <1>4 DEF FileInv
  <2>2. path' = path
    BY <1>4 DEF Abort
  <2>3. \A i \in Inodes : i # path \/ content'[i] = content[i]
    <3>1. CASE content' = content
      BY <3>1
    <3>2. CASE pc[p] = "opened" /\ content' = [content EXCEPT ![fd[p]].state = "torn"]
      BY <2>1, <3>2
    <3> QED
      BY <1>4, <3>1, <3>2 DEF Abort
  <2>4. path # NoFile => content'[path].data = content[path].data
    <3>1. CASE content' = content
      BY <3>1
    <3>2. CASE pc[p] = "opened" /\ content' = [content EXCEPT ![fd[p]].state = "torn"]
      BY <2>1, <3>2
    <3> QED
      BY <1>4, <3>1, <3>2 DEF Abort
  <2> QED
    BY <2>2, <2>4
<1> QED
  BY <1>1, <1>2, <1>3, <1>4

(* The rename of the one writer puts in place what its command makes of    *)
(* the store that was live until then.                                     *)
LEMMA RenameExecutes ==
  ASSUME replaces, TypeOK, FileInv, PosixInv,
         NEW p \in Processes, Rename(p)
  PROVE  /\ p \in Writers
         /\ LiveStore' = mem[p]
         /\ LiveStore' \in Outcomes(LiveStore, cmd[p])
         /\ kept' = IF cmd[p].op = "add" THEN kept \cup {cmd[p].name} ELSE kept
         /\ pc' = [pc EXCEPT ![p] = "idle"]
<1>1. pc[p] = "rename"
  BY DEF Rename
<1>2. p \in Writers /\ tmp # NoFile /\ content[tmp] = [state |-> "whole", data |-> mem[p]]
  BY <1>1 DEF FileInv
<1>3. Succeed(p) /\ content' = content
  BY <1>2 DEF Rename, CanRename
<1>4. LiveStore' = mem[p]
  BY <1>2, <1>3 DEF Succeed, LiveStore
<1>5. mem[p] \in Outcomes(LiveStore, cmd[p])
  BY <1>1, <1>2 DEF PosixInv
<1> QED
  BY <1>2, <1>3, <1>4, <1>5 DEF Succeed, Goto

LEMMA PosixInvInductive ==
  ASSUME OneWriter, replaces, TypeOK, FileInv, PosixInv, [Next]_vars
  PROVE  PosixInv'
<1> USE DEF TypeOK, PosixInv, Goto
<1>1. CASE UNCHANGED vars
  BY <1>1 DEF vars, LiveStore
<1>2. ASSUME NEW p \in Processes, NEW c \in Commands, LoadStat(p, c) PROVE PosixInv'
  <2>1. LiveStore' = LiveStore
    BY <1>2, OnlyRenameChangesTheStore
  <2>2. path = NoFile => LiveStore = EmptyStore
    BY DEF LiveStore
  <2> QED
    BY <1>2, <2>1, <2>2 DEF LoadStat, Processes
<1>3. ASSUME NEW p \in Processes, LoadRead(p) PROVE PosixInv'
  <2>1. LiveStore' = LiveStore
    BY <1>3, OnlyRenameChangesTheStore
  <2>2. path # NoFile /\ content[path].state = "whole"
    BY <1>3 DEF LoadRead, FileInv, LiveFileWhole
  <2>3. mem' = [mem EXCEPT ![p] = LiveStore] /\ pc' = [pc EXCEPT ![p] = "apply"]
    BY <1>3, <2>2 DEF LoadRead, LiveStore
  <2> QED
    BY <1>3, <2>1, <2>2, <2>3 DEF LoadRead, Processes
<1>4. ASSUME NEW p \in Processes, Apply(p) PROVE PosixInv'
  <2>1. LiveStore' = LiveStore
    BY <1>4, OnlyRenameChangesTheStore
  <2>2. p \in Writers => mem[p] = LiveStore
    BY <1>4 DEF Apply
  <2>3. pc'[p] = "idle" \/ (pc'[p] = "save" /\ mem'[p] \in Outcomes(mem[p], cmd[p]))
    <3>1. CASE pc' = [pc EXCEPT ![p] = "idle"]
      BY <3>1
    <3>2. CASE pc' = [pc EXCEPT ![p] = "save"]
      <4>1. PICK s \in Outcomes(mem[p], cmd[p]) : mem' = [mem EXCEPT ![p] = s]
        BY <1>4, <3>2 DEF Apply
      <4> QED
        BY <3>2, <4>1
    <3> QED
      BY <1>4, <3>1, <3>2 DEF Apply
  <2>4. \A q \in Processes \ {p} : pc'[q] = pc[q] /\ mem'[q] = mem[q]
    BY <1>4 DEF Apply
  <2> QED
    BY <1>4, <2>1, <2>2, <2>3, <2>4 DEF Apply, Processes
<1>5. ASSUME NEW p \in Processes, OpenTmp(p) \/ WriteTmp(p) \/ Abort(p) PROVE PosixInv'
  <2>1. LiveStore' = LiveStore
    BY <1>5, OnlyRenameChangesTheStore
  <2>2. /\ path' = path /\ kept' = kept /\ loadError' = loadError
        /\ cmd' = cmd /\ mem' = mem
    BY <1>5 DEF OpenTmp, WriteTmp, Abort
  <2>3. \/ pc[p] = "save" /\ pc' = [pc EXCEPT ![p] = "opened"]
        \/ pc[p] = "opened" /\ pc' = [pc EXCEPT ![p] = "rename"]
        \/ pc' = [pc EXCEPT ![p] = "idle"]
    BY <1>5 DEF OpenTmp, WriteTmp, Abort
  <2> QED
    BY <2>1, <2>2, <2>3 DEF Processes
<1>6. ASSUME NEW p \in Processes, Rename(p) PROVE PosixInv'
  <2>1. /\ p \in Writers
        /\ LiveStore' \in Outcomes(LiveStore, cmd[p])
        /\ kept' = IF cmd[p].op = "add" THEN kept \cup {cmd[p].name} ELSE kept
        /\ pc' = [pc EXCEPT ![p] = "idle"]
    BY <1>6, RenameExecutes
  <2>2. LiveStore \in Store
    BY DEF LiveStore, Files, EmptyStore, Store
  <2>3. kept' \subseteq LiveStore'.entries
    <3>1. cmd[p].op = "rm" => cmd[p].name \notin kept
      BY <1>6, <2>1 DEF Rename
    <3>2. /\ LiveStore.entries \ (IF cmd[p].op = "rm" THEN {cmd[p].name} ELSE {})
               \subseteq LiveStore'.entries
          /\ cmd[p].op = "add" => cmd[p].name \in LiveStore'.entries
      BY <2>1, <2>2, OutcomesKeepEntries
    <3> QED
      BY <2>1, <3>1, <3>2
  <2>4. path' # NoFile
    BY <1>6 DEF Rename, Succeed, CanRename, FileInv
  <2>5. \A q \in Writers : pc'[q] = "idle"
    BY <2>1 DEF OneWriter, Processes
  <2> QED
    BY <1>6, <2>1, <2>3, <2>4, <2>5 DEF Rename
<1>7. ASSUME NEW p \in Processes, RetryRemove(p) \/ RetryRename(p) PROVE PosixInv'
  BY <1>7 DEF RetryRemove, RetryRename
<1> QED
  BY <1>1, <1>2, <1>3, <1>4, <1>5, <1>6, <1>7 DEF Next, Step

(* A file system does not change its ways. *)
LEMMA SameFileSystem == [Next]_vars => replaces' = replaces
  BY DEF Next, Step, vars, LoadStat, LoadRead, Apply, OpenTmp, WriteTmp, Rename, RetryRemove,
         RetryRename, Abort

LEMMA PosixInvariant ==
  ASSUME OneWriter
  PROVE  Spec => [](TypeOK /\ FileInv /\ (replaces => PosixInv))
<1>1. Init => PosixInv
  BY DEF Init, PosixInv, LiveStore, Processes
<1>2. TypeOK /\ FileInv /\ (replaces => PosixInv) /\ [Next]_vars => (replaces => PosixInv)'
  BY OneWriter, PosixInvInductive, SameFileSystem
<1>3. Spec => [](FileInv /\ LiveFileWhole)
  BY OneWriter, LiveFileStaysWhole
<1> QED
  BY <1>1, <1>2, <1>3, TypeCorrect, PTL DEF Spec

(* With one writer on POSIX, a wallet that was added stays in the live     *)
(* file until somebody asks for its removal, no Load ever fails, and Save  *)
(* never comes to remove the live file, across any crashes.                *)
THEOREM AddedWalletsStay ==
  ASSUME OneWriter
  PROVE  Spec => [](KeptOnDisk /\ ReadersNeverFail /\ PosixNeverRetries)
<1>1. (replaces => PosixInv) => KeptOnDisk /\ ReadersNeverFail /\ PosixNeverRetries
  BY DEF PosixInv, KeptOnDisk, ReadersNeverFail, PosixNeverRetries
<1>2. Spec => [](TypeOK /\ FileInv /\ (replaces => PosixInv))
  BY OneWriter, PosixInvariant
<1> QED
  BY <1>1, <1>2, PTL

(* With one writer on POSIX the files implement a store that every command *)
(* replaces in one step: the step is the rename, the rest stutters.        *)
THEOREM KeystoreIsAtomic ==
  ASSUME OneWriter
  PROVE  Spec => AtomicStore
<1>1. Init => Abs!Init
  BY DEF Init, Abs!Init, LiveStore, EmptyStore, Abs!EmptyStore
<1>2. TypeOK /\ FileInv /\ (replaces => PosixInv) /\ [Next]_vars
        => [replaces => Abs!Next]_LiveStore
  <2> SUFFICES ASSUME TypeOK, FileInv, PosixInv, replaces, [Next]_vars
               PROVE  Abs!Next \/ LiveStore' = LiveStore
    OBVIOUS
  <2>1. CASE UNCHANGED vars
    BY <2>1 DEF vars, LiveStore
  <2>2. ASSUME NEW p \in Processes, Rename(p) PROVE Abs!Next
    <3>1. LiveStore' \in Outcomes(LiveStore, cmd[p]) /\ cmd[p] \in Commands
      BY <2>2, RenameExecutes DEF TypeOK
    <3> QED
      BY <3>1 DEF Abs!Next, Abs!Execute, Abs!Outcomes, Outcomes, Abs!Commands, Commands,
                  Abs!Added, Added, Abs!Removed, Removed, Abs!Heirs, Heirs,
                  Abs!Defaulted, Defaulted
  <2>3. ASSUME NEW p \in Processes, RetryRemove(p) \/ RetryRename(p) PROVE FALSE
    BY <2>3 DEF RetryRemove, RetryRename, PosixInv
  <2> QED
    BY <2>1, <2>2, <2>3, OneWriter, OnlyRenameChangesTheStore DEF Next, Step
<1>3. Spec => [](TypeOK /\ FileInv /\ (replaces => PosixInv))
  BY OneWriter, PosixInvariant
<1> QED
  BY <1>1, <1>2, <1>3, PTL DEF Spec, AtomicStore

-----------------------------------------------------------------------------

(* Where the live file may have to be removed before a rename: until it is *)
(* removed it holds what is kept; from then on what the writer has put in  *)
(* the temporary file does, and goes on doing so if the writer dies, until *)
(* a Save opens that file while no live one is there.                      *)
KeptFiles ==
  /\ path # NoFile => kept \subseteq content[path].data.entries
  /\ path = NoFile /\ kept # {} =>
       tmp # NoFile /\ content[tmp].state = "whole" /\ kept \subseteq content[tmp].data.entries

SaverInv(p) ==
  /\ pc[p] = "load" => path # NoFile
  /\ pc[p] = "apply" => mem[p] = LiveStore
  /\ pc[p] \in {"opened", "rename", "retry"} => path # NoFile \/ kept = {}
  /\ pc[p] \in {"save", "opened", "rename", "retry"} => mem[p] \in Outcomes(LiveStore, cmd[p])
  /\ pc[p] # "idle" /\ cmd[p].op = "rm" => cmd[p].name \notin kept
  /\ pc[p] = "rerename" =>
       /\ path = NoFile
       /\ kept \subseteq mem[p].entries
       /\ cmd[p].op = "add" => cmd[p].name \in mem[p].entries

WindowInv == KeptFiles /\ \A p \in Writers : SaverInv(p)

(* What a command was to save keeps what the live file kept. *)
LEMMA OutcomesKeepKept ==
  ASSUME OneWriter, TypeOK, WindowInv, NEW p \in Writers, pc[p] \in {"rename", "retry"}
  PROVE  /\ kept \subseteq mem[p].entries
         /\ cmd[p].op = "add" => cmd[p].name \in mem[p].entries
<1>1. mem[p] \in Outcomes(LiveStore, cmd[p])
  BY DEF WindowInv, SaverInv
<1>2. LiveStore \in Store /\ cmd[p] \in Commands
  BY DEF TypeOK, Processes, LiveStore, Files, EmptyStore, Store
<1>3. cmd[p].op = "rm" => cmd[p].name \notin kept
  BY DEF WindowInv, SaverInv
<1>4. kept \subseteq LiveStore.entries
  <2>1. path # NoFile \/ kept = {}
    BY DEF WindowInv, SaverInv
  <2> QED
    BY <2>1 DEF WindowInv, KeptFiles, LiveStore
<1> QED
  BY <1>1, <1>2, <1>3, <1>4, OutcomesKeepEntries

(* A step of a process that leaves a writer and the files alone. *)
LEMMA OthersStay ==
  ASSUME NEW q \in Writers, SaverInv(q), pc'[q] = pc[q], mem'[q] = mem[q],
         cmd'[q] = cmd[q], path' = path, LiveStore' = LiveStore, kept' \subseteq kept
  PROVE  SaverInv(q)'
  BY DEF SaverInv

LEMMA WindowInvInductive ==
  ASSUME OneWriter, TypeOK, FileInv, WindowInv, [Next]_vars, ~overwritten'
  PROVE  WindowInv'
<1> USE DEF TypeOK, Goto
<1>1. CASE UNCHANGED vars
  BY <1>1 DEF vars, LiveStore, WindowInv, KeptFiles, SaverInv
<1>2. ASSUME NEW p \in Processes, NEW c \in Commands, LoadStat(p, c) PROVE WindowInv'
  <2>1. LiveStore' = LiveStore /\ (path = NoFile => LiveStore = EmptyStore)
    BY <1>2, OnlyRenameChangesTheStore DEF LiveStore
  <2>2. kept' \subseteq kept /\ UNCHANGED <<path, tmp, content>>
    BY <1>2 DEF LoadStat
  <2>3. KeptFiles'
    BY <2>2 DEF WindowInv, KeptFiles
  <2>4. ASSUME NEW q \in Writers PROVE SaverInv(q)'
    <3>1. CASE q = p
      <4>1. /\ pc'[q] = IF path = NoFile THEN "apply" ELSE "load"
            /\ mem'[q] = EmptyStore
            /\ cmd'[q] = c
            /\ c.op = "rm" => c.name \notin kept'
        BY <1>2, <3>1 DEF LoadStat
      <4> QED
        BY <2>1, <2>2, <4>1 DEF SaverInv
    <3>2. CASE q # p
      <4>1. pc'[q] = pc[q] /\ mem'[q] = mem[q] /\ cmd'[q] = cmd[q]
        BY <1>2, <3>2 DEF LoadStat, Processes
      <4> QED
        BY <2>1, <2>2, <4>1, OthersStay DEF WindowInv
    <3> QED
      BY <3>1, <3>2
  <2> QED
    BY <2>3, <2>4 DEF WindowInv
<1>3. ASSUME NEW p \in Processes, LoadRead(p) \/ Apply(p) PROVE WindowInv'
  <2>1. LiveStore' = LiveStore /\ UNCHANGED <<path, tmp, content, kept, cmd>>
    BY <1>3, OnlyRenameChangesTheStore DEF LoadRead, Apply
  <2>2. KeptFiles'
    BY <2>1 DEF WindowInv, KeptFiles
  <2>3. \/ pc'[p] = "idle"
        \/ pc'[p] = "apply" /\ mem'[p] = LiveStore /\ pc[p] = "load"
        \/ pc'[p] = "save" /\ mem'[p] \in Outcomes(mem[p], cmd[p]) /\ pc[p] = "apply"
    <3>1. CASE LoadRead(p)
      BY <3>1 DEF LoadRead, LiveStore
    <3>2. CASE Apply(p) /\ pc' = [pc EXCEPT ![p] = "idle"]
      BY <3>2
    <3>3. CASE Apply(p) /\ pc' = [pc EXCEPT ![p] = "save"]
      <4>1. PICK s \in Outcomes(mem[p], cmd[p]) : mem' = [mem EXCEPT ![p] = s]
        BY <3>3 DEF Apply
      <4> QED
        BY <3>3, <4>1 DEF Apply
    <3> QED
      BY <1>3, <3>1, <3>2, <3>3 DEF Apply
  <2>4. ASSUME NEW q \in Writers PROVE SaverInv(q)'
    <3>1. CASE q = p
      BY <2>1, <2>3, <3>1 DEF WindowInv, SaverInv
    <3>2. CASE q # p
      <4>1. pc'[q] = pc[q] /\ mem'[q] = mem[q]
        BY <1>3, <3>2 DEF LoadRead, Apply, Processes
      <4> QED
        BY <2>1, <4>1, OthersStay DEF WindowInv
    <3> QED
      BY <3>1, <3>2
  <2> QED
    BY <2>2, <2>4 DEF WindowInv
<1>4. ASSUME NEW p \in Processes, OpenTmp(p) PROVE WindowInv'
  <2>1. LiveStore' = LiveStore /\ UNCHANGED <<path, kept, cmd, mem>>
    BY <1>4, OnlyRenameChangesTheStore DEF OpenTmp
  <2>2. path # NoFile \/ kept = {}
    BY <1>4 DEF OpenTmp
  <2>3. KeptFiles'
    BY <2>1, <2>2 DEF WindowInv, KeptFiles, LiveStore
  <2>4. pc[p] = "save" /\ pc' = [pc EXCEPT ![p] = "opened"]
    BY <1>4 DEF OpenTmp
  <2>5. ASSUME NEW q \in Writers PROVE SaverInv(q)'
    BY <2>1, <2>2, <2>4 DEF WindowInv, SaverInv, Processes
  <2> QED
    BY <2>3, <2>5 DEF WindowInv
<1>5. ASSUME NEW p \in Processes, WriteTmp(p) PROVE WindowInv'
  <2>1. LiveStore' = LiveStore /\ UNCHANGED <<path, kept, cmd, mem>>
    BY <1>5, OnlyRenameChangesTheStore DEF WriteTmp
  <2>2. pc[p] = "opened" /\ pc' = [pc EXCEPT ![p] = "rename"] /\ p \in Writers
    BY <1>5 DEF WriteTmp, FileInv
  <2>3. path # NoFile \/ kept = {}
    BY <2>2 DEF WindowInv, SaverInv
  <2>4. KeptFiles'
    BY <2>1, <2>3 DEF WindowInv, KeptFiles, LiveStore
  <2>5. ASSUME NEW q \in Writers PROVE SaverInv(q)'
    BY <2>1, <2>2 DEF WindowInv, SaverInv, Processes
  <2> QED
    BY <2>4, <2>5 DEF WindowInv
<1>6. ASSUME NEW p \in Processes, Rename(p) \/ RetryRename(p) PROVE WindowInv'
  <2>1. pc[p] \in {"rename", "rerename"}
    BY <1>6 DEF Rename, RetryRename
  <2>2. p \in Writers /\ tmp # NoFile /\ content[tmp] = [state |-> "whole", data |-> mem[p]]
    BY <2>1 DEF FileInv
  <2>3. \A q \in Writers : q = p
    BY <2>2 DEF OneWriter
  <2>4. UNCHANGED <<content, cmd, mem>>
    BY <1>6 DEF Rename, RetryRename
  <2>5. CASE CanRename
    <3>1. Succeed(p)
      BY <1>6, <2>5 DEF Rename, RetryRename
    <3>2. path' = tmp /\ content'[path'].data = mem[p]
      BY <2>2, <2>4, <3>1 DEF Succeed
    <3>3. /\ kept \subseteq mem[p].entries
          /\ cmd[p].op = "add" => cmd[p].name \in mem[p].entries
      BY <2>1, <2>2, OutcomesKeepKept DEF WindowInv, SaverInv
    <3>4. pc'[p] = "idle" /\ kept' \subseteq mem[p].entries
      BY <2>2, <3>1, <3>3 DEF Succeed, Processes
    <3>5. KeptFiles'
      BY <2>2, <3>2, <3>4 DEF KeptFiles
    <3> QED
      BY <2>3, <3>4, <3>5 DEF WindowInv, SaverInv
  <2>6. CASE ~CanRename
    <3>1. pc[p] = "rename"
      BY <2>1, <2>2, <2>6 DEF CanRename, WindowInv, SaverInv
    <3>2. pc' = [pc EXCEPT ![p] = "retry"] /\ UNCHANGED <<path, tmp, kept>>
      BY <1>6, <2>6, <3>1 DEF Rename, RetryRename
    <3>3. LiveStore' = LiveStore
      BY <2>4, <3>2 DEF LiveStore
    <3>4. KeptFiles'
      BY <2>4, <3>2 DEF WindowInv, KeptFiles
    <3>5. SaverInv(p)'
      BY <2>2, <2>4, <3>1, <3>2, <3>3 DEF WindowInv, SaverInv, Processes
    <3> QED
      BY <2>3, <3>4, <3>5 DEF WindowInv
  <2> QED
    BY <2>5, <2>6
<1>7. ASSUME NEW p \in Processes, RetryRemove(p) PROVE WindowInv'
  <2>1. pc[p] = "retry" /\ p \in Writers
    BY <1>7 DEF RetryRemove, FileInv
  <2>2. \A q \in Writers : q = p
    BY <2>1 DEF OneWriter
  <2>3. /\ path' = NoFile /\ pc' = [pc EXCEPT ![p] = "rerename"]
        /\ UNCHANGED <<tmp, content, kept, cmd, mem>>
    BY <1>7 DEF RetryRemove
  <2>4. /\ kept \subseteq mem[p].entries
        /\ cmd[p].op = "add" => cmd[p].name \in mem[p].entries
    BY <2>1, OutcomesKeepKept
  <2>5. tmp # NoFile /\ content[tmp] = [state |-> "whole", data |-> mem[p]]
    BY <2>1 DEF FileInv, Processes
  <2>6. KeptFiles'
    BY <2>3, <2>4, <2>5 DEF KeptFiles
  <2>7. SaverInv(p)'
    BY <2>1, <2>3, <2>4 DEF WindowInv, SaverInv, Processes
  <2> QED
    BY <2>2, <2>6, <2>7 DEF WindowInv
<1>8. ASSUME NEW p \in Processes, Abort(p) PROVE WindowInv'
  <2>1. LiveStore' = LiveStore /\ UNCHANGED <<path, tmp, kept, cmd, mem>>
    BY <1>8, OnlyRenameChangesTheStore DEF Abort
  <2>2. pc' = [pc EXCEPT ![p] = "idle"]
    BY <1>8 DEF Abort
  <2>3. KeptFiles'
    <3>1. CASE content' = content
      BY <2>1, <3>1 DEF WindowInv, KeptFiles
    <3>2. CASE pc[p] = "opened"
      <4>1. p \in Writers
        BY <3>2 DEF FileInv
      <4>2. path # NoFile \/ kept = {}
        BY <3>2, <4>1 DEF WindowInv, SaverInv
      <4> QED
        BY <2>1, <4>2 DEF WindowInv, KeptFiles, LiveStore
    <3> QED
      BY <1>8, <3>1, <3>2 DEF Abort
  <2>4. ASSUME NEW q \in Writers PROVE SaverInv(q)'
    BY <2>1, <2>2 DEF WindowInv, SaverInv, Processes
  <2> QED
    BY <2>3, <2>4 DEF WindowInv
<1> QED
  BY <1>1, <1>2, <1>3, <1>4, <1>5, <1>6, <1>7, <1>8 DEF Next, Step

(* A Save that has opened the temporary file over the last copy of kept    *)
(* wallets cannot undo it. *)
LEMMA OverwrittenStays ==
  ASSUME TypeOK, [Next]_vars, overwritten
  PROVE  overwritten'
  BY DEF TypeOK, Next, Step, vars, LoadStat, LoadRead, Apply, OpenTmp, WriteTmp, Rename,
         RetryRemove, RetryRename, Abort

(* With one writer a wallet that was added is in the live or in the        *)
(* temporary file, on both file systems and wherever the writer dies,      *)
(* until a Save begins that found no live file.                            *)
THEOREM AddedWalletsStayInAFile ==
  ASSUME OneWriter
  PROVE  Spec => []KeptInSomeFile
<1>1. Init => WindowInv
  BY DEF Init, WindowInv, KeptFiles, SaverInv, LiveStore, Processes
<1>2. TypeOK /\ FileInv /\ (overwritten \/ WindowInv) /\ [Next]_vars
        => (overwritten \/ WindowInv)'
  BY OneWriter, WindowInvInductive, OverwrittenStays
<1>3. TypeOK /\ FileInv /\ (overwritten \/ WindowInv) => KeptInSomeFile
  <2> SUFFICES ASSUME TypeOK, FileInv, WindowInv, kept # {}
               PROVE  \E i \in {path, tmp} \ {NoFile} :
                        content[i].state = "whole" /\ kept \subseteq content[i].data.entries
    BY DEF KeptInSomeFile, InSomeFile
  <2>1. CASE path # NoFile
    BY <2>1 DEF WindowInv, KeptFiles, FileInv, LiveFileWhole
  <2>2. CASE path = NoFile
    BY <2>2 DEF WindowInv, KeptFiles
  <2> QED
    BY <2>1, <2>2
<1>4. Spec => [](FileInv /\ LiveFileWhole)
  BY OneWriter, LiveFileStaysWhole
<1> QED
  BY <1>1, <1>2, <1>3, <1>4, TypeCorrect, PTL DEF Spec
=============================================================================
