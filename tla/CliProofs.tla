------------------------------ MODULE CliProofs ------------------------------
(***************************************************************************)
(* What the commands of the CLI promise.  The configuration file, for any  *)
(* processes, keys and values; the pipeline of `tx build`, `tx sign` and   *)
(* `tx broadcast`, for transactions of any length; a watch, for any number *)
(* of failed requests; the comparison of two quotes, and the amounts it    *)
(* converts, for digit strings of any length; the parameters of a request. *)
(* At the end, Core's send as MCCli instantiates it, and all together.     *)
(***************************************************************************)
EXTENDS MCCli, SendNextProofs, Amounts, SequenceTheorems, WellFoundedInduction

(* The configuration file *)

ConfigPcs == {"idle", "load", "again", "open", "write"}

ProcessStates ==
  [pc : ConfigPcs, set : BOOLEAN, once : BOOLEAN, cached : Configs, seen : SUBSET Configs]

LEMMA DefaultsIsConfig == Defaults \in Configs
BY ConfigConstants DEF Configs

LEMMA FilesHoldConfigs == ASSUME NEW f \in ConfigFiles PROVE f.config \in Configs
BY DefaultsIsConfig DEF ConfigFiles, Absent, Torn, Parses

LEMMA ParsesIsFile == ASSUME NEW c \in Configs PROVE Parses(c) \in ConfigFiles
BY DEF ConfigFiles

LEMMA IdleIsState == Idle \in ProcessStates
BY DefaultsIsConfig DEF Idle, ProcessStates, ConfigPcs

(* A key set in a config gives a config. *)
LEMMA SetIsConfig ==
  ASSUME NEW c \in Configs, NEW key \in Keys, NEW value \in Values
  PROVE  [c EXCEPT ![key] = value] \in Configs
BY DEF Configs

LEMMA ReadBackIsConfig == ASSUME NEW c \in Configs PROVE ReadBack(c) \in Configs
BY DefaultsIsConfig DEF ReadBack, Reads, Configs

(* Every variable of ConfigFile has its type in every reachable state.     *)
THEOREM ConfigTypeCorrect == ConfigSpec => []ConfigTypeOK
<1>1. ConfigInit => ConfigTypeOK
  <2> SUFFICES ASSUME ConfigInit PROVE ConfigTypeOK
    OBVIOUS
  <2>1. file \in ConfigFiles
    BY DefaultsIsConfig, ParsesIsFile DEF ConfigInit, Empty, ConfigFiles
  <2>2. process \in [Processes -> ProcessStates]
    BY IdleIsState DEF ConfigInit
  <2> QED BY <2>1, <2>2, DefaultsIsConfig DEF ConfigInit, ConfigTypeOK, ProcessStates, ConfigPcs
<1>2. ConfigTypeOK /\ [ConfigNext]_configVars => ConfigTypeOK'
  <2> SUFFICES ASSUME ConfigTypeOK, [ConfigNext]_configVars PROVE ConfigTypeOK'
    OBVIOUS
  <2> USE DEF ProcessStates, ConfigPcs
  <2>0. process \in [Processes -> ProcessStates]
    BY DEF ConfigTypeOK
  <2>1. CASE UNCHANGED configVars
    BY <2>1 DEF configVars, ConfigTypeOK
  <2>2. ASSUME NEW p \in Processes, NEW set \in BOOLEAN, StartCommand(p, set)
        PROVE  ConfigTypeOK'
    <3>1. [Idle EXCEPT !.pc = "load", !.set = set] \in ProcessStates
      BY IdleIsState
    <3>2. process' \in [Processes -> ProcessStates]
      BY <2>0, <2>2, <3>1 DEF StartCommand
    <3> QED BY <2>2, <3>2 DEF StartCommand, ConfigTypeOK
  <2>3. ASSUME NEW p \in Processes, Load(p) PROVE ConfigTypeOK'
    <3>1. process[p].cached \in Configs /\ file.config \in Configs
      BY <2>0, FilesHoldConfigs DEF ConfigTypeOK
    <3>2. process' \in [Processes -> ProcessStates]
      <4>1. CASE ~process[p].once /\ file.is = "torn"
        <5> process' = [process EXCEPT ![p] = Idle]
          BY <2>3, <4>1 DEF Load
        <5> QED BY <2>0, IdleIsState
      <4>2. CASE ~(~process[p].once /\ file.is = "torn")
        <5> DEFINE c == IF process[p].once THEN process[p].cached ELSE file.config
        <5>1. PICK next \in ConfigPcs :
                process' = [process EXCEPT ![p] =
                  [process[p] EXCEPT !.pc = next, !.once = TRUE, !.cached = c,
                                     !.seen = @ \cup {c}]]
          <6>1. CASE process[p].set
            BY <2>3, <4>2, <6>1 DEF Load
          <6>2. CASE ~process[p].set
            BY <2>3, <4>2, <6>2 DEF Load
          <6> QED BY <6>1, <6>2
        <5>2. c \in Configs
          BY <3>1
        <5> HIDE DEF c
        <5>3. [process[p] EXCEPT !.pc = next, !.once = TRUE, !.cached = c,
                                 !.seen = @ \cup {c}] \in ProcessStates
          BY <2>0, <5>2
        <5> QED BY <2>0, <5>1, <5>3
      <4> QED BY <4>1, <4>2
    <3> QED BY <2>3, <3>2 DEF Load, ConfigTypeOK
  <2>4. ASSUME NEW p \in Processes, OpenFile(p) PROVE ConfigTypeOK'
    <3>1. process' \in [Processes -> ProcessStates]
      BY <2>0, <2>4 DEF OpenFile
    <3>2. file' \in ConfigFiles
      BY <2>4, ParsesIsFile, DefaultsIsConfig DEF OpenFile, Empty, ConfigTypeOK
    <3> QED BY <2>4, <3>1, <3>2 DEF OpenFile, ConfigTypeOK
  <2>5. ASSUME NEW p \in Processes, NEW key \in Keys, NEW value \in Values,
               WriteFile(p, key, value)
        PROVE  ConfigTypeOK'
    <3> DEFINE c == [process[p].cached EXCEPT ![key] = value]
    <3>1. c \in Configs
      BY <2>0, SetIsConfig
    <3>2. file' \in ConfigFiles
      BY <2>5, <3>1, ParsesIsFile, ReadBackIsConfig DEF WriteFile
    <3>3. process' \in [Processes -> ProcessStates]
      <4> HIDE DEF c
      <4>1. [process[p] EXCEPT !.pc = "idle", !.cached = c] \in ProcessStates
        BY <2>0, <3>1
      <4>2. process' = [process EXCEPT ![p] = [process[p] EXCEPT !.pc = "idle", !.cached = c]]
        BY <2>5 DEF WriteFile, c
      <4> QED BY <2>0, <4>1, <4>2
    <3>4. saved' \in Configs
      BY <2>5, SetIsConfig DEF WriteFile, ConfigTypeOK
    <3> QED BY <2>5, <3>2, <3>3, <3>4 DEF WriteFile, ConfigTypeOK
  <2>6. ASSUME NEW p \in Processes, CutShort(p) PROVE ConfigTypeOK'
    <3>1. process' \in [Processes -> ProcessStates]
      BY <2>0, <2>6 DEF CutShort
    <3>2. file' \in ConfigFiles
      BY <2>6, ParsesIsFile DEF CutShort, ConfigFiles
    <3> QED BY <2>6, <3>1, <3>2 DEF CutShort, ConfigTypeOK
  <2>7. ASSUME NEW p \in Processes, Die(p) PROVE ConfigTypeOK'
    <3>1. process' \in [Processes -> ProcessStates]
      BY <2>0, <2>7 DEF Die
    <3> QED BY <2>7, <3>1 DEF Die, ConfigTypeOK
  <2> QED
    BY <2>1, <2>2, <2>3, <2>4, <2>5, <2>6, <2>7 DEF ConfigNext, ConfigStep
<1> QED BY <1>1, <1>2, PTL DEF ConfigSpec

-----------------------------------------------------------------------------

(* A process that has loaded keeps the one config it has seen. *)
SeenInv ==
  \A p \in Processes :
    /\ ~process[p].once => process[p].seen = {}
    /\ process[p].pc \in {"load", "again"} /\ process[p].once =>
         process[p].seen \subseteq {process[p].cached}
    /\ \A c, d \in process[p].seen : c = d

(* A process works with one configuration, whatever becomes of the file.   *)
THEOREM OneSnapshotAlways == ConfigSpec => []OneSnapshot
<1>1. ConfigInit => SeenInv
  <2> SUFFICES ASSUME ConfigInit, NEW p \in Processes
               PROVE  process[p].seen = {} /\ ~process[p].once
    BY DEF SeenInv
  <2> QED BY DEF ConfigInit, Idle
<1>2. ConfigTypeOK /\ SeenInv /\ [ConfigNext]_configVars => SeenInv'
  <2> SUFFICES ASSUME ConfigTypeOK, SeenInv, [ConfigNext]_configVars PROVE SeenInv'
    OBVIOUS
  <2>0. process \in [Processes -> ProcessStates]
    BY DEF ConfigTypeOK, ProcessStates, ConfigPcs
  <2> USE DEF ProcessStates, ConfigPcs, SeenInv
  <2>1. CASE UNCHANGED configVars
    BY <2>1 DEF configVars
  <2>2. ASSUME NEW p \in Processes, NEW set \in BOOLEAN, StartCommand(p, set) PROVE SeenInv'
    BY <2>0, <2>2 DEF StartCommand, Idle
  <2>3. ASSUME NEW p \in Processes, Load(p) PROVE SeenInv'
    BY <2>0, <2>3 DEF Load, Idle
  <2>4. ASSUME NEW p \in Processes, OpenFile(p) PROVE SeenInv'
    BY <2>0, <2>4 DEF OpenFile
  <2>5. ASSUME NEW p \in Processes, NEW key \in Keys, NEW value \in Values,
               WriteFile(p, key, value)
        PROVE  SeenInv'
    BY <2>0, <2>5 DEF WriteFile
  <2>6. ASSUME NEW p \in Processes, CutShort(p) PROVE SeenInv'
    BY <2>0, <2>6 DEF CutShort
  <2>7. ASSUME NEW p \in Processes, Die(p) PROVE SeenInv'
    BY <2>0, <2>7 DEF Die
  <2> QED
    BY <2>1, <2>2, <2>3, <2>4, <2>5, <2>6, <2>7 DEF ConfigNext, ConfigStep
<1>3. SeenInv => OneSnapshot
  BY DEF SeenInv, OneSnapshot
<1> QED BY <1>1, <1>2, <1>3, ConfigTypeCorrect, PTL DEF ConfigSpec

-----------------------------------------------------------------------------

(* The defaults are read back as they are. *)
LEMMA DefaultsReadBack == ReadBack(Defaults) = Defaults
BY ConfigConstants DEF ReadBack, Reads

(* To set a key of what was read back is to read back what sets it. *)
LEMMA SetReadsBack ==
  ASSUME NEW c \in [Keys -> Values], NEW key \in Keys, NEW value
  PROVE  ReadBack([ReadBack(c) EXCEPT ![key] = value]) = ReadBack([c EXCEPT ![key] = value])
<1> DEFINE d == [ReadBack(c) EXCEPT ![key] = value]
           e == [c EXCEPT ![key] = value]
<1> SUFFICES ASSUME NEW k \in Keys PROVE Reads(k, d[k]) = Reads(k, e[k])
  BY DEF ReadBack
<1>1. CASE k = key
  BY <1>1 DEF ReadBack
<1>2. CASE k # key
  BY <1>2 DEF ReadBack, Reads
<1> QED BY <1>1, <1>2

OneSetter == \A p, q \in Setters : p = q

Writing(p) == process[p].pc \in {"open", "write"}

(* With one setter: only a `config set` gets as far as writing, what it    *)
(* has loaded is what was saved last, and so is the file unless it writes. *)
SavedInv ==
  /\ \A p \in Processes :
       /\ process[p].set => p \in Setters \/ process[p].pc = "idle"
       /\ Writing(p) => process[p].set /\ process[p].once
       /\ process[p].pc = "again" => ~process[p].set
       /\ process[p].pc = "load" => ~process[p].once
       /\ ~damaged /\ Writing(p) => process[p].cached = ReadBack(saved)
  /\ damaged \/ (\E p \in Processes : process[p].pc = "write")
       \/ (file.is # "torn" /\ file.config = ReadBack(saved))

LEMMA SavedInvInductive ==
  ASSUME OneSetter, ConfigTypeOK, SavedInv, [ConfigNext]_configVars
  PROVE  SavedInv'
<1>0. process \in [Processes -> ProcessStates]
  BY DEF ConfigTypeOK, ProcessStates, ConfigPcs
<1>a. \A p, q \in Processes : Writing(p) /\ Writing(q) => p = q
  BY DEF OneSetter, SavedInv, Writing
<1> USE DEF ProcessStates, ConfigPcs, SavedInv, Writing
<1>1. CASE UNCHANGED configVars
  BY <1>1 DEF configVars
<1>2. ASSUME NEW p \in Processes, NEW set \in BOOLEAN, StartCommand(p, set) PROVE SavedInv'
  BY <1>0, <1>2 DEF StartCommand, Idle
<1>3. ASSUME NEW p \in Processes, Load(p) PROVE SavedInv'
  <2>1. CASE ~process[p].once /\ file.is = "torn"
    <3> process' = [process EXCEPT ![p] = Idle] /\ UNCHANGED <<file, saved, damaged>>
      BY <1>3, <2>1 DEF Load
    <3> QED BY <1>0, <1>3 DEF Idle, Load
  <2>2. CASE ~(~process[p].once /\ file.is = "torn")
    <3>1. process[p].set => \A q \in Processes : process[q].pc # "write"
      BY <1>3 DEF Load, OneSetter
    <3>2. \A q \in Processes : q # p => process'[q] = process[q]
      BY <1>0, <1>3 DEF Load
    <3>3. CASE process[p].set
      <4>1. process[p].pc = "load" /\ ~process[p].once
        BY <1>3, <3>3 DEF Load
      <4>2. process'[p] = [process[p] EXCEPT !.pc = "open", !.once = TRUE,
                             !.cached = file.config, !.seen = @ \cup {file.config}]
        BY <1>0, <1>3, <2>2, <3>3, <4>1 DEF Load
      <4>3. ~damaged => file.config = ReadBack(saved)
        BY <3>1, <3>3
      <4>4. UNCHANGED <<file, saved, damaged>> /\ p \in Setters
        BY <1>3, <3>3, <4>1 DEF Load
      <4>5. process'[p].pc = "open" /\ process'[p].set /\ process'[p].once
            /\ process'[p].cached = file.config
        BY <1>0, <3>3, <4>2
      <4>6. ~damaged' => file'.is # "torn" /\ file'.config = ReadBack(saved)'
        BY <3>1, <3>3, <4>4
      <4>7. ASSUME NEW q \in Processes
            PROVE  /\ process'[q].set => q \in Setters \/ process'[q].pc = "idle"
                   /\ process'[q].pc \in {"open", "write"} =>
                        process'[q].set /\ process'[q].once
                   /\ process'[q].pc = "again" => ~process'[q].set
                   /\ process'[q].pc = "load" => ~process'[q].once
                   /\ ~damaged' /\ process'[q].pc \in {"open", "write"} =>
                        process'[q].cached = ReadBack(saved)'
        <5>1. CASE q = p
          BY <4>3, <4>4, <4>5, <5>1
        <5>2. CASE q # p
          BY <3>2, <4>4, <5>2
        <5> QED BY <5>1, <5>2
      <4> QED BY <4>6, <4>7
    <3>4. CASE ~process[p].set
      <4>1. process'[p].pc \in {"again", "idle"} /\ ~process'[p].set
        BY <1>0, <1>3, <2>2, <3>4 DEF Load
      <4> QED BY <1>0, <1>3, <3>2, <4>1 DEF Load
    <3> QED BY <3>3, <3>4
  <2> QED BY <2>1, <2>2
<1>4. ASSUME NEW p \in Processes, OpenFile(p) PROVE SavedInv'
  BY <1>0, <1>4 DEF OpenFile
<1>5. ASSUME NEW p \in Processes, NEW key \in Keys, NEW value \in Values,
             WriteFile(p, key, value)
      PROVE  SavedInv'
  <2>1. process[p].pc = "write" /\ process[p].set /\ p \in Setters
    BY <1>0, <1>5 DEF WriteFile
  <2>2. /\ process'[p].pc = "idle" /\ process'[p].set = process[p].set
        /\ process'[p].once = process[p].once
    BY <1>0, <1>5 DEF WriteFile
  <2>3. \A q \in Processes : q # p => process'[q] = process[q]
    BY <1>0, <1>5 DEF WriteFile
  <2>4. damaged' = damaged
    BY <1>5 DEF WriteFile
  <2>5. ASSUME NEW q \in Processes, q # p
        PROVE  process[q].pc \notin {"open", "write"}
    BY <1>0, <1>a, <2>1, <2>5
  <2>6. ~damaged => file'.is # "torn" /\ file'.config = ReadBack(saved)'
    <3>1. file'.is = "parses" /\ file'.config = ReadBack([process[p].cached EXCEPT ![key] = value])
      BY <1>5 DEF WriteFile, Parses
    <3>2. saved \in [Keys -> Values] /\ saved' = [saved EXCEPT ![key] = value]
      BY <1>5 DEF WriteFile, ConfigTypeOK, Configs
    <3>3. ~damaged => process[p].cached = ReadBack(saved)
      BY <2>1
    <3> QED BY <3>1, <3>2, <3>3, SetReadsBack
  <2> QED BY <1>0, <2>1, <2>2, <2>3, <2>4, <2>5, <2>6
<1>6. ASSUME NEW p \in Processes, CutShort(p) PROVE SavedInv'
  BY <1>0, <1>6 DEF CutShort
<1>7. ASSUME NEW p \in Processes, Die(p) PROVE SavedInv'
  BY <1>0, <1>7 DEF Die
<1> QED
  BY <1>1, <1>2, <1>3, <1>4, <1>5, <1>6, <1>7 DEF ConfigNext, ConfigStep

(* With one setter at a time what it reports as saved is what is read, but *)
(* for a blank that Save leaves out.                                       *)
THEOREM SettingsKeptAlways ==
  ASSUME OneSetter
  PROVE  ConfigSpec => []SettingsKept
<1>1. ConfigInit => SavedInv
  BY DefaultsReadBack DEF ConfigInit, SavedInv, Writing, Idle, Absent, Empty, Parses
<1>2. ConfigTypeOK /\ SavedInv /\ [ConfigNext]_configVars => SavedInv'
  BY OneSetter, SavedInvInductive
<1>3. SavedInv => SettingsKept
  BY DEF SavedInv, SettingsKept, ReadBack
<1> QED BY <1>1, <1>2, <1>3, ConfigTypeCorrect, PTL DEF ConfigSpec

-----------------------------------------------------------------------------
(* The pipeline *)

Steps == {"config", "request", "wallet", "passphrase", "read", "use", "ended"}

PipeTypeOK ==
  /\ source \in {"own", "line", "none"}
  /\ at \in [Stages -> Steps]
  /\ code \in [Stages -> 0..4]
  /\ pipes \in [{"build", "sign"} -> Seq(Nat)]
  /\ input \in [{"sign", "broadcast"} -> Seq(Nat)]
  /\ built \in Seq(Nat)
  /\ cast \in Seq(Nat)

(* The last lines of what was built, numbered as they were. *)
RestOf(x, whole) ==
  /\ Len(x) <= Len(whole)
  /\ \A i \in 1..Len(x) : x[i] = i + Len(whole) - Len(x)

(* Two processes have succeeded and x is all that the first has built. *)
Whole(x) ==
  /\ x = built /\ x # <<>>
  /\ \A s \in {"build", "sign"} : at[s] = "ended" /\ code[s] = 0

PipeInv ==
  /\ PipeTypeOK
  /\ built # <<>> => at["build"] = "ended" /\ code["build"] = 0
  /\ RestOf(built, built) /\ RestOf(pipes["build"], built) /\ RestOf(input["sign"], built)
  /\ pipes["sign"] = <<>> \/ Whole(pipes["sign"])
  /\ input["broadcast"] = <<>> \/ Whole(input["broadcast"])
  /\ at["broadcast"] = "ended" /\ code["broadcast"] = 0 => Whole(cast)

(* Unless a line ahead of it is read, the transaction reaches the signer   *)
(* as it was built.                                                        *)
UncutInv ==
  source # "line" =>
    /\ at["sign"] \in {"config", "wallet", "passphrase", "read"} => pipes["build"] = built
    /\ at["sign"] = "use" => input["sign"] = built /\ at["build"] = "ended"

-----------------------------------------------------------------------------

LEMMA LinesAreNumbered ==
  ASSUME NEW n \in 1..MaxLines
  PROVE  Lines(n) \in Seq(Nat) /\ Lines(n) # <<>> /\ RestOf(Lines(n), Lines(n))
<1>1. n \in Nat /\ n > 0
  BY PipeConstant
<1>2. Lines(n) \in Seq(Nat) /\ Len(Lines(n)) = n
  BY <1>1 DEF Lines
<1>3. \A i \in 1..n : Lines(n)[i] = i
  BY DEF Lines
<1> QED BY <1>1, <1>2, <1>3 DEF RestOf

(* The rest of a rest is a rest. *)
LEMMA RestOfRest ==
  ASSUME NEW whole \in Seq(Nat), NEW x \in Seq(Nat), RestOf(x, whole), NEW n \in 0..Len(x)
  PROVE  SubSeq(x, n + 1, Len(x)) \in Seq(Nat) /\ RestOf(SubSeq(x, n + 1, Len(x)), whole)
<1> DEFINE y == SubSeq(x, n + 1, Len(x))
<1>1. y \in Seq(Nat) /\ Len(y) = Len(x) - n
  OBVIOUS
<1>2. \A i \in 1..Len(y) : y[i] = x[i + n]
  OBVIOUS
<1> HIDE DEF y
<1>4. n \in Nat /\ n <= Len(x) /\ Len(x) \in Nat /\ Len(whole) \in Nat /\ Len(y) \in Nat
  OBVIOUS
<1>5. ASSUME NEW i \in 1..Len(y) PROVE y[i] = i + Len(whole) - Len(y)
  <2>1. i \in Nat /\ i + n \in 1..Len(x)
    BY <1>1, <1>4
  <2>2. x[i + n] = (i + n) + Len(whole) - Len(x)
    BY <2>1 DEF RestOf
  <2>3. y[i] = x[i + n]
    BY <1>2
  <2> QED BY <1>1, <1>4, <2>1, <2>2, <2>3
<1>3. Len(y) <= Len(whole)
  BY <1>1 DEF RestOf
<1>6. y \in Seq(Nat) /\ RestOf(y, whole)
  BY <1>1, <1>3, <1>5 DEF RestOf
<1> QED BY <1>6 DEF y

(* A rest that begins with the first line is the whole. *)
LEMMA FirstLineMeansWhole ==
  ASSUME NEW whole \in Seq(Nat), NEW x \in Seq(Nat),
         RestOf(whole, whole), RestOf(x, whole), x # <<>>, Head(x) = 1
  PROVE  x = whole
<1>1. Len(x) > 0 /\ x[1] = 1
  OBVIOUS
<1>2. Len(x) = Len(whole)
  <2>1. 1 \in 1..Len(x) /\ Len(x) \in Nat /\ Len(whole) \in Nat
    BY <1>1
  <2>2. x[1] = 1 + Len(whole) - Len(x)
    BY <2>1 DEF RestOf
  <2> QED BY <1>1, <2>1, <2>2
<1>3. \A i \in 1..Len(x) : x[i] = whole[i]
  BY <1>2 DEF RestOf
<1> QED BY <1>2, <1>3

LEMMA NothingIsRest ==
  ASSUME NEW whole \in Seq(Nat) PROVE RestOf(<<>>, whole)
BY DEF RestOf

-----------------------------------------------------------------------------

LEMMA PipeInvHolds == PipeSpec => []PipeInv
<1>1. PipeInit => PipeInv
  <2> SUFFICES ASSUME PipeInit PROVE PipeInv
    OBVIOUS
  <2>1. PipeTypeOK
    BY DEF PipeInit, PipeTypeOK, Stages, Steps
  <2>2. built = <<>> /\ pipes["build"] = <<>> /\ pipes["sign"] = <<>>
        /\ input["sign"] = <<>> /\ input["broadcast"] = <<>> /\ at["broadcast"] = "config"
    BY DEF PipeInit, Stages
  <2>3. RestOf(<<>>, <<>>)
    BY DEF RestOf
  <2> QED BY <2>1, <2>2, <2>3 DEF PipeInv
<1>2. PipeInv /\ [PipeNext]_pipeVars => PipeInv'
  <2> SUFFICES ASSUME PipeInv, [PipeNext]_pipeVars PROVE PipeInv'
    OBVIOUS
  <2> USE DEF PipeInv, PipeTypeOK, Stages, Steps
  <2>0. ASSUME at["sign"] # "ended"
        PROVE  /\ pipes["sign"] = <<>> /\ input["broadcast"] = <<>>
               /\ ~(at["broadcast"] = "ended" /\ code["broadcast"] = 0)
    BY <2>0 DEF Whole
  <2>1. CASE UNCHANGED pipeVars
    BY <2>1 DEF pipeVars, Whole
  <2>2. ASSUME NEW s \in Stages, Config(s) PROVE PipeInv'
    BY <2>2 DEF Config, GoOn, Exit, Whole
  <2>3. CASE Build
    <3>1. built = <<>> /\ pipes["build"] = <<>> /\ input["sign"] = <<>>
      BY <2>3 DEF Build, RestOf
    <3>2. pipes["sign"] = <<>> /\ input["broadcast"] = <<>>
      BY <3>1 DEF Whole
    <3>3. ~(at["broadcast"] = "ended" /\ code["broadcast"] = 0)
      BY <3>1 DEF Whole
    <3>4. ASSUME NEW n \in 1..MaxLines, built' = Lines(n),
                 pipes' = [pipes EXCEPT !["build"] = Lines(n)], Exit("build", 0)
          PROVE  PipeInv'
      BY <2>3, <3>1, <3>2, <3>3, <3>4, LinesAreNumbered, NothingIsRest DEF Build, Exit
    <3>5. ASSUME NEW n \in {1, 2, 4}, Exit("build", n), UNCHANGED <<built, pipes>>
          PROVE  PipeInv'
      BY <2>3, <3>1, <3>2, <3>3, <3>5 DEF Build, Exit
    <3> QED BY <2>3, <3>4, <3>5 DEF Build
  <2>4. CASE FindWallet
    BY <2>4 DEF FindWallet, GoOn, Exit, Whole
  <2>5. CASE OwnPassphrase
    <3>1. CASE GoOn("sign", "read")
      BY <2>0, <2>5, <3>1 DEF OwnPassphrase, GoOn
    <3>2. CASE Exit("sign", 4)
      BY <2>0, <2>5, <3>2 DEF OwnPassphrase, Exit
    <3> QED BY <2>5, <3>1, <3>2 DEF OwnPassphrase
  <2>6. CASE PassphraseLine
    <3>1. PICK n \in 0..Len(pipes["build"]) :
            pipes' = [pipes EXCEPT !["build"] = SubSeq(@, n + 1, Len(@))]
      BY <2>6 DEF PassphraseLine
    <3>2. /\ pipes'["build"] \in Seq(Nat) /\ RestOf(pipes'["build"], built)
          /\ pipes'["sign"] = pipes["sign"]
          /\ pipes' \in [{"build", "sign"} -> Seq(Nat)]
      BY <3>1, RestOfRest
    <3>3. /\ at["sign"] # "ended" /\ at["broadcast"]' = at["broadcast"]
          /\ at["build"]' = at["build"] /\ at' \in [Stages -> Steps]
      BY <2>6 DEF PassphraseLine, GoOn, Exit
    <3>4. /\ code["build"]' = code["build"] /\ code["broadcast"]' = code["broadcast"]
          /\ code' \in [Stages -> 0..4]
      BY <2>6 DEF PassphraseLine, GoOn, Exit
    <3>5. UNCHANGED <<source, input, built, cast>>
      BY <2>6 DEF PassphraseLine
    <3> QED BY <2>0, <3>2, <3>3, <3>4, <3>5
  <2>7. CASE TxForPassphrase
    <3>1. at["sign"] # "ended" /\ Exit("sign", 4)
      BY <2>7 DEF TxForPassphrase
    <3>2. UNCHANGED <<source, pipes, input, built, cast>>
      BY <2>7 DEF TxForPassphrase
    <3> QED BY <2>0, <3>1, <3>2 DEF Exit
  <2>8. CASE SignTx
    <3>1. CASE input["sign"] # <<>> /\ Head(input["sign"]) = 1
               /\ pipes' = [pipes EXCEPT !["sign"] = input["sign"]] /\ Exit("sign", 0)
      <4>1. input["sign"] = built
        BY <3>1, FirstLineMeansWhole
      <4> QED BY <2>8, <3>1, <4>1 DEF SignTx, Exit, Whole
    <3>2. CASE Exit("sign", 3) /\ UNCHANGED pipes
      <4>1. at["sign"] # "ended" /\ UNCHANGED <<source, pipes, input, built, cast>>
        BY <2>8, <3>2 DEF SignTx
      <4>2. code'["build"] = code["build"] /\ at'["build"] = at["build"]
            /\ code'["broadcast"] = code["broadcast"] /\ at'["broadcast"] = at["broadcast"]
        BY <3>2 DEF Exit
      <4>3. at' \in [Stages -> Steps] /\ code' \in [Stages -> 0..4]
        <5>1. /\ at' = [at EXCEPT !["sign"] = "ended"]
              /\ code' = [code EXCEPT !["sign"] = 3]
          BY <3>2 DEF Exit
        <5>2. at' \in [Stages -> Steps]
          BY <5>1
        <5>3. code' \in [Stages -> 0..4]
          BY <5>1
        <5> QED BY <5>2, <5>3
      <4> QED BY <2>0, <4>1, <4>2, <4>3
    <3> QED BY <2>8, <3>1, <3>2 DEF SignTx
  <2>9. CASE ReadAll("sign")
    BY <2>9, NothingIsRest DEF ReadAll, Before, GoOn, Whole
  <2>10. CASE ReadAll("broadcast")
    BY <2>10 DEF ReadAll, Before, GoOn, Whole
  <2>11. CASE BroadcastTx
    BY <2>11 DEF BroadcastTx, Exit, Whole
  <2> QED
    BY <2>1, <2>2, <2>3, <2>4, <2>5, <2>6, <2>7, <2>8, <2>9, <2>10, <2>11 DEF PipeNext
<1> QED BY <1>1, <1>2, PTL DEF PipeSpec

(* A pipeline that exits with 0 had no failure in it, and the chain was    *)
(* sent the transaction that `tx build` printed, all of it.                *)
THEOREM PipelineStaysHonest == PipeSpec => []PipelineHonest
<1>1. PipeInv => PipelineHonest
  BY DEF PipeInv, PipelineHonest, Whole, Stages
<1> QED BY <1>1, PipeInvHolds, PTL

(* Without a passphrase line in the pipe, `tx sign` goes on with all of    *)
(* the transaction: only the line's buffer can take any of it.             *)
THEOREM TxIsSignedWithoutLine == PipeSpec => [](source # "line" => PipedTxIsSigned)
<1>1. PipeInit => UncutInv
  BY DEF PipeInit, UncutInv, Stages
<1>2. PipeInv /\ UncutInv /\ [PipeNext]_pipeVars => UncutInv'
  <2> SUFFICES ASSUME PipeInv, UncutInv, [PipeNext]_pipeVars, source' # "line"
               PROVE  UncutInv'
    BY DEF UncutInv
  <2> USE DEF UncutInv, PipeInv, PipeTypeOK, Stages, Steps
  <2>1. CASE UNCHANGED pipeVars
    BY <2>1 DEF pipeVars
  <2>2. ASSUME NEW s \in Stages, Config(s) PROVE UncutInv'
    BY <2>2 DEF Config, GoOn, Exit
  <2>3. CASE Build
    <3>1. at["build"] = "request" /\ at["sign"] # "use" /\ at'["sign"] # "use"
      BY <2>3 DEF Build, Exit
    <3>2. pipes'["build"] = built'
      <4>1. built = <<>> /\ pipes["build"] = <<>>
        BY <3>1 DEF RestOf
      <4> QED BY <2>3, <4>1 DEF Build
    <3> QED BY <3>1, <3>2
  <2>4. CASE FindWallet
    BY <2>4 DEF FindWallet, GoOn, Exit
  <2>5. CASE OwnPassphrase
    BY <2>5 DEF OwnPassphrase, GoOn, Exit
  <2>6. CASE PassphraseLine
    BY <2>6 DEF PassphraseLine
  <2>7. CASE TxForPassphrase
    BY <2>7 DEF TxForPassphrase, Exit
  <2>8. CASE SignTx
    BY <2>8 DEF SignTx, Exit
  <2>9. CASE ReadAll("sign")
    BY <2>9 DEF ReadAll, Before, GoOn
  <2>10. CASE ReadAll("broadcast")
    BY <2>10 DEF ReadAll, Before, GoOn
  <2>11. CASE BroadcastTx
    BY <2>11 DEF BroadcastTx, Exit
  <2> QED
    BY <2>1, <2>2, <2>3, <2>4, <2>5, <2>6, <2>7, <2>8, <2>9, <2>10, <2>11 DEF PipeNext
<1>3. UncutInv => (source # "line" => PipedTxIsSigned)
  BY DEF UncutInv, PipedTxIsSigned
<1> QED BY <1>1, <1>2, <1>3, PipeInvHolds, PTL DEF PipeSpec

-----------------------------------------------------------------------------
(* The watch *)

(* The command prints an answer as the end only after an answer that is    *)
(* one, and asks no more.                                                  *)
EndInv == watchVerdict = "ok" => watchPc = "ended" /\ (watch => Watching!Done)

LEMMA WatchStep == EndInv /\ [Watching!Next]_(Watching!vars) => EndInv'
<1> SUFFICES ASSUME EndInv, [Watching!Next]_(Watching!vars) PROVE EndInv'
  OBVIOUS
<1> USE DEF EndInv, Watching!Done
<1>1. CASE Watching!Advance
  BY <1>1 DEF Watching!Advance
<1>2. CASE Watching!Deadline
  BY <1>2 DEF Watching!Deadline
<1>3. CASE Watching!Poll("poll", "first") \/ Watching!Poll("wait", "again")
  BY <1>3 DEF Watching!Poll
<1>4. CASE Watching!First
  BY <1>4 DEF Watching!First, Watching!Fails, Watching!Renders
<1>5. CASE Watching!Again
  BY <1>5 DEF Watching!Again, Watching!Fails, Watching!Renders
<1>6. CASE Watching!Interrupt
  BY <1>6 DEF Watching!Interrupt, Watching!Fails
<1>7. CASE UNCHANGED Watching!vars
  BY <1>7 DEF Watching!vars
<1> QED
  BY <1>1, <1>2, <1>3, <1>4, <1>5, <1>6, <1>7 DEF Watching!Next, Watching!Command

LEMMA EndIsSeen == EndInv => WatchSeesTheEnd
BY DEF EndInv, WatchSeesTheEnd, Watching!WatchSeesTheEnd

(* A watch that returns without error has seen the end of the transfer     *)
(* (runTransfersStatusCore, runTransfersStatusNext), for any number of     *)
(* failed requests.                                                        *)
THEOREM WatchIsTrue == Watching!Spec => []WatchSeesTheEnd
<1>1. Watching!Init => EndInv
  BY DEF Watching!Init, EndInv
<1> QED BY <1>1, WatchStep, EndIsSeen, PTL DEF Watching!Spec

-----------------------------------------------------------------------------
(* The comparison *)

SidePcs == {"tokens", "source", "destination", "convert", "quote", "return", "ended"}

QuoteResults == [err : BOOLEAN, fees : SUBSET Fees]

QuoteTypes ==
  /\ quotePc \in [{"core", "next", "main"} -> SidePcs \cup {"core", "next", "render", "failed", "rendered"}]
  /\ res \in [Quoting!Sides -> QuoteResults]
  /\ channel \in [Quoting!Sides -> Seq(QuoteResults)]

(* The command has read the channel of a side.                             *)
Received(s) ==
  quotePc["main"] \in {"render", "failed", "rendered"} \/ (s = "core" /\ quotePc["main"] = "next")

(* A result is on its channel, or has been read, only once its goroutine   *)
(* has ended; a side sends one result, so that what is read leaves nothing.*)
QuoteInv ==
  /\ QuoteTypes
  /\ \A s \in Quoting!Sides :
       /\ channel[s] # <<>> => Len(channel[s]) = 1 /\ quotePc[s] = "ended" /\ ~Received(s)
       /\ Received(s) => quotePc[s] = "ended"
  /\ ~Quoting!Ended => winner = "none"
  /\ Quoting!Ended =>
       /\ (quotePc["main"] = "failed") <=> \A s \in Quoting!Sides : res[s].err
       /\ (winner # "none") <=> \A s \in Quoting!Sides : ~res[s].err

LEMMA ResultsAreResults ==
  ASSUME NEW r \in QuoteResults
  PROVE  /\ [r EXCEPT !.err = TRUE] \in QuoteResults
         /\ \A fees \in SUBSET Fees : [r EXCEPT !.fees = fees] \in QuoteResults
BY DEF QuoteResults

(* A step of a goroutine, which has not ended, that sends nothing.         *)
LEMMA SideWorks ==
  ASSUME QuoteInv, NEW s \in Quoting!Sides, NEW step \in SidePcs, quotePc[s] # "ended",
         quotePc' = [quotePc EXCEPT ![s] = step], step # "ended",
         res' \in [Quoting!Sides -> QuoteResults],
         UNCHANGED <<channel, winner>>
  PROVE  QuoteInv'
<1>1. s # "main" /\ s \in {"core", "next"}
  BY DEF Quoting!Sides
<1>2. quotePc'["main"] = quotePc["main"]
  BY <1>1 DEF QuoteInv, QuoteTypes
<1>3. ~Received(s) /\ ~Quoting!Ended
  BY <1>1 DEF QuoteInv, Received, Quoting!Ended
<1>4. QuoteTypes'
  BY <1>1 DEF QuoteInv, QuoteTypes
<1>5. \A q \in Quoting!Sides \ {s} : quotePc'[q] = quotePc[q]
  BY <1>1 DEF QuoteInv, QuoteTypes, Quoting!Sides
<1>6. channel[s] = <<>>
  BY DEF QuoteInv
<1> QED BY <1>2, <1>3, <1>4, <1>5, <1>6 DEF QuoteInv, Received, Quoting!Ended

LEMMA QuoteStep == QuoteInv /\ [Quoting!BothQuoteNext]_(Quoting!quoteVars) => QuoteInv'
<1> SUFFICES ASSUME QuoteInv, [Quoting!BothQuoteNext]_(Quoting!quoteVars) PROVE QuoteInv'
  OBVIOUS
<1>0. QuoteTypes
  BY DEF QuoteInv
<1>1. ASSUME NEW s \in Quoting!Sides, Quoting!Look(s) PROVE QuoteInv'
  <2>1. PICK step \in SidePcs \ {"ended"} : quotePc' = [quotePc EXCEPT ![s] = step]
    BY <1>1 DEF Quoting!Look, Quoting!NextPc, SidePcs
  <2>2. res' \in [Quoting!Sides -> QuoteResults]
    <3>1. [res[s] EXCEPT !.err = TRUE] \in QuoteResults
      BY <1>0, ResultsAreResults DEF QuoteTypes
    <3>2. UNCHANGED res \/ res' = [res EXCEPT ![s] = [res[s] EXCEPT !.err = TRUE]]
      BY <1>1 DEF Quoting!Look
    <3> QED BY <1>0, <3>1, <3>2 DEF QuoteTypes
  <2> QED BY <1>1, <2>1, <2>2, SideWorks DEF Quoting!Look
<1>2. CASE Quoting!Convert
  <2>1. "next" \in Quoting!Sides
    BY DEF Quoting!Sides
  <2>2. PICK step \in SidePcs \ {"ended"} : quotePc' = [quotePc EXCEPT !["next"] = step]
    BY <1>2 DEF Quoting!Convert, Quoting!NextPc, SidePcs
  <2>3. res' \in [Quoting!Sides -> QuoteResults]
    <3>1. [res["next"] EXCEPT !.err = TRUE] \in QuoteResults
      BY <1>0, <2>1, ResultsAreResults DEF QuoteTypes
    <3>2. UNCHANGED res \/ res' = [res EXCEPT !["next"] = [res["next"] EXCEPT !.err = TRUE]]
      BY <1>2 DEF Quoting!Convert
    <3> QED BY <1>0, <2>1, <3>1, <3>2 DEF QuoteTypes
  <2> QED BY <1>2, <2>1, <2>2, <2>3, SideWorks DEF Quoting!Convert
<1>3. ASSUME NEW s \in Quoting!Sides, Quoting!AskQuote(s) PROVE QuoteInv'
  <2>1. quotePc' = [quotePc EXCEPT ![s] = "return"] /\ "return" \in SidePcs
    BY <1>3 DEF Quoting!AskQuote, SidePcs
  <2>2. res' \in [Quoting!Sides -> QuoteResults]
    <3>1. PICK r \in QuoteResults : res' = [res EXCEPT ![s] = r]
      <4>1. CASE res' = [res EXCEPT ![s].err = TRUE]
        BY <1>0, <4>1, ResultsAreResults DEF QuoteTypes
      <4>2. ASSUME NEW fees \in SUBSET Fees, res' = [res EXCEPT ![s].fees = fees]
            PROVE  \E r \in QuoteResults : res' = [res EXCEPT ![s] = r]
        BY <1>0, <4>2, ResultsAreResults DEF QuoteTypes
      <4> QED BY <1>3, <4>1, <4>2 DEF Quoting!AskQuote
    <3> QED BY <1>0, <3>1 DEF QuoteTypes
  <2> QED BY <1>3, <2>1, <2>2, SideWorks DEF Quoting!AskQuote
<1>4. ASSUME NEW s \in Quoting!Sides, Quoting!SendResult(s) PROVE QuoteInv'
  <2>1. /\ quotePc[s] = "return" /\ quotePc' = [quotePc EXCEPT ![s] = "ended"]
        /\ channel' = [channel EXCEPT ![s] = Append(@, res[s])]
        /\ UNCHANGED <<res, winner>>
    BY <1>4 DEF Quoting!SendResult
  <2>2. s \in {"core", "next"}
    BY DEF Quoting!Sides
  <2>3. /\ quotePc'[s] = "ended" /\ quotePc'["main"] = quotePc["main"]
        /\ \A q \in Quoting!Sides \ {s} : quotePc'[q] = quotePc[q] /\ channel'[q] = channel[q]
    BY <1>0, <2>1, <2>2 DEF QuoteTypes, Quoting!Sides
  <2>4. channel[s] = <<>> /\ ~Received(s) /\ ~Quoting!Ended
    BY <2>1, <2>2 DEF QuoteInv, Received, Quoting!Ended
  <2>5. channel'[s] = <<res[s]>> /\ Len(channel'[s]) = 1
    BY <1>0, <2>1, <2>4 DEF QuoteTypes
  <2>6. QuoteTypes'
    <3>1. Append(channel[s], res[s]) \in Seq(QuoteResults)
      BY <1>0 DEF QuoteTypes
    <3> QED BY <1>0, <2>1, <2>2, <3>1 DEF QuoteTypes, SidePcs
  <2> QED BY <2>1, <2>3, <2>4, <2>5, <2>6 DEF QuoteInv, Received, Quoting!Ended
<1>5. ASSUME NEW s \in Quoting!Sides, Quoting!Receive(s) PROVE QuoteInv'
  <2>1. /\ quotePc["main"] = s /\ channel[s] # <<>>
        /\ channel' = [channel EXCEPT ![s] = Tail(@)]
        /\ quotePc' = [quotePc EXCEPT !["main"] = IF s = "core" THEN "next" ELSE "render"]
        /\ UNCHANGED <<res, winner>>
    BY <1>5 DEF Quoting!Receive
  <2>2. s \in {"core", "next"}
    BY DEF Quoting!Sides
  <2>3. /\ quotePc'["main"] = IF s = "core" THEN "next" ELSE "render"
        /\ \A q \in Quoting!Sides : quotePc'[q] = quotePc[q]
        /\ \A q \in Quoting!Sides \ {s} : channel'[q] = channel[q]
    BY <1>0, <2>1 DEF QuoteTypes, Quoting!Sides
  <2>4. quotePc[s] = "ended" /\ Len(channel[s]) = 1 /\ channel[s] \in Seq(QuoteResults)
    BY <1>0, <2>1 DEF QuoteInv, QuoteTypes
  <2>5. channel'[s] = Tail(channel[s]) /\ Tail(channel[s]) = <<>>
    BY <1>0, <2>1, <2>4 DEF QuoteTypes
  <2>6. QuoteTypes'
    <3>1. Tail(channel[s]) \in Seq(QuoteResults)
      BY <2>1, <2>4
    <3> QED BY <1>0, <2>1, <3>1 DEF QuoteTypes
  <2>7. ~Quoting!Ended /\ ~Quoting!Ended'
    BY <2>1, <2>2, <2>3 DEF Quoting!Ended
  <2>8. \A q \in Quoting!Sides : Received(q)' => q = s \/ Received(q)
    BY <2>1, <2>2, <2>3 DEF Received, Quoting!Sides
  <2>9. \A q \in Quoting!Sides : Received(q)' => quotePc'[q] = "ended"
    BY <2>3, <2>4, <2>8 DEF QuoteInv
  <2>10. ASSUME NEW q \in Quoting!Sides, channel'[q] # <<>>
         PROVE  Len(channel'[q]) = 1 /\ quotePc'[q] = "ended" /\ ~Received(q)'
    <3>1. q # s
      BY <2>5, <2>10
    <3> QED BY <2>3, <2>8, <2>10, <3>1 DEF QuoteInv
  <2> QED BY <2>1, <2>6, <2>7, <2>9, <2>10 DEF QuoteInv
<1>6. CASE Quoting!Render
  <2>1. /\ quotePc["main"] = "render" /\ UNCHANGED <<res, channel>>
        /\ quotePc' = [quotePc EXCEPT !["main"] = IF \A s \in Quoting!Sides : res[s].err
                                                  THEN "failed" ELSE "rendered"]
        /\ winner' = IF \A s \in Quoting!Sides : ~res[s].err THEN Quoting!PickWinner ELSE "none"
    BY <1>6 DEF Quoting!Render
  <2>2. Quoting!PickWinner # "none"
    BY DEF Quoting!PickWinner
  <2>3. /\ quotePc'["main"] = IF \A s \in Quoting!Sides : res[s].err THEN "failed" ELSE "rendered"
        /\ \A q \in Quoting!Sides : quotePc'[q] = quotePc[q]
    BY <1>0, <2>1 DEF QuoteTypes, Quoting!Sides
  <2>4. QuoteTypes'
    BY <1>0, <2>1 DEF QuoteTypes
  <2>5. \A q \in Quoting!Sides : Received(q) /\ Received(q)'
    BY <2>1, <2>3 DEF Received
  <2> QED BY <2>1, <2>2, <2>3, <2>4, <2>5 DEF QuoteInv, Quoting!Ended
<1>7. CASE UNCHANGED Quoting!quoteVars
  BY <1>7 DEF Quoting!quoteVars, QuoteInv, QuoteTypes, Received, Quoting!Ended
<1>8. {"core", "next"} = Quoting!Sides
  BY DEF Quoting!Sides
<1> QED
  BY <1>1, <1>2, <1>3, <1>4, <1>5, <1>6, <1>7, <1>8
     DEF Quoting!BothQuoteNext, Quoting!Main, Quoting!Side

LEMMA QuoteStarts == Quoting!BothQuoteInit => QuoteInv
<1> SUFFICES ASSUME Quoting!BothQuoteInit PROVE QuoteInv
  OBVIOUS
<1>1. [err |-> FALSE, fees |-> {}] \in QuoteResults
  BY DEF QuoteResults
<1>2. res \in [Quoting!Sides -> QuoteResults]
  BY <1>1 DEF Quoting!BothQuoteInit
<1>3. QuoteTypes
  BY <1>2 DEF Quoting!BothQuoteInit, QuoteTypes, SidePcs
<1> QED BY <1>3 DEF Quoting!BothQuoteInit, QuoteInv, Received, Quoting!Ended, Quoting!Sides

LEMMA EitherSideIsShown == QuoteInv => EitherSideMayFail
BY DEF QuoteInv, EitherSideMayFail, Quoting!EitherSideMayFail, Quoting!Ended, Received

(* Whichever side fails and at whichever step, what the other quoted is    *)
(* rendered, and only two quotes are compared (runBothQuote), for any      *)
(* amounts, decimals and fees.                                             *)
THEOREM EitherSideIsEnough == Quoting!BothQuoteSpec => []EitherSideMayFail
BY QuoteStarts, QuoteStep, EitherSideIsShown, PTL DEF Quoting!BothQuoteSpec

(* The steps the goroutines and the command have left, at most.            *)
SideLeft == [tokens |-> 6, source |-> 5, destination |-> 4, convert |-> 3, quote |-> 2,
             return |-> 1, ended |-> 0]

MainLeft == [core |-> 3, next |-> 2, render |-> 1, failed |-> 0, rendered |-> 0]

QuoteLeft ==
  SideLeft[quotePc["core"]] + SideLeft[quotePc["next"]] + MainLeft[quotePc["main"]]

(* What a goroutine that has ended put on its channel is there until it is *)
(* read.                                                                   *)
SentInTime ==
  /\ \A s \in Quoting!Sides :
       /\ quotePc[s] \in SidePcs
       /\ quotePc[s] = "ended" /\ ~Received(s) => channel[s] # <<>>
  /\ quotePc["main"] \in {"core", "next", "render", "failed", "rendered"}

LEMMA StepsAreCounted == SentInTime => QuoteLeft \in 0..15
BY DEF SentInTime, Quoting!Sides, QuoteLeft, SideLeft, MainLeft, SidePcs

LEMMA SideGoesOn ==
  ASSUME QuoteInv, SentInTime, NEW s \in Quoting!Sides, NEW step \in SidePcs,
         quotePc' = [quotePc EXCEPT ![s] = step], SideLeft[step] < SideLeft[quotePc[s]],
         \A q \in Quoting!Sides \ {s} : channel'[q] = channel[q],
         step = "ended" => channel'[s] # <<>>
  PROVE  SentInTime' /\ QuoteLeft' < QuoteLeft
<1>1. s \in {"core", "next"} /\ s # "main"
  BY DEF Quoting!Sides
<1>2. /\ quotePc'[s] = step
      /\ \A q \in {"core", "next", "main"} \ {s} : quotePc'[q] = quotePc[q]
  BY <1>1 DEF QuoteInv, QuoteTypes
<1>3. SentInTime'
  BY <1>1, <1>2 DEF SentInTime, Received, Quoting!Sides
<1>4. QuoteLeft' < QuoteLeft
  <2>1. SideLeft[quotePc["core"]] \in Int /\ SideLeft[quotePc["next"]] \in Int
    BY DEF SentInTime, Quoting!Sides, SidePcs, SideLeft
  <2>2. SideLeft[step] \in Int /\ MainLeft[quotePc["main"]] \in Int
    BY DEF SentInTime, SidePcs, SideLeft, MainLeft
  <2> HIDE DEF SideLeft, MainLeft
  <2>3. CASE s = "core"
    <3>1. /\ quotePc'["core"] = step /\ quotePc'["next"] = quotePc["next"]
          /\ quotePc'["main"] = quotePc["main"]
      BY <1>2, <2>3
    <3> QED BY <2>1, <2>2, <2>3, <3>1 DEF QuoteLeft
  <2>4. CASE s = "next"
    <3>1. /\ quotePc'["next"] = step /\ quotePc'["core"] = quotePc["core"]
          /\ quotePc'["main"] = quotePc["main"]
      BY <1>2, <2>4
    <3> QED BY <2>1, <2>2, <2>4, <3>1 DEF QuoteLeft
  <2> QED BY <1>1, <2>3, <2>4
<1> QED BY <1>3, <1>4

LEMMA MainGoesOn ==
  ASSUME QuoteInv, SentInTime,
         NEW step \in {"core", "next", "render", "failed", "rendered"},
         quotePc' = [quotePc EXCEPT !["main"] = step],
         MainLeft[step] < MainLeft[quotePc["main"]],
         \A s \in Quoting!Sides : ~Received(s)' => ~Received(s) /\ channel'[s] = channel[s]
  PROVE  SentInTime' /\ QuoteLeft' < QuoteLeft
<1>1. quotePc'["main"] = step /\ \A s \in Quoting!Sides : quotePc'[s] = quotePc[s]
  BY DEF QuoteInv, QuoteTypes, Quoting!Sides
<1>2. SentInTime'
  BY <1>1 DEF SentInTime
<1>3. QuoteLeft' < QuoteLeft
  <2>1. SideLeft[quotePc["core"]] \in Int /\ SideLeft[quotePc["next"]] \in Int
    BY DEF SentInTime, Quoting!Sides, SidePcs, SideLeft
  <2>2. MainLeft[step] \in Int /\ MainLeft[quotePc["main"]] \in Int
    BY DEF SentInTime, MainLeft
  <2> HIDE DEF SideLeft, MainLeft
  <2> QED BY <1>1, <2>1, <2>2 DEF QuoteLeft, Quoting!Sides
<1> QED BY <1>2, <1>3

LEMMA QuoteGoesOn ==
  ASSUME QuoteInv, SentInTime, Quoting!BothQuoteNext
  PROVE  SentInTime' /\ QuoteLeft' < QuoteLeft
<1>0. QuoteTypes
  BY DEF QuoteInv
<1>1. ASSUME NEW s \in Quoting!Sides, Quoting!Look(s) PROVE SentInTime' /\ QuoteLeft' < QuoteLeft
  <2>1. PICK step \in SidePcs :
          /\ quotePc' = [quotePc EXCEPT ![s] = step]
          /\ SideLeft[step] < SideLeft[quotePc[s]] /\ step # "ended"
    BY <1>1 DEF Quoting!Look, Quoting!NextPc, SidePcs, SideLeft
  <2> QED BY <1>1, <2>1, SideGoesOn DEF Quoting!Look
<1>2. CASE Quoting!Convert
  <2>1. PICK step \in SidePcs :
          /\ quotePc' = [quotePc EXCEPT !["next"] = step]
          /\ SideLeft[step] < SideLeft[quotePc["next"]] /\ step # "ended"
    BY <1>2 DEF Quoting!Convert, Quoting!NextPc, SidePcs, SideLeft
  <2>2. "next" \in Quoting!Sides
    BY DEF Quoting!Sides
  <2> QED BY <1>2, <2>1, <2>2, SideGoesOn DEF Quoting!Convert
<1>3. ASSUME NEW s \in Quoting!Sides, Quoting!AskQuote(s)
      PROVE  SentInTime' /\ QuoteLeft' < QuoteLeft
  <2>1. "return" \in SidePcs /\ SideLeft["return"] < SideLeft[quotePc[s]]
    BY <1>3 DEF Quoting!AskQuote, SidePcs, SideLeft
  <2> QED BY <1>3, <2>1, SideGoesOn DEF Quoting!AskQuote
<1>4. ASSUME NEW s \in Quoting!Sides, Quoting!SendResult(s)
      PROVE  SentInTime' /\ QuoteLeft' < QuoteLeft
  <2>1. "ended" \in SidePcs /\ SideLeft["ended"] < SideLeft[quotePc[s]]
    BY <1>4 DEF Quoting!SendResult, SidePcs, SideLeft
  <2>2. /\ channel'[s] = Append(channel[s], res[s])
        /\ \A q \in Quoting!Sides \ {s} : channel'[q] = channel[q]
    BY <1>0, <1>4 DEF Quoting!SendResult, QuoteTypes
  <2>3. channel'[s] # <<>>
    <3>1. channel[s] \in Seq(QuoteResults) /\ res[s] \in QuoteResults
      BY <1>0 DEF QuoteTypes
    <3> QED BY <2>2, <3>1, AppendProperties
  <2> QED BY <1>4, <2>1, <2>2, <2>3, SideGoesOn DEF Quoting!SendResult
<1>5. ASSUME NEW s \in Quoting!Sides, Quoting!Receive(s)
      PROVE  SentInTime' /\ QuoteLeft' < QuoteLeft
  <2> DEFINE step == IF s = "core" THEN "next" ELSE "render"
  <2>1. /\ quotePc["main"] = s /\ s \in {"core", "next"}
        /\ quotePc' = [quotePc EXCEPT !["main"] = step]
        /\ channel' = [channel EXCEPT ![s] = Tail(@)]
    BY <1>5 DEF Quoting!Receive, Quoting!Sides
  <2>2. MainLeft[step] < MainLeft[quotePc["main"]]
    BY <2>1 DEF MainLeft
  <2>3. quotePc'["main"] = step
    BY <1>0, <2>1 DEF QuoteTypes
  <2>4. \A q \in Quoting!Sides : ~Received(q)' => ~Received(q) /\ channel'[q] = channel[q]
    BY <1>0, <2>1, <2>3 DEF Received, Quoting!Sides, QuoteTypes
  <2> QED BY <2>1, <2>2, <2>4, MainGoesOn
<1>6. CASE Quoting!Render
  <2>1. PICK step \in {"failed", "rendered"} :
          /\ quotePc["main"] = "render"
          /\ quotePc' = [quotePc EXCEPT !["main"] = step] /\ channel' = channel
    BY <1>6 DEF Quoting!Render
  <2>2. MainLeft[step] < MainLeft[quotePc["main"]]
    BY <2>1 DEF MainLeft
  <2>3. \A q \in Quoting!Sides : Received(q)'
    BY <1>0, <2>1 DEF Received, QuoteTypes
  <2> QED BY <2>1, <2>2, <2>3, MainGoesOn
<1> QED
  BY <1>1, <1>2, <1>3, <1>4, <1>5, <1>6
     DEF Quoting!BothQuoteNext, Quoting!Main, Quoting!Side, Quoting!Sides

(* The comparison takes at most 15 steps, and as long as it has not ended  *)
(* the command can go on, or waits for a goroutine that can: an error in   *)
(* either goroutine leaves neither channel empty for good (runBothQuote).  *)
(* What QuoteReturns needs beyond this is that they are scheduled.         *)
THEOREM QuoteRunsOut ==
  Quoting!BothQuoteSpec =>
    /\ [](QuoteLeft \in 0..15)
    /\ [][QuoteLeft' < QuoteLeft]_(Quoting!quoteVars)
    /\ [](\A s \in Quoting!Sides :
            quotePc["main"] = s /\ channel[s] = <<>> => quotePc[s] # "ended")
<1>1. Quoting!BothQuoteInit => SentInTime
  BY DEF Quoting!BothQuoteInit, SentInTime, Quoting!Sides, SidePcs
<1>2. QuoteInv /\ SentInTime /\ [Quoting!BothQuoteNext]_(Quoting!quoteVars) => SentInTime'
  <2>1. CASE UNCHANGED Quoting!quoteVars
    BY <2>1 DEF Quoting!quoteVars, SentInTime, Received
  <2> QED BY <2>1, QuoteGoesOn
<1>3. QuoteInv /\ SentInTime /\ [Quoting!BothQuoteNext]_(Quoting!quoteVars)
        => [QuoteLeft' < QuoteLeft]_(Quoting!quoteVars)
  BY QuoteGoesOn
<1>4. SentInTime =>
        \A s \in Quoting!Sides :
          quotePc["main"] = s /\ channel[s] = <<>> => quotePc[s] # "ended"
  BY DEF SentInTime, Received, Quoting!Sides
<1> QED
  BY <1>1, <1>2, <1>3, <1>4, StepsAreCounted, QuoteStarts, QuoteStep, PTL
     DEF Quoting!BothQuoteSpec

-----------------------------------------------------------------------------
(* The amounts: what HumanToBase and BaseToHuman do to digit strings of    *)
(* any length.                                                             *)

(* Some natural numbers have a smallest one, *)
LEMMA SmallestNat ==
  ASSUME NEW T \in SUBSET Nat, T # {}
  PROVE  \E x \in T : \A y \in T : x <= y
<1>1. IsWellFoundedOn(OpToRel(<, Nat), Nat)
  BY NatLessThanWellFounded
<1>2. PICK x \in T : \A y \in T : ~(<<y, x>> \in OpToRel(<, Nat))
  <2> HIDE DEF OpToRel
  <2> QED BY <1>1, WFMin
<1>3. ASSUME NEW y \in T PROVE x <= y
  <2>1. ~(y < x)
    BY <1>2, Zenon DEF OpToRel
  <2> QED BY <2>1, SMT
<1> QED BY <1>3

(* so that what holds of 0 and passes from each number to the next holds   *)
(* up to any bound: the induction of this section.                         *)
LEMMA UpTo ==
  ASSUME NEW N \in Nat, NEW T \in SUBSET (0..N), 0 \in T,
         \A n \in T : n < N => n + 1 \in T
  PROVE  \A n \in 0..N : n \in T
<1> SUFFICES ASSUME (0..N) \ T # {} PROVE FALSE
  OBVIOUS
<1>1. (0..N) \ T \in SUBSET Nat
  OBVIOUS
<1>2. PICK n \in (0..N) \ T : \A m \in (0..N) \ T : n <= m
  BY <1>1, SmallestNat
<1>3. n - 1 \in 0..N /\ n - 1 \in T
  BY <1>2
<1> QED BY <1>2, <1>3

(* What the first digits of s stand for, up to n of them.                  *)
IsValue(f, s, n) ==
  /\ f \in [0..n -> Nat]
  /\ f[0] = 0
  /\ \A i \in 1..n : f[i] = 10 * f[i - 1] + s[i]

LEMMA ValuesExist ==
  ASSUME NEW s \in Seq(Digits), NEW n \in 0..Len(s)
  PROVE  \E f : IsValue(f, s, n)
<1> DEFINE T == {m \in 0..Len(s) : \E f : IsValue(f, s, m)}
<1>0. Len(s) \in Nat /\ s \in [1..Len(s) -> 0..9]
  BY LenProperties DEF Digits
<1>1. 0 \in T
  <2>1. IsValue([i \in 0..0 |-> 0], s, 0)
    BY DEF IsValue
  <2> QED BY <1>0, <2>1
<1>2. ASSUME NEW m \in T, m < Len(s) PROVE m + 1 \in T
  <2>1. m \in Nat /\ m + 1 \in 0..Len(s) /\ s[m + 1] \in 0..9
    BY <1>0, <1>2
  <2>2. PICK f : IsValue(f, s, m)
    OBVIOUS
  <2> DEFINE g == [i \in 0..(m + 1) |-> IF i = m + 1 THEN 10 * f[m] + s[m + 1] ELSE f[i]]
  <2>3. g \in [0..(m + 1) -> Nat]
    <3>0. f[m] \in Nat
      BY <2>1, <2>2 DEF IsValue
    <3>1. 10 * f[m] + s[m + 1] \in Nat
      <4>1. \A x \in Nat, d \in 0..9 : 10 * x + d \in Nat
        OBVIOUS
      <4> QED BY <2>1, <3>0, <4>1, Zenon
    <3>2. \A i \in 0..(m + 1) : i # m + 1 => f[i] \in Nat
      BY <2>1, <2>2 DEF IsValue
    <3> QED BY <3>1, <3>2
  <2>4. g[0] = 0
    BY <2>1, <2>2 DEF IsValue
  <2>5. ASSUME NEW i \in 1..(m + 1) PROVE g[i] = 10 * g[i - 1] + s[i]
    <3>1. CASE i = m + 1
      BY <2>1, <3>1
    <3>2. CASE i \in 1..m
      BY <2>1, <2>2, <3>2 DEF IsValue
    <3> QED BY <3>1, <3>2, <2>1
  <2>6. IsValue(g, s, m + 1)
    <3> HIDE DEF g
    <3> QED BY <2>3, <2>4, <2>5 DEF IsValue
  <2> QED BY <2>1, <2>6
<1>3. T \in SUBSET (0..Len(s))
  OBVIOUS
<1> HIDE DEF T
<1>4. \A m \in 0..Len(s) : m \in T
  BY <1>0, <1>1, <1>2, <1>3, UpTo
<1> QED BY <1>4 DEF T

(* PrefixValues is what its recursion says, and of natural numbers.        *)
LEMMA PrefixValuesAre ==
  ASSUME NEW s \in Seq(Digits)
  PROVE  IsValue(PrefixValues(s), s, Len(s))
<1>0. Len(s) \in Nat
  BY LenProperties
<1> DEFINE Unfolds(f) == f = [n \in 0..Len(s) |-> IF n = 0 THEN 0 ELSE 10 * f[n - 1] + s[n]]
<1>1. PICK f : IsValue(f, s, Len(s))
  BY <1>0, ValuesExist
<1>2. Unfolds(f)
  <2>1. f \in [0..Len(s) -> Nat]
    BY <1>1 DEF IsValue
  <2>2. ASSUME NEW n \in 0..Len(s)
        PROVE  f[n] = IF n = 0 THEN 0 ELSE 10 * f[n - 1] + s[n]
    BY <1>0, <1>1, <2>2 DEF IsValue
  <2> QED BY <2>1, <2>2
<1>3. Unfolds(PrefixValues(s))
  BY <1>2, Zenon DEF PrefixValues
<1> DEFINE p == PrefixValues(s)
<1> HIDE DEF p
<1>4. p = [n \in 0..Len(s) |-> IF n = 0 THEN 0 ELSE 10 * p[n - 1] + s[n]]
  BY <1>3 DEF p
<1>5. \A n \in 0..Len(s) : p[n] = IF n = 0 THEN 0 ELSE 10 * p[n - 1] + s[n]
  BY <1>4, Zenon
<1>6. DOMAIN p = 0..Len(s)
  BY <1>4, Zenon
<1>7. p[0] = 0 /\ \A i \in 1..Len(s) : p[i] = 10 * p[i - 1] + s[i]
  BY <1>0, <1>5
<1> DEFINE T == {n \in 0..Len(s) : p[n] \in Nat}
<1>8. \A n \in 0..Len(s) : n \in T
  <2>1. 0 \in T
    BY <1>0, <1>7
  <2>2. ASSUME NEW n \in T, n < Len(s) PROVE n + 1 \in T
    <3>1. n + 1 \in 1..Len(s) /\ p[n] \in Nat /\ n \in Nat
      BY <1>0, <2>2
    <3>2. s[n + 1] \in 0..9
      BY <3>1, ElementOfSeq DEF Digits
    <3>3. p[n + 1] = 10 * p[n] + s[n + 1]
      BY <1>7, <3>1
    <3>4. \A a \in Nat, e \in 0..9 : 10 * a + e \in Nat
      OBVIOUS
    <3>5. p[n + 1] \in Nat
      <4> DEFINE a == p[n]
                 e == s[n + 1]
      <4>1. a \in Nat /\ e \in 0..9 /\ p[n + 1] = 10 * a + e
        BY <3>1, <3>2, <3>3, Zenon
      <4> HIDE DEF a, e
      <4> QED BY <3>4, <4>1, Zenon
    <3> QED BY <3>1, <3>5
  <2>3. T \in SUBSET (0..Len(s))
    OBVIOUS
  <2> HIDE DEF T
  <2> QED BY <1>0, <2>1, <2>2, <2>3, UpTo
<1>9. p \in [0..Len(s) -> Nat]
  BY <1>4, <1>6, <1>8
<1> QED BY <1>7, <1>9 DEF p, IsValue

LEMMA NextValue ==
  ASSUME NEW s \in Seq(Digits), NEW i \in 0..Len(s), i < Len(s)
  PROVE  /\ PrefixValues(s)[i] \in Nat /\ i + 1 \in 0..Len(s)
         /\ s[i + 1] \in 0..9
         /\ PrefixValues(s)[i + 1] = 10 * PrefixValues(s)[i] + s[i + 1]
<1>0. Len(s) \in Nat
  BY LenProperties
<1> DEFINE p == PrefixValues(s)
<1>1. IsValue(p, s, Len(s))
  BY PrefixValuesAre
<1> HIDE DEF p
<1>2. i + 1 \in 1..Len(s) /\ i \in Nat
  BY <1>0
<1>3. s[i + 1] \in 0..9
  BY <1>2, ElementOfSeq DEF Digits
<1>4. p[i] \in Nat
  BY <1>0, <1>1 DEF IsValue
<1>5. p[i + 1] = 10 * p[(i + 1) - 1] + s[i + 1]
  BY <1>1, <1>2 DEF IsValue
<1>6. (i + 1) - 1 = i
  BY <1>2
<1> QED BY <1>0, <1>2, <1>3, <1>4, <1>5, <1>6 DEF p

LEMMA NoDigits == ASSUME NEW s \in Seq(Digits) PROVE PrefixValues(s)[0] = 0
BY PrefixValuesAre DEF IsValue

(* The k digits of s after the first a are those of t after the first b.   *)
Agree(s, a, t, b, k) ==
  /\ a \in Nat /\ b \in Nat /\ k \in Nat
  /\ a + k <= Len(s) /\ b + k <= Len(t)
  /\ \A i \in 1..k : s[a + i] = t[b + i]

(* Digits that agree after equal values lead to equal values.              *)
LEMMA SameDigits ==
  ASSUME NEW s \in Seq(Digits), NEW t \in Seq(Digits), NEW a, NEW b, NEW k,
         Agree(s, a, t, b, k), PrefixValues(s)[a] = PrefixValues(t)[b]
  PROVE  PrefixValues(s)[a + k] = PrefixValues(t)[b + k]
<1> USE DEF Agree
<1> DEFINE T == {j \in 0..k : PrefixValues(s)[a + j] = PrefixValues(t)[b + j]}
<1>0. Len(s) \in Nat /\ Len(t) \in Nat
  BY LenProperties
<1>1. 0 \in T
  OBVIOUS
<1>2. ASSUME NEW j \in T, j < k PROVE j + 1 \in T
  <2>1. /\ j \in Nat /\ j + 1 \in 1..k /\ PrefixValues(s)[a + j] = PrefixValues(t)[b + j]
        /\ a + j \in 0..Len(s) /\ a + j < Len(s) /\ b + j \in 0..Len(t) /\ b + j < Len(t)
    BY <1>0, <1>2
  <2>2. PrefixValues(s)[(a + j) + 1] = 10 * PrefixValues(s)[a + j] + s[(a + j) + 1]
    BY <2>1, NextValue
  <2>3. PrefixValues(t)[(b + j) + 1] = 10 * PrefixValues(t)[b + j] + t[(b + j) + 1]
    BY <2>1, NextValue
  <2>4. (a + j) + 1 = a + (j + 1) /\ (b + j) + 1 = b + (j + 1)
    BY <2>1
  <2>5. s[a + (j + 1)] = t[b + (j + 1)]
    BY <2>1
  <2> QED BY <2>1, <2>2, <2>3, <2>4, <2>5
<1>3. T \in SUBSET (0..k)
  OBVIOUS
<1>4. k \in 0..k
  OBVIOUS
<1> HIDE DEF T
<1>5. k \in T
  BY <1>1, <1>2, <1>3, <1>4, UpTo
<1> QED BY <1>5 DEF T

(* Zeros stand for nothing, alone or ahead of other digits.                *)
LEMMA LeadingZeros ==
  ASSUME NEW s \in Seq(Digits), NEW n \in 0..Len(s), \A i \in 1..n : s[i] = 0
  PROVE  PrefixValues(s)[n] = 0
<1> DEFINE T == {j \in 0..n : PrefixValues(s)[j] = 0}
<1>0. Len(s) \in Nat
  BY LenProperties
<1>1. 0 \in T
  BY <1>0, NoDigits
<1>2. ASSUME NEW j \in T, j < n PROVE j + 1 \in T
  <2>1. j \in 0..Len(s) /\ j < Len(s) /\ PrefixValues(s)[j] = 0 /\ s[j + 1] = 0 /\ j + 1 \in 0..n
    BY <1>0, <1>2
  <2>2. PrefixValues(s)[j + 1] = 10 * PrefixValues(s)[j] + s[j + 1]
    BY <2>1, NextValue
  <2> QED BY <2>1, <2>2
<1>3. T \in SUBSET (0..n)
  OBVIOUS
<1>4. n \in Nat /\ n \in 0..n
  BY <1>0
<1> HIDE DEF T
<1>5. n \in T
  BY <1>1, <1>2, <1>3, <1>4, UpTo
<1> QED BY <1>5 DEF T

LEMMA SameNumber ==
  ASSUME NEW s \in Seq(Digits), NEW t \in Seq(Digits), NEW n \in Nat,
         Len(s) = n + Len(t), \A i \in 1..n : s[i] = 0,
         \A i \in 1..Len(t) : s[n + i] = t[i]
  PROVE  Number(s) = Number(t)
<1>0. Len(s) \in Nat /\ Len(t) \in Nat /\ n \in 0..Len(s)
  BY LenProperties
<1>1. PICK b \in Nat : b = 0
  OBVIOUS
<1>2. PrefixValues(s)[n] = PrefixValues(t)[b]
  BY <1>0, <1>1, LeadingZeros, NoDigits
<1>3. Agree(s, n, t, b, Len(t))
  BY <1>0, <1>1 DEF Agree
<1>4. PrefixValues(s)[n + Len(t)] = PrefixValues(t)[b + Len(t)]
  BY <1>2, <1>3, SameDigits
<1> QED BY <1>0, <1>1, <1>4 DEF Number

LEMMA ZerosAre ==
  ASSUME NEW n \in Nat
  PROVE  /\ Zeros(n) \in Seq(Digits) /\ Len(Zeros(n)) = n
         /\ \A i \in 1..n : Zeros(n)[i] = 0
BY DEF Zeros, Digits

(* Two numbers of n + k digits that agree in the first n, where the second *)
(* has zeros in the others, and the power of ten with k zeros.             *)
IsCut(s, t, u, n, k) ==
  /\ s \in Seq(Digits) /\ t \in Seq(Digits) /\ u \in Seq(Digits)
  /\ n \in Nat /\ k \in Nat
  /\ Len(s) = n + k /\ Len(t) = n + k /\ Len(u) = k + 1 /\ u[1] = 1
  /\ \A i \in 1..n : s[i] = t[i]
  /\ \A i \in 1..k : t[n + i] = 0 /\ u[1 + i] = 0

(* What digits are worth once the last k of them are zeros: no more, and   *)
(* less by less than 1 and k zeros.                                        *)
LEMMA DigitsCut ==
  ASSUME NEW s, NEW t, NEW u, NEW n, NEW k, IsCut(s, t, u, n, k)
  PROVE  /\ Number(t) <= Number(s)
         /\ Number(s) < Number(t) + Number(u)
<1> USE DEF IsCut
<1> DEFINE ps == PrefixValues(s)
           pt == PrefixValues(t)
           pu == PrefixValues(u)
           T == {j \in 0..k : /\ ps[n + j] \in Nat /\ pt[n + j] \in Nat /\ pu[1 + j] \in Nat
                              /\ pt[n + j] <= ps[n + j] /\ ps[n + j] < pt[n + j] + pu[1 + j]}
<1>1. 0 \in T
  <2>1. ps[0 + n] = pt[0 + n]
    <3>0. PICK b \in Nat : b = 0
      OBVIOUS
    <3>1. Agree(s, b, t, b, n)
      BY <3>0 DEF Agree
    <3>2. PrefixValues(s)[b] = PrefixValues(t)[b]
      BY <3>0, NoDigits
    <3>3. PrefixValues(s)[b + n] = PrefixValues(t)[b + n]
      BY <3>1, <3>2, SameDigits
    <3> QED BY <3>0, <3>3
  <2>2. pu[0 + 1] = 1
    <3>1. 0 \in 0..Len(u) /\ 0 < Len(u)
      OBVIOUS
    <3>2. pu[0 + 1] = 10 * pu[0] + u[0 + 1]
      BY <3>1, NextValue
    <3>3. pu[0] = 0
      BY NoDigits
    <3> QED BY <3>2, <3>3
  <2>3. ps[n] \in Nat
    <3>1. IsValue(ps, s, Len(s))
      BY PrefixValuesAre
    <3> HIDE DEF ps
    <3> QED BY <3>1 DEF IsValue
  <2> HIDE DEF ps, pt, pu
  <2>4. n + 0 = n /\ 0 + n = n /\ 1 + 0 = 1 /\ 0 + 1 = 1
    OBVIOUS
  <2> QED BY <2>1, <2>2, <2>3, <2>4
<1>2. ASSUME NEW j \in T, j < k PROVE j + 1 \in T
  <2>1. /\ j \in Nat /\ j + 1 \in 0..k /\ j + 1 \in 1..k
        /\ n + j \in 0..Len(s) /\ n + j < Len(s)
        /\ n + j \in 0..Len(t) /\ n + j < Len(t)
        /\ 1 + j \in 0..Len(u) /\ 1 + j < Len(u)
    BY <1>2
  <2>2. /\ ps[n + j] \in Nat /\ s[(n + j) + 1] \in 0..9
        /\ ps[(n + j) + 1] = 10 * ps[n + j] + s[(n + j) + 1]
    BY <2>1, NextValue
  <2>3. /\ pt[n + j] \in Nat /\ pt[(n + j) + 1] = 10 * pt[n + j] + t[(n + j) + 1]
    BY <2>1, NextValue
  <2>4. /\ pu[1 + j] \in Nat /\ pu[(1 + j) + 1] = 10 * pu[1 + j] + u[(1 + j) + 1]
    BY <2>1, NextValue
  <2>5. (n + j) + 1 = n + (j + 1) /\ (1 + j) + 1 = 1 + (j + 1)
    BY <2>1
  <2>6. t[n + (j + 1)] = 0 /\ u[1 + (j + 1)] = 0
    BY <2>1
  <2>7. pt[n + j] <= ps[n + j] /\ ps[n + j] < pt[n + j] + pu[1 + j]
    OBVIOUS
  <2> HIDE DEF ps, pt, pu
  <2>8. /\ ps[n + (j + 1)] = 10 * ps[n + j] + s[n + (j + 1)]
        /\ pt[n + (j + 1)] = 10 * pt[n + j]
        /\ pu[1 + (j + 1)] = 10 * pu[1 + j]
        /\ s[n + (j + 1)] \in 0..9
    <3>1. /\ ps[n + (j + 1)] = 10 * ps[n + j] + s[n + (j + 1)]
          /\ s[n + (j + 1)] \in 0..9
      BY <2>2, <2>5, Zenon
    <3>2. pt[n + (j + 1)] = 10 * pt[n + j] + 0
      BY <2>3, <2>5, <2>6, Zenon
    <3>3. pu[1 + (j + 1)] = 10 * pu[1 + j] + 0
      BY <2>4, <2>5, <2>6, Zenon
    <3>4. \A a \in Nat : 10 * a + 0 = 10 * a
      OBVIOUS
    <3> QED BY <2>3, <2>4, <3>1, <3>2, <3>3, <3>4, Zenon
  <2>9. /\ ps[n + (j + 1)] \in Nat /\ pt[n + (j + 1)] \in Nat /\ pu[1 + (j + 1)] \in Nat
        /\ pt[n + (j + 1)] <= ps[n + (j + 1)]
        /\ ps[n + (j + 1)] < pt[n + (j + 1)] + pu[1 + (j + 1)]
    <3> DEFINE x == ps[n + j]
               y == pt[n + j]
               z == pu[1 + j]
               d == s[n + (j + 1)]
    <3>1. x \in Nat /\ y \in Nat /\ z \in Nat /\ d \in 0..9 /\ y <= x /\ x < y + z
      BY <2>2, <2>3, <2>4, <2>7, <2>8
    <3>2. /\ ps[n + (j + 1)] = 10 * x + d /\ pt[n + (j + 1)] = 10 * y
          /\ pu[1 + (j + 1)] = 10 * z
      BY <2>8
    <3> HIDE DEF x, y, z, d
    <3> QED BY <3>1, <3>2
  <2> QED BY <2>1, <2>9
<1>3. T \in SUBSET (0..k)
  OBVIOUS
<1>4. k \in 0..k
  OBVIOUS
<1>5. k \in T
  <2> HIDE DEF T
  <2> QED BY <1>1, <1>2, <1>3, <1>4, UpTo
<1>6. n + k = Len(s) /\ n + k = Len(t) /\ 1 + k = Len(u)
  OBVIOUS
<1> QED BY <1>5, <1>6 DEF Number

(* Some of finitely many numbers have a largest one, which TrimLeft takes. *)
LEMMA Largest ==
  ASSUME NEW N \in Nat, NEW T \in SUBSET (0..N), T # {}
  PROVE  \E x \in T : \A y \in T : y <= x
<1> DEFINE U == {N - y : y \in T}
<1>1. U \in SUBSET Nat /\ U # {}
  <2>1. \A y \in T : N - y \in Nat
    OBVIOUS
  <2> QED BY <2>1
<1>2. PICK u \in U : \A v \in U : u <= v
  <2> HIDE DEF U
  <2> QED BY <1>1, SmallestNat
<1>3. PICK x \in T : u = N - x
  BY <1>2
<1>4. ASSUME NEW y \in T PROVE y <= x
  <2>1. N - x <= N - y
    BY <1>2, <1>3
  <2> QED BY <2>1
<1> QED BY <1>4

(* s is t behind n zeros.                                                  *)
Leads(s, n, t) ==
  /\ s \in Seq(Digits) /\ t \in Seq(Digits) /\ n \in Nat
  /\ Len(s) = n + Len(t)
  /\ \A i \in 1..n : s[i] = 0
  /\ \A i \in 1..Len(t) : s[n + i] = t[i]

LEMMA TrimmedLeft ==
  ASSUME NEW s \in Seq(Digits)
  PROVE  \E n \in Nat : Leads(s, n, TrimLeft(s))
<1> DEFINE zero == {i \in 0..Len(s) : \A j \in 1..i : s[j] = 0}
           n == CHOOSE i \in zero : \A j \in zero : j <= i
<1>0. Len(s) \in Nat
  BY LenProperties
<1>1. zero \in SUBSET (0..Len(s)) /\ 0 \in zero
  BY <1>0
<1>2. \E i \in zero : \A j \in zero : j <= i
  <2> HIDE DEF zero
  <2> QED BY <1>0, <1>1, Largest
<1>3. n \in zero
  <2> HIDE DEF zero
  <2> QED BY <1>2
<1>4. TrimLeft(s) = SubSeq(s, n + 1, Len(s))
  BY Zenon DEF TrimLeft
<1>5. n \in 0..Len(s) /\ \A j \in 1..n : s[j] = 0
  BY <1>3
<1> HIDE DEF n
<1>6. n + 1 \in Int /\ Len(s) \in Int /\ \A i \in (n + 1)..Len(s) : s[i] \in Digits
  BY <1>0, <1>5, ElementOfSeq
<1> DEFINE t == SubSeq(s, n + 1, Len(s))
<1>7. /\ t \in Seq(Digits)
      /\ Len(t) = IF n + 1 <= Len(s) THEN Len(s) - (n + 1) + 1 ELSE 0
      /\ \A i \in 1..(Len(s) - (n + 1) + 1) : t[i] = s[(n + 1) + i - 1]
  BY <1>6, SubSeqProperties
<1> HIDE DEF t
<1>8. Len(s) = n + Len(t)
  BY <1>0, <1>5, <1>7
<1>9. \A i \in 1..Len(t) : s[n + i] = t[i]
  <2> TAKE i \in 1..Len(t)
  <2>1. i \in 1..(Len(s) - (n + 1) + 1) /\ (n + 1) + i - 1 = n + i
    BY <1>0, <1>5, <1>8
  <2> QED BY <1>7, <2>1
<1>10. Leads(s, n, t)
  BY <1>0, <1>5, <1>7, <1>8, <1>9 DEF Leads
<1> QED BY <1>4, <1>5, <1>10 DEF t

LEMMA Reversed ==
  ASSUME NEW s \in Seq(Digits)
  PROVE  /\ Reverse(s) \in Seq(Digits) /\ Len(Reverse(s)) = Len(s)
         /\ \A i \in 1..Len(s) : Reverse(s)[i] = s[(Len(s) - i) + 1]
<1>1. Len(s) \in Nat
  BY LenProperties
<1>2. \A i \in 1..Len(s) : s[(Len(s) - i) + 1] \in Digits
  <2> TAKE i \in 1..Len(s)
  <2>1. (Len(s) - i) + 1 \in 1..Len(s)
    BY <1>1
  <2> QED BY <2>1, ElementOfSeq
<1>3. Reverse(s) \in [1..Len(s) -> Digits]
  BY <1>2 DEF Reverse
<1> QED BY <1>1, <1>3 DEF Reverse

LEMMA TrimmedRight ==
  ASSUME NEW s \in Seq(Digits)
  PROVE  LET t == TrimRight(s)
         IN /\ t \in Seq(Digits) /\ Len(t) <= Len(s)
            /\ \A i \in 1..Len(t) : t[i] = s[i]
            /\ \A i \in (Len(t) + 1)..Len(s) : s[i] = 0
<1> DEFINE r == Reverse(s)
           u == TrimLeft(r)
           t == TrimRight(s)
<1>0. Len(s) \in Nat
  BY LenProperties
<1>1. /\ r \in Seq(Digits) /\ Len(r) = Len(s)
      /\ \A i \in 1..Len(s) : r[i] = s[(Len(s) - i) + 1]
  BY Reversed
<1>2. PICK n \in Nat : Leads(r, n, u)
  BY <1>1, TrimmedLeft
<1>3. /\ t \in Seq(Digits) /\ Len(t) = Len(u)
      /\ \A i \in 1..Len(u) : t[i] = u[(Len(u) - i) + 1]
  BY <1>2, Reversed DEF TrimRight, Leads
<1> HIDE DEF r, u, t
<1>4. Len(s) = n + Len(u) /\ Len(u) \in Nat
  BY <1>1, <1>2, LenProperties DEF Leads
<1>5. ASSUME NEW i \in 1..Len(t) PROVE t[i] = s[i]
  <2>1. (Len(u) - i) + 1 \in 1..Len(u) /\ i \in 1..Len(u)
    BY <1>3, <1>4
  <2>2. u[(Len(u) - i) + 1] = r[n + ((Len(u) - i) + 1)]
    BY <1>2, <2>1 DEF Leads
  <2>3. n + ((Len(u) - i) + 1) = (Len(s) - i) + 1 /\ (Len(s) - i) + 1 \in 1..Len(s)
    BY <1>4, <2>1
  <2>4. r[(Len(s) - i) + 1] = s[(Len(s) - ((Len(s) - i) + 1)) + 1]
    BY <1>1, <2>3
  <2>5. (Len(s) - ((Len(s) - i) + 1)) + 1 = i
    BY <1>0, <2>1
  <2> QED BY <1>3, <2>1, <2>2, <2>3, <2>4, <2>5
<1>6. ASSUME NEW i \in (Len(t) + 1)..Len(s) PROVE s[i] = 0
  <2>1. (Len(s) - i) + 1 \in 1..n /\ (Len(s) - i) + 1 \in 1..Len(s)
    BY <1>0, <1>3, <1>4
  <2>2. r[(Len(s) - i) + 1] = 0
    BY <1>2, <2>1 DEF Leads
  <2>3. r[(Len(s) - i) + 1] = s[(Len(s) - ((Len(s) - i) + 1)) + 1]
    BY <1>1, <2>1
  <2>4. (Len(s) - ((Len(s) - i) + 1)) + 1 = i
    BY <1>0, <1>3, <1>4
  <2> QED BY <2>2, <2>3, <2>4
<1> QED BY <1>0, <1>3, <1>4, <1>5, <1>6 DEF t

LEMMA Joined ==
  ASSUME NEW s \in Seq(Digits), NEW t \in Seq(Digits)
  PROVE  /\ s \o t \in Seq(Digits) /\ Len(s \o t) = Len(s) + Len(t)
         /\ \A i \in 1..Len(s) : (s \o t)[i] = s[i]
         /\ \A i \in 1..Len(t) : (s \o t)[Len(s) + i] = t[i]
<1>0. Len(s) \in Nat /\ Len(t) \in Nat
  BY LenProperties
<1> DEFINE u == s \o t
<1>1. /\ u \in Seq(Digits) /\ Len(u) = Len(s) + Len(t)
      /\ \A i \in 1..(Len(s) + Len(t)) : u[i] = IF i <= Len(s) THEN s[i] ELSE t[i - Len(s)]
  BY ConcatProperties
<1> HIDE DEF u
<1>2. \A i \in 1..Len(s) : u[i] = s[i]
  BY <1>0, <1>1
<1>3. ASSUME NEW i \in 1..Len(t) PROVE u[Len(s) + i] = t[i]
  <2>1. /\ Len(s) + i \in 1..(Len(s) + Len(t)) /\ ~(Len(s) + i <= Len(s))
        /\ (Len(s) + i) - Len(s) = i
    BY <1>0
  <2> QED BY <1>1, <2>1
<1> QED BY <1>1, <1>2, <1>3 DEF u

(* Zeros ahead change no amount, whatever zeros follow.                    *)
LEMMA LeadsNumber ==
  ASSUME NEW s, NEW t, NEW n, Leads(s, n, t), NEW k \in Nat
  PROVE  Number(s \o Zeros(k)) = Number(t \o Zeros(k))
<1> DEFINE z == Zeros(k)
           sz == s \o z
           tz == t \o z
<1>0. z \in Seq(Digits) /\ Len(z) = k
  BY ZerosAre
<1> HIDE DEF z
<1>1. s \in Seq(Digits) /\ t \in Seq(Digits) /\ n \in Nat /\ Len(s) = n + Len(t) /\ Len(t) \in Nat
  BY LenProperties DEF Leads
<1>2. /\ sz \in Seq(Digits) /\ Len(sz) = Len(s) + Len(z)
      /\ \A i \in 1..Len(s) : sz[i] = s[i]
      /\ \A i \in 1..Len(z) : sz[Len(s) + i] = z[i]
  BY <1>0, <1>1, Joined
<1>3. /\ tz \in Seq(Digits) /\ Len(tz) = Len(t) + Len(z)
      /\ \A i \in 1..Len(t) : tz[i] = t[i]
      /\ \A i \in 1..Len(z) : tz[Len(t) + i] = z[i]
  BY <1>0, <1>1, Joined
<1> HIDE DEF sz, tz
<1>4. ASSUME NEW i \in 1..n PROVE sz[i] = 0
  <2>1. i \in 1..Len(s) /\ s[i] = 0
    BY <1>1 DEF Leads
  <2> QED BY <1>2, <2>1
<1>5. ASSUME NEW i \in 1..Len(tz) PROVE sz[n + i] = tz[i]
  <2>2. CASE i <= Len(t)
    <3>1. i \in 1..Len(t) /\ n + i \in 1..Len(s) /\ s[n + i] = t[i]
      BY <1>1, <2>2 DEF Leads
    <3> QED BY <1>2, <1>3, <3>1
  <2>3. CASE ~(i <= Len(t))
    <3>1. PICK j \in 1..Len(z) : i = Len(t) + j
      <4>1. i - Len(t) \in 1..Len(z) /\ i = Len(t) + (i - Len(t))
        BY <1>0, <1>1, <1>3, <2>3
      <4> QED BY <4>1
    <3>2. n + i = Len(s) + j
      BY <1>0, <1>1, <3>1
    <3> QED BY <1>2, <1>3, <3>1, <3>2
  <2> QED BY <2>2, <2>3
<1>6. Len(sz) = n + Len(tz)
  BY <1>0, <1>1, <1>2, <1>3
<1>7. Number(sz) = Number(tz)
  BY <1>1, <1>2, <1>3, <1>4, <1>5, <1>6, SameNumber
<1> QED BY <1>7 DEF sz, tz, z

(* s is the digits before a point, those after it, and m zeros.            *)
IsStrung(s, int, frac, m) ==
  /\ s \in Seq(Digits) /\ Len(s) = Len(int) + Len(frac) + m
  /\ \A i \in 1..Len(int) : s[i] = int[i]
  /\ \A i \in 1..Len(frac) : s[Len(int) + i] = frac[i]
  /\ \A i \in 1..m : s[Len(int) + Len(frac) + i] = 0

LEMMA Strung ==
  ASSUME NEW int, int \in Seq(Digits), NEW frac, frac \in Seq(Digits), NEW m, m \in Nat
  PROVE  IsStrung(int \o frac \o Zeros(m), int, frac, m)
<1> DEFINE z == Zeros(m)
           u == int \o frac
           s == u \o z
<1>0. /\ z \in Seq(Digits) /\ Len(z) = m /\ \A i \in 1..m : z[i] = 0
      /\ Len(int) \in Nat /\ Len(frac) \in Nat
  BY ZerosAre, LenProperties
<1> HIDE DEF z
<1>1. /\ u \in Seq(Digits) /\ Len(u) = Len(int) + Len(frac)
      /\ \A i \in 1..Len(int) : u[i] = int[i]
      /\ \A i \in 1..Len(frac) : u[Len(int) + i] = frac[i]
  BY Joined
<1> HIDE DEF u
<1>2. /\ s \in Seq(Digits) /\ Len(s) = Len(u) + Len(z)
      /\ \A i \in 1..Len(u) : s[i] = u[i]
      /\ \A i \in 1..Len(z) : s[Len(u) + i] = z[i]
  BY <1>0, <1>1, Joined
<1> HIDE DEF s
<1>3. \A i \in 1..Len(int) : s[i] = int[i]
  <2> TAKE i \in 1..Len(int)
  <2>1. i \in 1..Len(u)
    BY <1>0, <1>1
  <2> QED BY <1>1, <1>2, <2>1
<1>4. \A i \in 1..Len(frac) : s[Len(int) + i] = frac[i]
  <2> TAKE i \in 1..Len(frac)
  <2>1. Len(int) + i \in 1..Len(u)
    BY <1>0, <1>1
  <2> QED BY <1>1, <1>2, <2>1
<1>5. \A i \in 1..m : s[Len(int) + Len(frac) + i] = 0
  BY <1>0, <1>1, <1>2
<1>6. Len(s) = Len(int) + Len(frac) + m
  BY <1>0, <1>1, <1>2
<1> QED BY <1>2, <1>3, <1>4, <1>5, <1>6 DEF IsStrung, s, u, z

(* The fraction HumanToBase keeps.                                         *)
KeptPart(frac, places) ==
  IF Len(frac) > places THEN SubSeq(frac, 1, places)
  ELSE frac \o Zeros(places - Len(frac))

LEMMA KeptPartIs ==
  ASSUME NEW frac \in Seq(Digits), NEW d \in Nat
  PROVE  /\ KeptPart(frac, d) \in Seq(Digits) /\ Len(KeptPart(frac, d)) = d
         /\ \A i \in 1..d : KeptPart(frac, d)[i] = IF i <= Len(frac) THEN frac[i] ELSE 0
<1>0. Len(frac) \in Nat
  BY LenProperties
<1>1. CASE Len(frac) > d
  <2> DEFINE t == SubSeq(frac, 1, d)
  <2>1. \A i \in 1..d : frac[i] \in Digits
    <3> TAKE i \in 1..d
    <3>1. i \in 1..Len(frac)
      BY <1>0, <1>1
    <3> QED BY <3>1, ElementOfSeq
  <2>2. /\ t \in Seq(Digits) /\ Len(t) = IF 1 <= d THEN d - 1 + 1 ELSE 0
        /\ \A i \in 1..(d - 1 + 1) : t[i] = frac[1 + i - 1]
    BY <2>1, SubSeqProperties
  <2> HIDE DEF t
  <2>3. Len(t) = d
    BY <2>2
  <2>4. \A i \in 1..d : t[i] = frac[i]
    <3> TAKE i \in 1..d
    <3>1. i \in 1..(d - 1 + 1) /\ 1 + i - 1 = i
      OBVIOUS
    <3> QED BY <2>2, <3>1
  <2>5. \A i \in 1..d : i <= Len(frac)
    BY <1>0, <1>1
  <2>6. KeptPart(frac, d) = t
    BY <1>1 DEF KeptPart, t
  <2> QED BY <2>2, <2>3, <2>4, <2>5, <2>6
<1>2. CASE ~(Len(frac) > d)
  <2> DEFINE z == Zeros(d - Len(frac))
             t == frac \o z
  <2>1. d - Len(frac) \in Nat
    BY <1>0, <1>2
  <2>2. /\ z \in Seq(Digits) /\ Len(z) = d - Len(frac)
        /\ \A i \in 1..(d - Len(frac)) : z[i] = 0
    BY <2>1, ZerosAre
  <2> HIDE DEF z
  <2>3. /\ t \in Seq(Digits) /\ Len(t) = Len(frac) + Len(z)
        /\ \A i \in 1..Len(frac) : t[i] = frac[i]
        /\ \A i \in 1..Len(z) : t[Len(frac) + i] = z[i]
    BY <2>2, Joined
  <2> HIDE DEF t
  <2>4. Len(t) = d
    BY <1>0, <2>2, <2>3
  <2>5. ASSUME NEW i \in 1..d PROVE t[i] = IF i <= Len(frac) THEN frac[i] ELSE 0
    <3>1. CASE i <= Len(frac)
      BY <1>0, <2>3, <3>1
    <3>2. CASE ~(i <= Len(frac))
      <4>1. i - Len(frac) \in 1..(d - Len(frac)) /\ Len(frac) + (i - Len(frac)) = i
        BY <1>0, <3>2
      <4>2. t[Len(frac) + (i - Len(frac))] = 0
        BY <2>2, <2>3, <4>1
      <4> QED BY <3>2, <4>1, <4>2
    <3> QED BY <3>1, <3>2
  <2>6. KeptPart(frac, d) = t
    BY <1>2 DEF KeptPart, t, z
  <2> QED BY <2>3, <2>4, <2>5, <2>6
<1> QED BY <1>1, <1>2

(* HumanToBase drops leading zeros and the digits below the base unit, and *)
(* nothing else.                                                           *)
LEMMA ToBase ==
  ASSUME NEW human, human.int \in Seq(Digits), human.frac \in Seq(Digits),
         NEW d \in Nat, NEW k \in Nat
  PROVE  LET b == HumanToBase(human, d)
         IN /\ b \in Seq(Digits) /\ b # <<>>
            /\ Number(b \o Zeros(k)) = Number(human.int \o KeptPart(human.frac, d) \o Zeros(k))
<1> DEFINE b == HumanToBase(human, d)
           c == human.int \o KeptPart(human.frac, d)
           r == TrimLeft(c)
<1>1. b = IF r = <<>> THEN <<0>> ELSE r
  BY DEF HumanToBase, KeptPart
<1>2. c \in Seq(Digits)
  BY KeptPartIs, Joined
<1> HIDE DEF b, c
<1>3. PICK n \in Nat : Leads(c, n, r)
  BY <1>2, TrimmedLeft
<1>4. Number(c \o Zeros(k)) = Number(r \o Zeros(k))
  BY <1>3, LeadsNumber
<1> HIDE DEF r
<1>5. CASE r = <<>>
  <2>1. Leads(<<0>>, 1, <<>>)
    BY DEF Leads, Digits
  <2>2. Number(<<0>> \o Zeros(k)) = Number(<<>> \o Zeros(k))
    BY <2>1, LeadsNumber
  <2>3. b = <<0>> /\ <<0>> \in Seq(Digits) /\ <<0>> # <<>>
    BY <1>1, <1>5 DEF Digits
  <2> QED BY <1>4, <1>5, <2>2, <2>3 DEF b, c
<1>6. CASE r # <<>>
  BY <1>1, <1>3, <1>4, <1>6 DEF Leads, b, c
<1> QED BY <1>5, <1>6

(* A base amount parted where BaseToHuman sets the point.                  *)
LEMMA Parted ==
  ASSUME NEW b \in Seq(Digits), NEW cut \in 0..Len(b)
  PROVE  LET s == SubSeq(b, 1, cut)
             t == SubSeq(b, cut + 1, Len(b))
         IN /\ s \in Seq(Digits) /\ Len(s) = cut
            /\ \A i \in 1..cut : s[i] = b[i]
            /\ t \in Seq(Digits) /\ Len(t) = Len(b) - cut
            /\ \A i \in 1..(Len(b) - cut) : t[i] = b[cut + i]
<1> DEFINE s == SubSeq(b, 1, cut)
           t == SubSeq(b, cut + 1, Len(b))
<1>0. Len(b) \in Nat /\ cut \in Nat /\ cut <= Len(b)
  BY LenProperties
<1>1. \A i \in 1..Len(b) : b[i] \in Digits
  BY ElementOfSeq
<1>2. /\ s \in Seq(Digits) /\ Len(s) = IF 1 <= cut THEN cut - 1 + 1 ELSE 0
      /\ \A i \in 1..(cut - 1 + 1) : s[i] = b[1 + i - 1]
  <2>1. \A i \in 1..cut : b[i] \in Digits
    BY <1>0, <1>1
  <2> QED BY <1>0, <2>1, SubSeqProperties
<1>3. /\ t \in Seq(Digits)
      /\ Len(t) = IF cut + 1 <= Len(b) THEN Len(b) - (cut + 1) + 1 ELSE 0
      /\ \A i \in 1..(Len(b) - (cut + 1) + 1) : t[i] = b[(cut + 1) + i - 1]
  <2>1. \A i \in (cut + 1)..Len(b) : b[i] \in Digits
    BY <1>0, <1>1
  <2>2. cut + 1 \in Int /\ Len(b) \in Int
    BY <1>0
  <2> QED BY <2>1, <2>2, SubSeqProperties
<1> HIDE DEF s, t
<1>4. Len(s) = cut /\ Len(t) = Len(b) - cut
  BY <1>0, <1>2, <1>3
<1>5. \A i \in 1..cut : s[i] = b[i]
  <2> TAKE i \in 1..cut
  <2>1. i \in 1..(cut - 1 + 1) /\ 1 + i - 1 = i
    BY <1>0
  <2> QED BY <1>2, <2>1
<1>6. \A i \in 1..(Len(b) - cut) : t[i] = b[cut + i]
  <2> TAKE i \in 1..(Len(b) - cut)
  <2>1. i \in 1..(Len(b) - (cut + 1) + 1) /\ (cut + 1) + i - 1 = cut + i
    BY <1>0
  <2> QED BY <1>3, <2>1
<1> QED BY <1>2, <1>3, <1>4, <1>5, <1>6 DEF s, t

(* With the point set and the zeros at the end dropped, the digits are the *)
(* same once they are filled up to the same places.                        *)
LEMMA PointSet ==
  ASSUME NEW b \in Seq(Digits), NEW d \in Nat, NEW places \in Nat, d <= places,
         d <= Len(b)
  PROVE  LET cut == Len(b) - d
             int == SubSeq(b, 1, cut)
             frac == TrimRight(SubSeq(b, cut + 1, Len(b)))
         IN int \o frac \o Zeros(places - Len(frac)) = b \o Zeros(places - d)
<1> DEFINE cut == Len(b) - d
           int == SubSeq(b, 1, cut)
           rest == SubSeq(b, cut + 1, Len(b))
           frac == TrimRight(rest)
           u == int \o frac \o Zeros(places - Len(frac))
           v == b \o Zeros(places - d)
<1>0. Len(b) \in Nat /\ cut \in Nat /\ cut \in 0..Len(b)
      /\ Len(b) - cut = d /\ Len(b) = cut + d
  BY LenProperties
<1>1. /\ int \in Seq(Digits) /\ Len(int) = cut
      /\ \A i \in 1..cut : int[i] = b[i]
      /\ rest \in Seq(Digits) /\ Len(rest) = d
      /\ \A i \in 1..d : rest[i] = b[cut + i]
  <2> HIDE DEF cut
  <2> QED BY <1>0, Parted
<1> HIDE DEF cut, int, rest
<1>2. /\ frac \in Seq(Digits) /\ Len(frac) <= d /\ Len(frac) \in Nat
      /\ \A i \in 1..Len(frac) : frac[i] = rest[i]
      /\ \A i \in (Len(frac) + 1)..d : rest[i] = 0
  BY <1>1, TrimmedRight, LenProperties
<1> HIDE DEF frac
<1>3. places - Len(frac) \in Nat /\ places - d \in Nat
  BY <1>2
<1>4. /\ u \in Seq(Digits) /\ Len(u) = cut + Len(frac) + (places - Len(frac))
      /\ \A i \in 1..cut : u[i] = int[i]
      /\ \A i \in 1..Len(frac) : u[cut + i] = frac[i]
      /\ \A i \in 1..(places - Len(frac)) : u[cut + Len(frac) + i] = 0
  <2>1. IsStrung(u, int, frac, places - Len(frac))
    BY <1>1, <1>2, <1>3, Strung
  <2> HIDE DEF u
  <2> QED BY <1>1, <2>1 DEF IsStrung
<1>5. /\ v \in Seq(Digits) /\ Len(v) = Len(b) + (places - d)
      /\ \A i \in 1..Len(b) : v[i] = b[i]
      /\ \A i \in 1..(places - d) : v[Len(b) + i] = 0
  <2> DEFINE z == Zeros(places - d)
  <2>1. z \in Seq(Digits) /\ Len(z) = places - d /\ \A i \in 1..(places - d) : z[i] = 0
    BY <1>3, ZerosAre
  <2> HIDE DEF z
  <2>2. /\ b \o z \in Seq(Digits) /\ Len(b \o z) = Len(b) + Len(z)
        /\ \A i \in 1..Len(b) : (b \o z)[i] = b[i]
        /\ \A i \in 1..Len(z) : (b \o z)[Len(b) + i] = z[i]
    BY <2>1, Joined
  <2> QED BY <2>1, <2>2 DEF z
<1> HIDE DEF u, v
<1>6. Len(u) = Len(v)
  BY <1>0, <1>2, <1>4, <1>5
<1>7. ASSUME NEW i \in 1..Len(u) PROVE u[i] = v[i]
  <2>0. i \in Nat /\ i >= 1 /\ i <= cut + places
    BY <1>0, <1>2, <1>4
  <2>1. CASE i <= cut
    <3>1. i \in 1..cut /\ i \in 1..Len(b)
      BY <1>0, <2>0, <2>1
    <3> QED BY <1>1, <1>4, <1>5, <3>1
  <2>2. CASE cut < i /\ i <= cut + Len(frac)
    <3>1. PICK j \in 1..Len(frac) : i = cut + j
      <4>1. i - cut \in 1..Len(frac) /\ i = cut + (i - cut)
        BY <1>0, <1>2, <2>0, <2>2
      <4> QED BY <4>1
    <3>2. j \in 1..d /\ i \in 1..Len(b)
      BY <1>0, <1>2, <3>1
    <3>3. u[i] = frac[j]
      BY <1>4, <3>1, Zenon
    <3>4. frac[j] = rest[j]
      BY <1>2, <3>1, Zenon
    <3>5. rest[j] = b[i]
      BY <1>1, <3>1, <3>2, Zenon
    <3>6. v[i] = b[i]
      BY <1>5, <3>2, Zenon
    <3> QED BY <3>3, <3>4, <3>5, <3>6
  <2>3. CASE cut + Len(frac) < i /\ i <= Len(b)
    <3>1. /\ i - cut - Len(frac) \in 1..(places - Len(frac))
          /\ i = cut + Len(frac) + (i - cut - Len(frac))
          /\ i - cut \in (Len(frac) + 1)..d /\ i - cut \in 1..d
          /\ i = cut + (i - cut) /\ i \in 1..Len(b)
      BY <1>0, <1>2, <2>0, <2>3
    <3>2. u[i] = 0
      BY <1>4, <3>1
    <3>3. rest[i - cut] = 0 /\ rest[i - cut] = b[cut + (i - cut)]
      BY <1>1, <1>2, <3>1
    <3> QED BY <1>5, <3>1, <3>2, <3>3
  <2>4. CASE Len(b) < i
    <3>1. /\ i - cut - Len(frac) \in 1..(places - Len(frac))
          /\ i = cut + Len(frac) + (i - cut - Len(frac))
          /\ i - Len(b) \in 1..(places - d) /\ i = Len(b) + (i - Len(b))
      BY <1>0, <1>2, <2>0, <2>4
    <3>2. u[i] = 0
      BY <1>4, <3>1
    <3>3. v[i] = 0
      BY <1>5, <3>1
    <3> QED BY <3>2, <3>3
  <2> QED BY <1>0, <1>2, <2>0, <2>1, <2>2, <2>3, <2>4
<1>8. u = v
  BY <1>4, <1>5, <1>6, <1>7, SeqEqual
<1> QED BY <1>8 DEF u, v, frac, rest, int, cut

(* BaseToHuman keeps the amount.                                           *)
LEMMA ToHuman ==
  ASSUME NEW b \in Seq(Digits), b # <<>>, NEW d \in Nat \ {0},
         NEW places \in Nat, d <= places
  PROVE  Scaled(BaseToHuman(b, d), places) = Number(b \o Zeros(places - d))
<1> DEFINE c == IF Len(b) <= d THEN Zeros(d - Len(b) + 1) \o b ELSE b
           n == IF Len(b) <= d THEN d - Len(b) + 1 ELSE 0
           cut == Len(c) - d
           int == SubSeq(c, 1, cut)
           frac == TrimRight(SubSeq(c, cut + 1, Len(c)))
<1>0. Len(b) \in Nat
  BY LenProperties
<1>1. Leads(c, n, b) /\ d <= Len(c)
  <2>1. CASE Len(b) <= d
    <3> DEFINE z == Zeros(d - Len(b) + 1)
    <3>0. d - Len(b) + 1 \in Nat
      BY <1>0, <2>1
    <3>1. /\ z \in Seq(Digits) /\ Len(z) = d - Len(b) + 1
          /\ \A i \in 1..(d - Len(b) + 1) : z[i] = 0
      BY <3>0, ZerosAre
    <3> HIDE DEF z
    <3>2. /\ z \o b \in Seq(Digits) /\ Len(z \o b) = Len(z) + Len(b)
          /\ \A i \in 1..Len(z) : (z \o b)[i] = z[i]
          /\ \A i \in 1..Len(b) : (z \o b)[Len(z) + i] = b[i]
      BY <3>1, Joined
    <3>3. c = z \o b /\ n = Len(z)
      BY <2>1, <3>1 DEF z
    <3> HIDE DEF c, n
    <3> QED BY <1>0, <3>0, <3>1, <3>2, <3>3 DEF Leads
  <2>2. CASE ~(Len(b) <= d)
    BY <1>0, <2>2 DEF Leads
  <2> QED BY <2>1, <2>2
<1>2. c \in Seq(Digits)
  BY <1>1 DEF Leads
<1>3. BaseToHuman(b, d) = [int |-> int, frac |-> frac]
  BY DEF BaseToHuman
<1> HIDE DEF c, n
<1>4. int \o frac \o Zeros(places - Len(frac)) = c \o Zeros(places - d)
  BY <1>1, <1>2, PointSet
<1>5. Number(c \o Zeros(places - d)) = Number(b \o Zeros(places - d))
  <2>1. places - d \in Nat
    OBVIOUS
  <2> QED BY <1>1, <2>1, LeadsNumber
<1>6. Scaled(BaseToHuman(b, d), places) = Number(int \o frac \o Zeros(places - Len(frac)))
  BY <1>3 DEF Scaled
<1> QED BY <1>4, <1>5, <1>6

(* A human amount made a base amount and shown again falls short of the    *)
(* amount by less than one base unit.                                      *)
LEMMA AskedIsMeant ==
  ASSUME NEW human, human.int \in Seq(Digits), human.frac \in Seq(Digits),
         NEW d \in Nat \ {0}
  PROVE  LET places == IF Len(human.frac) > d THEN Len(human.frac) ELSE d
             asked == Scaled(BaseToHuman(HumanToBase(human, d), d), places)
             meant == Scaled(human, places)
             unit == Number(<<1>> \o Zeros(places - d))
         IN asked <= meant /\ meant < asked + unit
<1> DEFINE int == human.int
           frac == human.frac
           places == IF Len(frac) > d THEN Len(frac) ELSE d
           k == places - d
           m == places - Len(frac)
           kept == KeptPart(frac, d)
           s == int \o frac \o Zeros(m)
           t == int \o kept \o Zeros(k)
           u == <<1>> \o Zeros(k)
<1>0. /\ Len(int) \in Nat /\ Len(frac) \in Nat /\ d \in Nat /\ places \in Nat /\ d <= places
      /\ k \in Nat /\ m \in Nat /\ d + k = Len(frac) + m
  BY LenProperties
<1>1. Scaled(BaseToHuman(HumanToBase(human, d), d), places) = Number(t)
  <2> DEFINE b == HumanToBase(human, d)
  <2> HIDE DEF places
  <2>1. b \in Seq(Digits) /\ b # <<>> /\ Number(b \o Zeros(k)) = Number(t)
    BY <1>0, ToBase
  <2> HIDE DEF b
  <2>2. Scaled(BaseToHuman(b, d), places) = Number(b \o Zeros(places - d))
    BY <1>0, <2>1, ToHuman
  <2> QED BY <2>1, <2>2 DEF b
<1>2. Scaled(human, places) = Number(s)
  BY DEF Scaled
<1>3. /\ kept \in Seq(Digits) /\ Len(kept) = d
      /\ \A i \in 1..d : kept[i] = IF i <= Len(frac) THEN frac[i] ELSE 0
  BY <1>0, KeptPartIs
<1> HIDE DEF kept, k, m
<1>4. /\ s \in Seq(Digits) /\ Len(s) = Len(int) + Len(frac) + m
      /\ \A i \in 1..Len(int) : s[i] = int[i]
      /\ \A i \in 1..Len(frac) : s[Len(int) + i] = frac[i]
      /\ \A i \in 1..m : s[Len(int) + Len(frac) + i] = 0
  <2>1. IsStrung(s, int, frac, m)
    BY <1>0, Strung
  <2> HIDE DEF s
  <2> QED BY <2>1 DEF IsStrung
<1>5. /\ t \in Seq(Digits) /\ Len(t) = Len(int) + d + k
      /\ \A i \in 1..Len(int) : t[i] = int[i]
      /\ \A i \in 1..d : t[Len(int) + i] = kept[i]
      /\ \A i \in 1..k : t[Len(int) + d + i] = 0
  <2>1. IsStrung(t, int, kept, k)
    BY <1>0, <1>3, Strung
  <2> HIDE DEF t
  <2> QED BY <1>3, <2>1 DEF IsStrung
<1>6. /\ u \in Seq(Digits) /\ Len(u) = k + 1 /\ u[1] = 1
      /\ \A i \in 1..k : u[1 + i] = 0
  <2> DEFINE z == Zeros(k)
  <2>1. z \in Seq(Digits) /\ Len(z) = k /\ \A i \in 1..k : z[i] = 0
    BY <1>0, ZerosAre
  <2> HIDE DEF z
  <2>2. <<1>> \in Seq(Digits) /\ Len(<<1>>) = 1 /\ <<1>>[1] = 1
    BY DEF Digits
  <2>3. /\ <<1>> \o z \in Seq(Digits) /\ Len(<<1>> \o z) = 1 + Len(z)
        /\ \A i \in 1..1 : (<<1>> \o z)[i] = <<1>>[i]
        /\ \A i \in 1..Len(z) : (<<1>> \o z)[1 + i] = z[i]
    BY <2>1, <2>2, Joined
  <2> QED BY <1>0, <2>1, <2>2, <2>3 DEF z
<1> HIDE DEF s, t, u, int, frac, places
<1>7. ASSUME NEW i \in 1..(Len(int) + d) PROVE s[i] = t[i]
  <2>1. CASE i <= Len(int)
    BY <1>0, <1>4, <1>5, <2>1
  <2>2. CASE Len(int) < i
    <3>1. PICK j \in 1..d : i = Len(int) + j
      <4>1. i - Len(int) \in 1..d /\ i = Len(int) + (i - Len(int))
        BY <1>0, <2>2
      <4> QED BY <4>1
    <3>2. t[i] = IF j <= Len(frac) THEN frac[j] ELSE 0
      BY <1>3, <1>5, <3>1
    <3>3. CASE j <= Len(frac)
      <4>1. s[i] = frac[j]
        BY <1>0, <1>4, <3>1, <3>3
      <4> QED BY <3>2, <3>3, <4>1
    <3>4. CASE ~(j <= Len(frac))
      <4>1. j - Len(frac) \in 1..m /\ i = Len(int) + Len(frac) + (j - Len(frac))
        BY <1>0, <3>1, <3>4
      <4>2. s[i] = 0
        BY <1>4, <4>1
      <4> QED BY <3>2, <3>4, <4>2
    <3> QED BY <3>3, <3>4
  <2> QED BY <1>0, <2>1, <2>2
<1>8. Number(t) <= Number(s) /\ Number(s) < Number(t) + Number(u)
  <2>1. PICK n \in Nat : n = Len(int) + d
    BY <1>0
  <2>2. Len(s) = n + k /\ Len(t) = n + k
    <3> DEFINE a == Len(int)
               f == Len(frac)
    <3>1. Len(s) = a + f + m /\ Len(t) = a + d + k
      BY <1>4, <1>5, Zenon
    <3>2. a \in Nat /\ f \in Nat /\ n = a + d /\ d + k = f + m
      BY <1>0, <2>1, Zenon
    <3> HIDE DEF a, f
    <3>3. a + f + m = n + k /\ a + d + k = n + k
      BY <1>0, <3>2
    <3> QED BY <3>1, <3>3, Zenon
  <2>3. \A i \in 1..n : s[i] = t[i]
    BY <1>7, <2>1
  <2>4. \A i \in 1..k : t[n + i] = 0 /\ u[1 + i] = 0
    BY <1>5, <1>6, <2>1
  <2>5. IsCut(s, t, u, n, k)
    BY <1>0, <1>4, <1>5, <1>6, <2>2, <2>3, <2>4, Zenon DEF IsCut
  <2> QED BY <2>5, DigitsCut
<1> QED BY <1>1, <1>2, <1>8 DEF s, t, u, int, frac, places, k

LEMMA NumbersAreNaturals ==
  /\ \A s \in Seq(Digits) : Number(s) \in Nat
  /\ Zeros(0) = <<>> /\ Number(<<1>>) = 1
<1>1. ASSUME NEW s \in Seq(Digits) PROVE Number(s) \in Nat
  <2>1. Len(s) \in 0..Len(s) /\ PrefixValues(s) \in [0..Len(s) -> Nat]
    BY LenProperties, PrefixValuesAre DEF IsValue
  <2> QED BY <2>1 DEF Number
<1>2. Zeros(0) = <<>>
  BY ZerosAre, EmptySeq
<1>3. Number(<<1>>) = 1
  <2>1. <<1>> \in Seq(Digits) /\ Len(<<1>>) = 1 /\ <<1>>[1] = 1
    BY DEF Digits
  <2>2. IsValue(PrefixValues(<<1>>), <<1>>, 1)
    BY <2>1, PrefixValuesAre
  <2>3. PrefixValues(<<1>>)[1] = 1
    <3> DEFINE p == PrefixValues(<<1>>)
    <3> HIDE DEF p
    <3>1. p[0] = 0 /\ p[1] = 10 * p[1 - 1] + <<1>>[1]
      BY <2>2 DEF IsValue, p
    <3> QED BY <2>1, <3>1 DEF p
  <2> QED BY <2>1, <2>3 DEF Number
<1> QED BY <1>1, <1>2, <1>3

(* What is shown of a base amount is that amount, for amounts of any       *)
(* length and one decimal of the token or more (baseToHuman); an amount of *)
(* no more decimals than the token loses nothing either (humanToBase).     *)
THEOREM AmountsAreExact ==
  ASSUME NEW d \in Nat \ {0}
  PROVE  /\ \A b \in Seq(Digits) : b # <<>> => Scaled(BaseToHuman(b, d), d) = Number(b)
         /\ \A human \in [int : Seq(Digits), frac : Seq(Digits)] :
              Len(human.frac) <= d =>
                Scaled(BaseToHuman(HumanToBase(human, d), d), d) = Scaled(human, d)
<1>1. ASSUME NEW b \in Seq(Digits), b # <<>>
      PROVE  Scaled(BaseToHuman(b, d), d) = Number(b)
  <2>1. Scaled(BaseToHuman(b, d), d) = Number(b \o Zeros(d - d))
    BY <1>1, ToHuman
  <2>2. b \o Zeros(d - d) = b
    BY NumbersAreNaturals, ConcatEmptySeq
  <2> QED BY <2>1, <2>2
<1>2. ASSUME NEW human \in [int : Seq(Digits), frac : Seq(Digits)], Len(human.frac) <= d
      PROVE  Scaled(BaseToHuman(HumanToBase(human, d), d), d) = Scaled(human, d)
  <2> DEFINE b == HumanToBase(human, d)
             asked == Scaled(BaseToHuman(b, d), d)
             meant == Scaled(human, d)
  <2>0. human.int \in Seq(Digits) /\ human.frac \in Seq(Digits) /\ Len(human.frac) \in Nat
    BY LenProperties
  <2>1. (IF Len(human.frac) > d THEN Len(human.frac) ELSE d) = d
    BY <1>2, <2>0
  <2>2. asked <= meant /\ meant < asked + Number(<<1>> \o Zeros(d - d))
    BY <2>0, <2>1, AskedIsMeant
  <2>3. <<1>> \o Zeros(d - d) = <<1>>
    <3>1. <<1>> \in Seq(Digits) /\ d - d = 0
      BY DEF Digits
    <3> QED BY <3>1, NumbersAreNaturals, ConcatEmptySeq
  <2>4. asked \in Nat
    <3>1. b \in Seq(Digits) /\ b # <<>>
      BY <2>0, ToBase
    <3>2. asked = Number(b)
      BY <1>1, <3>1
    <3> QED BY <3>1, <3>2, NumbersAreNaturals
  <2>5. meant \in Nat
    <3>1. d - Len(human.frac) \in Nat
      BY <1>2, <2>0
    <3>2. human.int \o human.frac \o Zeros(d - Len(human.frac)) \in Seq(Digits)
      BY <2>0, <3>1, Strung DEF IsStrung
    <3> QED BY <3>2, NumbersAreNaturals DEF Scaled
  <2> HIDE DEF asked, meant
  <2>6. asked = meant
    <3>1. meant < asked + 1
      BY <2>2, <2>3, NumbersAreNaturals, Zenon
    <3> QED BY <2>2, <2>4, <2>5, <3>1
  <2> QED BY <2>6 DEF asked, meant
<1> QED BY <1>1, <1>2

-----------------------------------------------------------------------------
(* The amount NEXT is asked for *)

LEMMA QuotesAmounts ==
  ASSUME NEW human, NEW b, NEW d
  PROVE  /\ Quoting!HumanToBase(human, d) = HumanToBase(human, d)
         /\ Quoting!BaseToHuman(b, d) = BaseToHuman(b, d)
         /\ Quoting!Scaled(human, d) = Scaled(human, d)
<1>1. \A s : Quoting!TrimLeft(s) = TrimLeft(s)
  BY Zenon DEF Quoting!TrimLeft, TrimLeft
<1>2. \A s : Quoting!Reverse(s) = Reverse(s)
  BY Zenon DEF Quoting!Reverse, Reverse
<1>3. \A s : Quoting!TrimRight(s) = TrimRight(s)
  BY <1>1, <1>2, Zenon DEF Quoting!TrimRight, TrimRight
<1>4. \A n : Quoting!Zeros(n) = Zeros(n)
  BY Zenon DEF Quoting!Zeros, Zeros
<1>5. \A s : Quoting!Number(s) = Number(s)
  BY Zenon DEF Quoting!Number, Number, Quoting!PrefixValues, PrefixValues
<1> QED
  BY <1>1, <1>3, <1>4, <1>5, Zenon
     DEF Quoting!HumanToBase, HumanToBase, Quoting!BaseToHuman, BaseToHuman,
         Quoting!Scaled, Scaled

(* What NEXT is asked for is the amount typed, in base units.              *)
AskedInv ==
  /\ typed.int \in Seq(Digits) /\ typed.frac \in Seq(Digits)
  /\ decimals.source \in Nat \ {0}
  /\ base # <<>> => base = HumanToBase(typed, decimals.source)

LEMMA AskedStarts == Quoting!BothQuoteInit => AskedInv
BY CliConstants
   DEF Quoting!BothQuoteInit, Quoting!BothQuoteConstants, Quoting!Digits, Digits, AskedInv

LEMMA AskedStep == AskedInv /\ [Quoting!BothQuoteNext]_(Quoting!quoteVars) => AskedInv'
<1> SUFFICES ASSUME AskedInv, [Quoting!BothQuoteNext]_(Quoting!quoteVars) PROVE AskedInv'
  OBVIOUS
<1>1. CASE Quoting!Convert
  <2>1. Quoting!HumanToBase(typed, decimals.source) = HumanToBase(typed, decimals.source)
    BY QuotesAmounts
  <2> QED BY <1>1, <2>1 DEF Quoting!Convert, AskedInv
<1>2. ASSUME UNCHANGED <<typed, decimals, base>> PROVE AskedInv'
  BY <1>2 DEF AskedInv
<1> QED
  BY <1>1, <1>2
     DEF Quoting!BothQuoteNext, Quoting!Main, Quoting!Side, Quoting!Look, Quoting!AskQuote,
         Quoting!SendResult, Quoting!Receive, Quoting!Render, Quoting!quoteVars

LEMMA AskedIsTyped == AskedInv => TypedIsAsked
<1> SUFFICES ASSUME AskedInv, base # <<>> PROVE TypedIsAsked
  BY DEF TypedIsAsked, Quoting!TypedIsAsked
<1> DEFINE d == decimals.source
           places == IF Len(typed.frac) > d THEN Len(typed.frac) ELSE d
           asked == Scaled(BaseToHuman(base, d), places)
           meant == Scaled(typed, places)
           unit == Number(<<1>> \o Zeros(places - d))
<1>1. typed.int \in Seq(Digits) /\ typed.frac \in Seq(Digits) /\ d \in Nat \ {0}
  BY DEF AskedInv
<1>2. base = HumanToBase(typed, d)
  BY DEF AskedInv
<1>3. asked <= meant /\ meant < asked + unit
  BY <1>1, <1>2, AskedIsMeant
<1>4. /\ asked = Quoting!Scaled(Quoting!BaseToHuman(base, d), places)
      /\ meant = Quoting!Scaled(typed, places)
      /\ unit = Quoting!Number(<<1>> \o Quoting!Zeros(places - d))
  <2>1. unit = Quoting!Number(<<1>> \o Quoting!Zeros(places - d))
    BY Zenon DEF Quoting!Number, Number, Quoting!PrefixValues, PrefixValues,
                 Quoting!Zeros, Zeros
  <2> QED BY <2>1, QuotesAmounts, Zenon
<1> HIDE DEF asked, meant, unit
<1> QED BY <1>3, <1>4 DEF TypedIsAsked, Quoting!TypedIsAsked

(* NEXT is asked for the amount typed, short of less than one base unit,   *)
(* whatever its digits and the decimals of the token.                      *)
THEOREM NextIsAskedForTheAmount == Quoting!BothQuoteSpec => []TypedIsAsked
BY AskedStarts, AskedStep, AskedIsTyped, PTL DEF Quoting!BothQuoteSpec

-----------------------------------------------------------------------------
(* The requests *)

LEMMA FormsAre ==
  ASSUME NEW routes, NEW must, NEW may, NEW f \in Forms(routes, must, may)
  PROVE  f.path \in routes /\ f.must = must /\ f.may = may
BY DEF Forms

LEMMA RoutesHaveForms ==
  ASSUME NEW routes, NEW must, NEW may, NEW r \in routes
  PROVE  \E f \in Forms(routes, must, may) : f.path = r /\ f.must = must /\ f.may = may
<1>1. [path |-> r, must |-> must, may |-> may] \in Forms(routes, must, may)
  BY DEF Forms
<1> QED BY <1>1

(* No route has two forms. *)
LEMMA OneForm ==
  ASSUME NEW f \in AllForms, NEW g \in AllForms, f.path = g.path
  PROVE  f.must = g.must /\ f.may = g.may
<1> USE FormsAre
<1>1. \A p, q \in TransfersForms : p.path = q.path => p.must = q.must /\ p.may = q.may
  BY DEF TransfersForms
<1>2. \A p \in TransfersForms, q \in TokensForms : p.path # q.path
  BY DEF TransfersForms, TokensForms
<1>3. \A p \in TransfersForms, q \in PoolForms : p.path # q.path
  BY DEF TransfersForms, PoolForms
<1>4. \A p \in TransfersForms, q \in YieldForms : p.path # q.path
  BY DEF TransfersForms, YieldForms
<1>5. \A p \in TransfersForms, q \in UtilsForms : p.path # q.path
  BY DEF TransfersForms, UtilsForms
<1>6. \A p, q \in TokensForms : p.path = q.path => p.must = q.must /\ p.may = q.may
  BY DEF TokensForms
<1>7. \A p \in TokensForms, q \in PoolForms : p.path # q.path
  BY DEF TokensForms, PoolForms
<1>8. \A p \in TokensForms, q \in YieldForms : p.path # q.path
  BY DEF TokensForms, YieldForms
<1>9. \A p \in TokensForms, q \in UtilsForms : p.path # q.path
  BY DEF TokensForms, UtilsForms
<1>10. \A p, q \in PoolForms : p.path = q.path => p.must = q.must /\ p.may = q.may
  BY DEF PoolForms
<1>11. \A p \in PoolForms, q \in YieldForms : p.path # q.path
  BY DEF PoolForms, YieldForms
<1>12. \A p \in PoolForms, q \in UtilsForms : p.path # q.path
  BY DEF PoolForms, UtilsForms
<1>13. \A p, q \in YieldForms : p.path = q.path => p.must = q.must /\ p.may = q.may
  BY DEF YieldForms
<1>14. \A p \in YieldForms, q \in UtilsForms : p.path # q.path
  BY DEF YieldForms, UtilsForms
<1>15. \A p, q \in UtilsForms : p.path = q.path => p.must = q.must /\ p.may = q.may
  BY DEF UtilsForms
<1> QED
  BY <1>1, <1>2, <1>3, <1>4, <1>5, <1>6, <1>7, <1>8, <1>9, <1>10, <1>11, <1>12, <1>13,
     <1>14, <1>15
     DEF AllForms

(* A request of the typed client, and one of a command, that the form of   *)
(* its route describes.                                                    *)
TypedFits(f, q) ==
  /\ f.path = q.path /\ f.must = q.always
  /\ q.optional \subseteq f.may /\ q.optional \cap f.must = {}

CommandFits(f, q) ==
  /\ f.path = q.path /\ f.must \subseteq q.always
  /\ q.always \cup q.optional \subseteq f.must \cup f.may

LEMMA TypedRequestsFit == \A q \in Builders : \E f \in AllForms : TypedFits(f, q)
<1> USE RoutesHaveForms DEF TypedFits, Query, Owned, Pair, SolanaFee
<1>0. Forms({"/pending/info", "/swap/details", "/bridge/details", "/bridge/quote"},
            Pair \cup {"amount"}, {}) \subseteq TransfersForms
  BY DEF TransfersForms
<1>1. \E f \in TransfersForms : TypedFits(f, NewGetBridgeAllowanceRequest)
  BY DEF TransfersForms, NewGetBridgeAllowanceRequest
<1>2. \E f \in TransfersForms : TypedFits(f, NewBridgeDetailsRequest)
  <2>1. PICK f \in TransfersForms :
          f.path = "/bridge/details" /\ f.must = Pair \cup {"amount"} /\ f.may = {}
    BY <1>0
  <2> QED BY <2>1 DEF NewBridgeDetailsRequest
<1>3. \E f \in TransfersForms : TypedFits(f, NewBridgeQuoteRequest)
  <2>1. PICK f \in TransfersForms :
          f.path = "/bridge/quote" /\ f.must = Pair \cup {"amount"} /\ f.may = {}
    BY <1>0
  <2> QED BY <2>1 DEF NewBridgeQuoteRequest
<1>4. \E f \in TransfersForms : TypedFits(f, NewGetAmountToBeReceivedRequest)
  BY DEF TransfersForms, NewGetAmountToBeReceivedRequest
<1>5. \E f \in TransfersForms : TypedFits(f, NewGetAmountToSendRequest)
  BY DEF TransfersForms, NewGetAmountToSendRequest
<1>6. \E f \in TransfersForms : TypedFits(f, NewCheckAllowanceRequest)
  BY DEF TransfersForms, NewCheckAllowanceRequest
<1>7. \E f \in TransfersForms : TypedFits(f, NewCheckBridgeAllowanceRequest)
  BY DEF TransfersForms, NewCheckBridgeAllowanceRequest
<1>8. \E f \in TransfersForms : TypedFits(f, NewGetPendingStatusInfoRequest)
  BY DEF TransfersForms, NewGetPendingStatusInfoRequest
<1>9. \E f \in TransfersForms : TypedFits(f, NewBuildRawTransactionAssetOptInRequest)
  BY DEF TransfersForms, NewBuildRawTransactionAssetOptInRequest
<1>10. \E f \in TransfersForms : TypedFits(f, NewApproveRequest)
  BY DEF TransfersForms, NewApproveRequest
<1>11. \E f \in TransfersForms : TypedFits(f, NewGetRawSwapAndBridgeRequest)
  BY DEF TransfersForms, NewGetRawSwapAndBridgeRequest
<1>12. \E f \in TransfersForms : TypedFits(f, NewBridgeApproveRequest)
  <2>1. PICK f \in TransfersForms :
          /\ f.path = "/raw/bridge/approve" /\ f.must = Owned
          /\ f.may = {"feePaymentMethod", "contractAddress"} \cup {"amount", "messenger"}
    BY DEF TransfersForms
  <2> QED BY <2>1 DEF NewBridgeApproveRequest
<1>13. \E f \in TransfersForms : TypedFits(f, NewSimulateAndCheckRestoreTxRequiredSorobanRequest)
  BY DEF TransfersForms, NewSimulateAndCheckRestoreTxRequiredSorobanRequest
<1>14. \E f \in TransfersForms : TypedFits(f, NewBuildChangeTrustLineXdrTxRequest)
  BY DEF TransfersForms, NewBuildChangeTrustLineXdrTxRequest
<1>15. \E f \in TransfersForms : TypedFits(f, NewGetRawSwapRequest)
  BY DEF TransfersForms, NewGetRawSwapRequest
<1>16. \E f \in TransfersForms : TypedFits(f, NewSwapDetailsRequest)
  BY DEF TransfersForms, NewSwapDetailsRequest
<1>17. \E f \in TransfersForms : TypedFits(f, NewGetTransferStatusRequest)
  BY DEF TransfersForms, NewGetTransferStatusRequest
<1>18. \E f \in TransfersForms : TypedFits(f, NewGetTransferTimeRequest)
  BY DEF TransfersForms, NewGetTransferTimeRequest
<1>19. \E f \in TokensForms : TypedFits(f, NewChainDetailsMapRequest)
  BY DEF TokensForms, NewChainDetailsMapRequest
<1>20. \E f \in TokensForms : TypedFits(f, NewCheckAlgorandAssetOptInRequest)
  BY DEF TokensForms, NewCheckAlgorandAssetOptInRequest
<1>21. \E f \in TokensForms : TypedFits(f, NewCheckBalanceLineRequest)
  BY DEF TokensForms, NewCheckBalanceLineRequest
<1>22. \E f \in TokensForms : TypedFits(f, NewGetGasBalanceRequest)
  BY DEF TokensForms, NewGetGasBalanceRequest
<1>23. \E f \in TokensForms : TypedFits(f, NewGetExtraGasMaxLimitsRequest)
  BY DEF TokensForms, NewGetExtraGasMaxLimitsRequest
<1>24. \E f \in TokensForms : TypedFits(f, NewGetGasFeeOptionsRequest)
  BY DEF TokensForms, NewGetGasFeeOptionsRequest
<1>25. \E f \in TokensForms : TypedFits(f, NewGetTokenBalanceRequest)
  BY DEF TokensForms, NewGetTokenBalanceRequest
<1>26. \E f \in TokensForms : TypedFits(f, NewGetTokenByChainAndAddressRequest)
  BY DEF TokensForms, NewGetTokenByChainAndAddressRequest
<1>27. \E f \in TokensForms : TypedFits(f, NewGetTokenNativeBalanceRequest)
  BY DEF TokensForms, NewGetTokenNativeBalanceRequest
<1>28. \E f \in TokensForms : TypedFits(f, NewGetTokensRequest)
  BY DEF TokensForms, NewGetTokensRequest
<1>29. \E f \in PoolForms : TypedFits(f, NewCheckPoolAllowanceRequest)
  BY DEF PoolForms, NewCheckPoolAllowanceRequest
<1>30. \E f \in PoolForms : TypedFits(f, NewGetAmountFromVUsdRequest)
  BY DEF PoolForms, NewGetAmountFromVUsdRequest
<1>31. \E f \in PoolForms : TypedFits(f, NewFormatAprRequest)
  BY DEF PoolForms, NewFormatAprRequest
<1>32. \E f \in PoolForms : TypedFits(f, NewGetAmountToBeDepositedRequest)
  BY DEF PoolForms, NewGetAmountToBeDepositedRequest
<1>33. \E f \in PoolForms : TypedFits(f, NewGetUserPoolInfoRequest)
  BY DEF PoolForms, NewGetUserPoolInfoRequest
<1>34. \E f \in PoolForms : TypedFits(f, NewGetVUsdFromAmountRequest)
  BY DEF PoolForms, NewGetVUsdFromAmountRequest
<1>35. \E f \in PoolForms : TypedFits(f, NewGetAmountToBeWithdrawnRequest)
  BY DEF PoolForms, NewGetAmountToBeWithdrawnRequest
<1>36. \E f \in PoolForms : TypedFits(f, NewGetPoolAllowanceRequest)
  BY DEF PoolForms, NewGetPoolAllowanceRequest
<1>37. \E f \in PoolForms : TypedFits(f, NewGetPoolInfoFromBlockchainRequest)
  BY DEF PoolForms, NewGetPoolInfoFromBlockchainRequest
<1>38. \E f \in PoolForms : TypedFits(f, NewGetPoolInfoByServerRequest)
  BY DEF PoolForms, NewGetPoolInfoByServerRequest
<1>39. \E f \in PoolForms : TypedFits(f, NewClaimRewardsRequest)
  BY DEF PoolForms, NewClaimRewardsRequest
<1>40. \E f \in PoolForms : TypedFits(f, NewDepositRequest)
  BY DEF PoolForms, NewDepositRequest
<1>41. \E f \in PoolForms : TypedFits(f, NewPoolApproveRequest)
  BY DEF PoolForms, NewPoolApproveRequest
<1>42. \E f \in PoolForms : TypedFits(f, NewWithdrawRequest)
  BY DEF PoolForms, NewWithdrawRequest
<1>43. \E f \in YieldForms : TypedFits(f, NewCheckYieldAllowanceRequest)
  BY DEF YieldForms, NewCheckYieldAllowanceRequest
<1>44. \E f \in YieldForms : TypedFits(f, NewApproveYieldRequest)
  BY DEF YieldForms, NewApproveYieldRequest
<1>45. \E f \in YieldForms : TypedFits(f, NewDepositYieldRequest)
  BY DEF YieldForms, NewDepositYieldRequest
<1>46. \E f \in YieldForms : TypedFits(f, NewWithdrawYieldRequest)
  BY DEF YieldForms, NewWithdrawYieldRequest
<1>47. \E f \in YieldForms : TypedFits(f, NewGetYieldAllowanceRequest)
  BY DEF YieldForms, NewGetYieldAllowanceRequest
<1>48. \E f \in YieldForms : TypedFits(f, NewGetYieldTokenBalanceRequest)
  BY DEF YieldForms, NewGetYieldTokenBalanceRequest
<1>49. \E f \in YieldForms : TypedFits(f, NewGetYieldAmountToBeDepositedRequest)
  BY DEF YieldForms, NewGetYieldAmountToBeDepositedRequest
<1>50. \E f \in YieldForms : TypedFits(f, NewGetYieldTokensRequest)
  BY DEF YieldForms, NewGetYieldTokensRequest
<1>51. \E f \in YieldForms : TypedFits(f, NewGetYieldAmountToBeWithdrawnRequest)
  BY DEF YieldForms, NewGetYieldAmountToBeWithdrawnRequest
<1>52. \E f \in UtilsForms : TypedFits(f, NewSolanaAddMemoRequest)
  BY DEF UtilsForms, NewSolanaAddMemoRequest
<1>53. \E f \in UtilsForms : TypedFits(f, NewSponsorWrapRawTxRequest)
  BY DEF UtilsForms, NewSponsorWrapRawTxRequest
<1>54. \E f \in UtilsForms : TypedFits(f, NewConfirmSorobanTxRequest)
  BY DEF UtilsForms, NewConfirmSorobanTxRequest
<1>55. \E f \in UtilsForms : TypedFits(f, NewSendTransactionSorobanRequest)
  BY DEF UtilsForms, NewSendTransactionSorobanRequest
<1>56. \E f \in UtilsForms : TypedFits(f, NewSubmitTransactionStellarRequest)
  BY DEF UtilsForms, NewSubmitTransactionStellarRequest
<1>57. \E f \in UtilsForms : TypedFits(f, NewSuiBuildSendTxFromCustomTxRequest)
  BY DEF UtilsForms, NewSuiBuildSendTxFromCustomTxRequest
<1>58. \E f \in UtilsForms : TypedFits(f, NewSuiRaw2Base64Request)
  BY DEF UtilsForms, NewSuiRaw2Base64Request
<1>59. \E f \in UtilsForms : TypedFits(f, NewTronRaw2HexRequest)
  BY DEF UtilsForms, NewTronRaw2HexRequest
<1> HIDE DEF TypedFits, Query
<1> QED
  BY <1>1, <1>2, <1>3, <1>4, <1>5, <1>6, <1>7, <1>8, <1>9, <1>10, <1>11, <1>12, <1>13,
     <1>14, <1>15, <1>16, <1>17, <1>18, <1>19, <1>20, <1>21, <1>22, <1>23, <1>24,
     <1>25, <1>26, <1>27, <1>28, <1>29, <1>30, <1>31, <1>32, <1>33, <1>34, <1>35,
     <1>36, <1>37, <1>38, <1>39, <1>40, <1>41, <1>42, <1>43, <1>44, <1>45, <1>46,
     <1>47, <1>48, <1>49, <1>50, <1>51, <1>52, <1>53, <1>54, <1>55, <1>56, <1>57,
     <1>58, <1>59
     DEF Builders, AllForms

(* The requests of the commands that fit. *)
CoreQuoteQuery == Query("/bridge/quote", Pair \cup {"amount"}, {})

TxBridgeQuery == [RawBridgeQuery EXCEPT !.optional = @ \cup {"outputFormat"}]

TxSwapQuery == Query("/raw/swap", Pair \cup {"amount", "sender", "recipient"}, {})

ApproveQuery ==
  Query("/raw/bridge/approve", Owned, {"amount", "messenger", "feePaymentMethod"})

StatusQuery == Query("/transfer/status", {"chain", "txId"}, {})

FittingQueries ==
  {FetchChains, FetchTokens, FetchTokenBalance, FetchNative, FetchGasBalance, CoreQuoteQuery,
   RawBridgeQuery, TxBridgeQuery, TxSwapQuery, AllowanceQuery, ApproveQuery, StatusQuery}

LEMMA CommandRequestsFit ==
  \A q \in FittingQueries : \E f \in AllForms : CommandFits(f, q)
<1> USE RoutesHaveForms DEF CommandFits, Query, Owned, Pair, SolanaFee
<1>1. \E f \in TokensForms : CommandFits(f, FetchChains)
  BY DEF TokensForms, FetchChains
<1>2. \E f \in TokensForms : CommandFits(f, FetchTokens)
  BY DEF TokensForms, FetchTokens
<1>3. \E f \in TokensForms : CommandFits(f, FetchTokenBalance)
  BY DEF TokensForms, FetchTokenBalance
<1>4. \E f \in TokensForms : CommandFits(f, FetchNative)
  BY DEF TokensForms, FetchNative
<1>5. \E f \in TokensForms : CommandFits(f, FetchGasBalance)
  BY DEF TokensForms, FetchGasBalance
<1>6. \E f \in TransfersForms : CommandFits(f, CoreQuoteQuery)
  BY DEF TransfersForms, CoreQuoteQuery
<1>7. \E f \in TransfersForms : CommandFits(f, RawBridgeQuery)
  <2>1. PICK f \in TransfersForms :
          /\ f.path = "/raw/bridge"
          /\ f.must = Pair \cup {"amount", "sender", "recipient"}
                        \cup {"messenger", "feePaymentMethod"}
          /\ {"fee", "extraGas"} \subseteq f.may
    BY DEF TransfersForms
  <2> QED BY <2>1 DEF RawBridgeQuery
<1>8. \E f \in TransfersForms : CommandFits(f, TxBridgeQuery)
  BY DEF TransfersForms, TxBridgeQuery, RawBridgeQuery
<1>9. \E f \in TransfersForms : CommandFits(f, TxSwapQuery)
  BY DEF TransfersForms, TxSwapQuery
<1>10. \E f \in TransfersForms : CommandFits(f, AllowanceQuery)
  BY DEF TransfersForms, AllowanceQuery
<1>11. \E f \in TransfersForms : CommandFits(f, ApproveQuery)
  <2>1. PICK f \in TransfersForms :
          /\ f.path = "/raw/bridge/approve" /\ f.must = Owned
          /\ {"feePaymentMethod", "amount", "messenger"} \subseteq f.may
    BY DEF TransfersForms
  <2> QED BY <2>1 DEF ApproveQuery
<1>12. \E f \in TransfersForms : CommandFits(f, StatusQuery)
  <2>1. PICK f \in TransfersForms :
          f.path = "/transfer/status" /\ f.must = {"chain", "txId"}
    BY DEF TransfersForms
  <2> QED BY <2>1 DEF StatusQuery
<1> HIDE DEF CommandFits, Query, TransfersForms, TokensForms
<1> QED
  BY <1>1, <1>2, <1>3, <1>4, <1>5, <1>6, <1>7, <1>8, <1>9, <1>10, <1>11, <1>12
     DEF FittingQueries, AllForms

(* The steps of the commands that fit. *)
FittingSteps ==
  {User, Wallet, Chain}
    \cup {Get(q) : q \in FittingQueries} \cup {Try(q) : q \in FittingQueries}

LEMMA CommandsAreSteps ==
  ASSUME NEW c \in Fitting
  PROVE  c \in Seq(FittingSteps) /\ c # <<>>
<1>1. /\ User \in FittingSteps /\ Wallet \in FittingSteps /\ Chain \in FittingSteps
      /\ \A q \in FittingQueries : Get(q) \in FittingSteps /\ Try(q) \in FittingSteps
  BY DEF FittingSteps
<1>2. \A q \in {FetchChains, FetchTokens, FetchTokenBalance, FetchNative, FetchGasBalance,
                CoreQuoteQuery, RawBridgeQuery, TxBridgeQuery, TxSwapQuery, AllowanceQuery,
                ApproveQuery, StatusQuery} :
        Get(q) \in FittingSteps /\ Try(q) \in FittingSteps
  BY <1>1 DEF FittingQueries
<1>3. /\ Resolve \in Seq(FittingSteps) /\ Tokens \in Seq(FittingSteps)
      /\ AddressRef \in Seq(FittingSteps)
      /\ Len(Resolve) = 1
  BY <1>1 DEF Resolve, Tokens, AddressRef
<1>4. \A s, t \in Seq(FittingSteps) : s \o t \in Seq(FittingSteps)
  OBVIOUS
<1>5. \A t \in Seq(FittingSteps) : Resolve \o t # <<>>
  <2> TAKE t \in Seq(FittingSteps)
  <2>1. Len(Resolve \o t) = 1 + Len(t) /\ Len(t) \in Nat
    BY DEF Resolve
  <2> QED BY <2>1
<1> HIDE DEF FittingSteps
<1> USE <1>1, <1>2, <1>3, <1>4, <1>5
<1>6. ChainsList \in Seq(FittingSteps) /\ ChainsList # <<>>
  BY DEF ChainsList
<1>7. ChainsShow \in Seq(FittingSteps) /\ ChainsShow # <<>>
  BY DEF ChainsShow
<1>8. TokensList \in Seq(FittingSteps) /\ TokensList # <<>>
  BY DEF TokensList
<1>9. TokensShow \in Seq(FittingSteps) /\ TokensShow # <<>>
  BY DEF TokensShow
<1>10. Balance \in Seq(FittingSteps) /\ Balance # <<>>
  BY DEF Balance
<1>11. BridgeRoutes \in Seq(FittingSteps) /\ BridgeRoutes # <<>>
  BY DEF BridgeRoutes
<1>12. CoreQuote \in Seq(FittingSteps) /\ CoreQuote # <<>>
  BY DEF CoreQuote, CoreQuoteQuery
<1>13. TxBuildBridge \in Seq(FittingSteps) /\ TxBuildBridge # <<>>
  BY DEF TxBuildBridge, TxBridgeQuery
<1>14. TxBuildSwap \in Seq(FittingSteps) /\ TxBuildSwap # <<>>
  BY DEF TxBuildSwap, TxSwapQuery
<1>15. BridgeSend \in Seq(FittingSteps) /\ BridgeSend # <<>>
  BY DEF BridgeSend, SendPreflight, SendApprove, TxBridgeQuery, ApproveQuery
<1>16. TransfersStatus \in Seq(FittingSteps) /\ TransfersStatus # <<>>
  BY DEF TransfersStatus, StatusQuery
<1>17. TuiQuote \in Seq(FittingSteps) /\ TuiQuote # <<>>
  BY DEF TuiQuote, CoreQuoteQuery
<1>18. BridgePlan(TRUE) \in Seq(FittingSteps) /\ BridgePlan(TRUE) # <<>>
  BY DEF BridgePlan, CoreQuoteQuery
<1>19. BridgePlan(FALSE) \in Seq(FittingSteps) /\ BridgePlan(FALSE) # <<>>
  BY DEF BridgePlan, CoreQuoteQuery
<1> QED
  BY <1>6, <1>7, <1>8, <1>9, <1>10, <1>11, <1>12, <1>13, <1>14, <1>15, <1>16, <1>17,
     <1>18, <1>19
     DEF Fitting

-----------------------------------------------------------------------------
(* What is left of a command is steps that fit, and something while it     *)
(* runs.                                                                   *)
StepsInv ==
  /\ client = "command" => blank = {}
  /\ client = "command" /\ exit = -1 => steps \in Seq(FittingSteps) /\ steps # <<>>

LEMMA FormFits ==
  ASSUME NEW f \in AllForms
  PROVE  FormOf(f.path).must = f.must /\ FormOf(f.path).may = f.may
<1>1. FormOf(f.path) \in AllForms /\ FormOf(f.path).path = f.path
  BY DEF FormOf
<1> QED BY <1>1, OneForm

LEMMA ContractStep ==
  ASSUME WithMisfits = FALSE, StepsInv, RequestsFit, [ContractNext]_contractVars
  PROVE  StepsInv' /\ RequestsFit'
<1>1. CASE SendTyped
  <2>0. PICK q \in Builders : \E left \in SUBSET q.always, set \in {{}, q.optional} :
          /\ client' = "typed" /\ blank' = left /\ filled' = (q.always \ left) \cup set
          /\ Reply(q.path, filled')
    BY <1>1 DEF SendTyped
  <2>1. PICK left \in SUBSET q.always, set \in {{}, q.optional} :
          /\ client' = "typed" /\ blank' = left /\ filled' = (q.always \ left) \cup set
          /\ Reply(q.path, filled')
    BY <2>0
  <2>2. PICK f \in AllForms : TypedFits(f, q)
    BY TypedRequestsFit
  <2>3. /\ FormOf(q.path).must = q.always /\ q.optional \subseteq FormOf(q.path).may
        /\ q.optional \cap q.always = {}
    BY <2>2, FormFits DEF TypedFits
  <2>4. reply' = [path |-> q.path,
                  is |-> IF q.always \subseteq filled' THEN "accepted" ELSE "refused"]
    BY <2>1, <2>3 DEF Reply, Refused
  <2>5. (q.always \subseteq filled') <=> left = {}
    BY <2>1, <2>3
  <2>6. Carried' \subseteq FormOf(q.path).must \cup FormOf(q.path).may
    BY <2>1, <2>3 DEF Carried
  <2> QED BY <2>1, <2>4, <2>5, <2>6 DEF StepsInv, RequestsFit
<1>2. CASE RunCommand
  <2>1. PICK c \in Fitting : steps' = c
    BY <1>2 DEF RunCommand, Commands
  <2> QED BY <1>2, <2>1, CommandsAreSteps DEF RunCommand, StepsInv, RequestsFit
<1>3. ASSUME client = "command", exit = -1, Pass, UNCHANGED <<client, blank>>
      PROVE  StepsInv'
  <2>1. steps \in Seq(FittingSteps) /\ steps # <<>>
    BY <1>3 DEF StepsInv
  <2>2. /\ Tail(steps) \in Seq(FittingSteps)
        /\ Len(Tail(steps)) = Len(steps) - 1 /\ Len(steps) \in Nat
    BY <2>1
  <2>3. Len(steps) # 1 => Tail(steps) # <<>>
    <3>1. Len(steps) # 0
      BY <2>1
    <3>2. Len(steps) # 1 => Len(Tail(steps)) # 0
      BY <2>2, <3>1
    <3> QED BY <3>2
  <2> QED BY <1>3, <2>2, <2>3 DEF Pass, StepsInv
<1>4. ASSUME client = "command", exit = -1, Head(steps).is # "try", Fail,
             UNCHANGED <<client, blank>>
      PROVE  StepsInv'
  <2>1. exit' # -1
    <3>1. Head(steps) \in FittingSteps
      BY <1>4 DEF StepsInv
    <3>2. Head(steps).is \in {"user", "wallet", "chain", "get"}
      BY <1>4, <3>1 DEF FittingSteps, User, Wallet, Chain, Get, Try
    <3>3. ExitCode(Head(steps)) \in 1..4
      BY <3>2 DEF ExitCode
    <3> QED BY <1>4, <3>3 DEF Fail
  <2> QED BY <1>4, <2>1 DEF StepsInv
<1>5. CASE Step
  <2>1. StepsInv'
    BY <1>5, <1>3, <1>4 DEF Step
  <2> QED BY <2>1, <1>5 DEF Step, RequestsFit
<1>6. CASE Request
  <2>1. StepsInv'
    BY <1>6, <1>3, <1>4 DEF Request, Get, Try
  <2>2. PICK q \in FittingQueries : Head(steps) \in {Get(q), Try(q)}
    <3>1. Head(steps) \in FittingSteps
      BY <1>6 DEF StepsInv, Request
    <3> QED BY <1>6, <3>1 DEF FittingSteps, User, Wallet, Chain, Get, Try, Request
  <2>3. PICK set \in {{}, q.optional} :
          filled' = q.always \cup set /\ Reply(q.path, filled')
    BY <1>6, <2>2 DEF Request, Get, Try
  <2>4. PICK f \in AllForms : CommandFits(f, q)
    BY CommandRequestsFit
  <2>5. /\ FormOf(q.path).must \subseteq q.always
        /\ q.always \cup q.optional \subseteq FormOf(q.path).must \cup FormOf(q.path).may
    BY <2>4, FormFits DEF CommandFits
  <2>6. reply' = [path |-> q.path, is |-> "accepted"]
    BY <2>3, <2>5 DEF Reply, Refused
  <2>7. blank' = {}
    BY <1>6 DEF StepsInv, Request
  <2>8. Carried' \subseteq FormOf(q.path).must \cup FormOf(q.path).may
    BY <2>3, <2>5, <2>7 DEF Carried
  <2> QED BY <2>1, <2>6, <2>7, <2>8 DEF RequestsFit
<1>7. CASE UNCHANGED contractVars
  BY <1>7 DEF contractVars, StepsInv, RequestsFit, Carried
<1> QED BY <1>1, <1>2, <1>5, <1>6, <1>7 DEF ContractNext

(* Each request of the typed client and of the commands that fit           *)
(* (cli/internal/cli, cli/internal/api) carries what its handler requires  *)
(* and nothing it does not read: it is refused for a missing parameter     *)
(* only if its user left one blank.                                        *)
THEOREM RequestsAlwaysFit ==
  ASSUME WithMisfits = FALSE
  PROVE  ContractSpec => []RequestsFit
<1>1. ContractInit => StepsInv /\ RequestsFit
  BY DEF ContractInit, StepsInv, RequestsFit
<1>2. StepsInv /\ RequestsFit /\ [ContractNext]_contractVars => StepsInv' /\ RequestsFit'
  BY ContractStep
<1> QED BY <1>1, <1>2, PTL DEF ContractSpec

-----------------------------------------------------------------------------
(* `bridge send` over the Core API: the theorems of SendCoreProofs, of the *)
(* variables it has here.                                                  *)
CoreProofs == INSTANCE SendCoreProofs WITH
  family <- coreFamily, pool <- corePool, mined <- coreMined, nonce <- coreNonce,
  allowance <- coreAllowance, rivals <- coreRivals,
  pc <- corePc, run <- coreRun, opts <- coreOpts, verdict <- coreVerdict

LEMMA CoreConstants == CoreProofs!ApproveAmountsConstant
BY CliConstants DEF Core!ApproveAmountsConstant, CoreProofs!ApproveAmountsConstant

(* The two instances of SendCore are one specification. *)
LEMMA SameCore == Core!Spec <=> CoreProofs!Spec
<1> USE DEF Core!vars, Core!chainVars, Core!runVars,
      CoreProofs!vars, CoreProofs!chainVars, CoreProofs!runVars
<1>1. Core!Init <=> CoreProofs!Init
  BY DEF Core!Init, Core!ChainInit, CoreProofs!Init, CoreProofs!ChainInit
<1>2. Core!ChainStep <=> CoreProofs!ChainStep
  BY DEF Core!ChainStep, Core!Rival, Core!Mine, Core!Outcome, Core!AllowanceAfter, Core!Tx,
         Core!Ordered, Core!PendingNonce, Core!Cardinality, CoreProofs!ChainStep,
         CoreProofs!Rival, CoreProofs!Mine, CoreProofs!Outcome, CoreProofs!AllowanceAfter,
         CoreProofs!Tx, CoreProofs!Ordered, CoreProofs!PendingNonce, CoreProofs!Cardinality
<1>3. Core!RunStep <=> CoreProofs!RunStep
  BY DEF Core!RunStep, Core!Tokens, Core!Preflight, Core!RawBridge, Core!Confirm,
         Core!Unlock, Core!CheckAllowance, Core!RawApprove, Core!CastApprove,
         Core!WaitApprove, Core!Sign, Core!CastBridge, Core!Goto, Core!Return, Core!Keep,
         Core!GiveUp, Core!NoncesOfRaw, Core!Readings, Core!Submit, Core!Tx, Core!Answers,
         Core!NonceFree, Core!MinedAs, Core!Ordered, Core!PendingNonce, Core!Cardinality,
         CoreProofs!RunStep, CoreProofs!Tokens, CoreProofs!Preflight,
         CoreProofs!RawBridge, CoreProofs!Confirm, CoreProofs!Unlock,
         CoreProofs!CheckAllowance, CoreProofs!RawApprove, CoreProofs!CastApprove,
         CoreProofs!WaitApprove, CoreProofs!Sign, CoreProofs!CastBridge, CoreProofs!Goto,
         CoreProofs!Return, CoreProofs!Keep, CoreProofs!GiveUp, CoreProofs!NoncesOfRaw,
         CoreProofs!Readings, CoreProofs!Submit, CoreProofs!Tx, CoreProofs!Answers,
         CoreProofs!NonceFree, CoreProofs!MinedAs, CoreProofs!Ordered,
         CoreProofs!PendingNonce, CoreProofs!Cardinality
<1>4. [Core!Next]_(Core!vars) <=> [CoreProofs!Next]_(CoreProofs!vars)
  BY <1>2, <1>3 DEF Core!Next, Core!World, Core!Start, Core!Flags, CoreProofs!Next,
       CoreProofs!World, CoreProofs!Start, CoreProofs!Flags
<1> QED BY <1>1, <1>4, PTL DEF Core!Spec, CoreProofs!Spec

(* No transaction of a run over the Core API reaches the node before the   *)
(* user has confirmed and unlocked the key (bridge_send.go), for any       *)
(* number of runs, rivals and approval amounts.                            *)
THEOREM CoreSendsNothingUnasked == Core!Spec => []NothingSentUnasked
<1>1. CoreProofs!NothingSentUnasked => NothingSentUnasked
  BY DEF NothingSentUnasked, Core!NothingSentUnasked, Core!Sent, Core!OnChain,
         CoreProofs!NothingSentUnasked, CoreProofs!Sent, CoreProofs!OnChain
<1>2. CoreProofs!Spec => []CoreProofs!NothingSentUnasked
  BY CoreProofs!NothingIsSentUnasked, CoreConstants, ChainConstants
<1> QED BY <1>1, <1>2, SameCore, PTL

(* A transfer the preflight or the approve flow has checked fails for want *)
(* of allowance only for the reasons the property names: the check of      *)
(* another contract, a short approval, or another transaction since.       *)
THEOREM CoreLackHasACause == Core!Spec => []LackHasACause
<1>1. CoreProofs!LackHasACause => LackHasACause
  BY DEF LackHasACause, Core!LackHasACause, Core!MinedAs, Core!OnChain,
         CoreProofs!LackHasACause, CoreProofs!MinedAs, CoreProofs!OnChain
<1>2. CoreProofs!Spec => []CoreProofs!LackHasACause
  BY CoreProofs!LackAlwaysHasACause, CoreConstants, ChainConstants
<1> QED BY <1>1, <1>2, SameCore, PTL

(* A run over the Core API implements the promise of `bridge send`.        *)
THEOREM CoreKeepsItsPromise == Core!Spec => CoreKeepsPromise
<1>1. CoreProofs!Spec => CoreProofs!KeepsPromise
  BY CoreProofs!CoreKeepsThePromise, CoreConstants, ChainConstants
<1>2. /\ CoreProofs!Approval = Core!Approval
      /\ CoreProofs!Sent("bridge", coreRun) = Core!Sent("bridge", coreRun)
  BY DEF Core!Approval, Core!Sent, Core!OnChain, Core!MinedAs,
         CoreProofs!Approval, CoreProofs!Sent, CoreProofs!OnChain, CoreProofs!MinedAs
<1>3. /\ CoreProofs!Approval' = Core!Approval'
      /\ CoreProofs!Sent("bridge", coreRun)' = Core!Sent("bridge", coreRun)'
  BY DEF Core!Approval, Core!Sent, Core!OnChain, Core!MinedAs,
         CoreProofs!Approval, CoreProofs!Sent, CoreProofs!OnChain, CoreProofs!MinedAs
<1>4. CoreProofs!Promise!Init => Core!Promise!Init
  BY <1>2 DEF CoreProofs!Promise!Init, Core!Promise!Init
<1>5. [CoreProofs!Promise!Next]_(CoreProofs!Promise!vars) => [Core!Promise!Next]_(Core!Promise!vars)
  BY <1>2, <1>3
     DEF Core!Promise!vars, Core!Promise!Next, Core!Promise!Open, Core!Promise!Approve,
         Core!Promise!Settle, Core!Promise!Bridge, Core!Promise!Fail, Core!Promise!DryDone,
         Core!Promise!Begin, CoreProofs!Promise!vars, CoreProofs!Promise!Next,
         CoreProofs!Promise!Open, CoreProofs!Promise!Approve, CoreProofs!Promise!Settle,
         CoreProofs!Promise!Bridge, CoreProofs!Promise!Fail, CoreProofs!Promise!DryDone,
         CoreProofs!Promise!Begin
<1> QED
  BY <1>1, <1>4, <1>5, SameCore, PTL
     DEF CoreKeepsPromise, Core!KeepsPromise, CoreProofs!KeepsPromise,
         Core!Promise!Spec, CoreProofs!Promise!Spec

-----------------------------------------------------------------------------
(* All the commands together                                               *)

(* What runs is one command, and the steps of the others are stutters:     *)
(* each command is the command its module specifies.                       *)
LEMMA CommandsAreParts ==
  CliSpec => Spec /\ Core!Spec /\ ConfigSpec /\ ContractSpec /\ PipeSpec
<1> USE DEF CliNext, SendNextRuns, SendCoreRuns, WatchRuns, QuoteRuns, ConfigRuns,
      RestRuns, PipeRuns, cliVars
<1>1. CliInit => Init /\ Core!Init /\ ConfigInit /\ ContractInit /\ PipeInit
  BY DEF CliInit
<1>2. [CliNext]_cliVars => [Next]_vars
  OBVIOUS
<1>3. [CliNext]_cliVars => [Core!Next]_(Core!vars)
  BY DEF corePart, Core!vars, Core!chainVars, Core!runVars
<1>4. [CliNext]_cliVars => [ConfigNext]_configVars
  OBVIOUS
<1>5. [CliNext]_cliVars => [ContractNext]_contractVars
  OBVIOUS
<1>6. [CliNext]_cliVars => [PipeNext]_pipeVars
  OBVIOUS
<1> QED
  BY <1>1, <1>2, <1>3, <1>4, <1>5, <1>6, PTL
     DEF CliSpec, Spec, Core!Spec, ConfigSpec, ContractSpec, PipeSpec

(* A watch and a comparison that rest satisfy their invariants too.        *)
LEMMA RestingPartsKeepInvariants == CliSpec => [](EndInv /\ QuoteInv /\ AskedInv)
<1>1. CliInit => EndInv
  BY DEF CliInit, Watching!Init, WatchRests, EndInv
<1>2. CliInit => QuoteInv
  <2>1. QuoteRests => QuoteInv
    <3> SUFFICES ASSUME QuoteRests PROVE QuoteInv
      OBVIOUS
    <3>1. [err |-> TRUE, fees |-> {}] \in QuoteResults
      BY DEF QuoteResults
    <3>2. QuoteTypes
      BY <3>1 DEF QuoteRests, QuoteTypes, SidePcs, Quoting!Sides
    <3> QED BY <3>2 DEF QuoteRests, QuoteInv, Received, Quoting!Ended, Quoting!Sides
  <2> QED BY <2>1, QuoteStarts DEF CliInit
<1>3. CliInit => AskedInv
  <2>1. QuoteRests => AskedInv
    BY DEF QuoteRests, AskedInv, Digits
  <2> QED BY <2>1, AskedStarts DEF CliInit
<1> USE DEF CliNext, SendNextRuns, SendCoreRuns, WatchRuns, QuoteRuns, ConfigRuns,
      RestRuns, PipeRuns, cliVars
<1>4. [CliNext]_cliVars => [Watching!Next]_(Watching!vars)
  BY DEF watchPart, Watching!vars
<1>5. [CliNext]_cliVars => [Quoting!BothQuoteNext]_(Quoting!quoteVars)
  BY DEF quotePart, Quoting!quoteVars
<1> QED
  BY <1>1, <1>2, <1>3, <1>4, <1>5, WatchStep, QuoteStep, AskedStep, PTL DEF CliSpec

(* The commands of the CLI, run one at a time, keep every promise of their *)
(* modules, if one process at a time writes the configuration and the      *)
(* commands that leave parameters out are not run.                         *)
THEOREM CommandsKeepTheirWord ==
  ASSUME OneSetter, WithMisfits = FALSE
  PROVE  CliSpec =>
           /\ [](/\ ApprovalMinedFirst /\ FailedBeforeBroadcastSentNothing
                 /\ AtMostOneBridge /\ NonceRefusalNeedsRival /\ EventsTellTheRun)
           /\ [](NothingSentUnasked /\ LackHasACause)
           /\ [](WatchSeesTheEnd /\ EitherSideMayFail /\ TypedIsAsked)
           /\ [](SettingsKept /\ OneSnapshot /\ RequestsFit /\ PipelineHonest)
           /\ KeepsPromise /\ CoreKeepsPromise
<1>1. Spec =>
        /\ [](/\ ApprovalMinedFirst /\ FailedBeforeBroadcastSentNothing
              /\ AtMostOneBridge /\ NonceRefusalNeedsRival /\ EventsTellTheRun)
        /\ KeepsPromise
  BY ApprovalComesFirst, FailureSentNothing, OneBridge, RefusalNeedsRival, EventsAreTrue,
     KeepsThePromise, PTL
<1>2. Core!Spec => [](NothingSentUnasked /\ LackHasACause) /\ CoreKeepsPromise
  BY CoreSendsNothingUnasked, CoreLackHasACause, CoreKeepsItsPromise, PTL
<1>3. CliSpec => [](WatchSeesTheEnd /\ EitherSideMayFail /\ TypedIsAsked)
  BY RestingPartsKeepInvariants, EndIsSeen, EitherSideIsShown, AskedIsTyped, PTL
<1>4. ConfigSpec => []SettingsKept
  BY OneSetter, SettingsKeptAlways
<1>5. ContractSpec => []RequestsFit
  BY RequestsAlwaysFit
<1> QED
  BY <1>1, <1>2, <1>3, <1>4, <1>5, CommandsAreParts, OneSnapshotAlways,
     PipelineStaysHonest, PTL
=============================================================================
