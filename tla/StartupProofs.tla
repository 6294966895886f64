---------------------------- MODULE StartupProofs ----------------------------
(* Theorems about Startup for any number of processes, starts and edits and    *)
(* whatever operators write.                                                   *)
EXTENDS Startup, TLAPS, FiniteSetTheorems

Places == Creating \union
            {"off", "read", "select version", "bind", "serving", "failing", "failed"}

Messages == {"nothing", "rejected", "unreadable", "created", "not created"}

Names == {"statik.toml", "other.toml"}

(* The state has its type.  Of a configuration only the keys are known.        *)
Shells ==
  /\ files \in [Names -> Contents \union {Absent, Empty, Template}]
  /\ taken \subseteq OtherPrograms
  /\ starts \in 0 .. MaxStarts
  /\ edits \in 0 .. MaxEdits

Processes ==
  /\ pc \in [Process -> Places]
  /\ path \in [Process -> Paths]
  /\ told \in [Process -> Messages]
  /\ bound \in [Process -> SUBSET Listeners]
  /\ epoch \in [Process -> 0 .. MaxEdits]

Configs ==
  /\ config = [p \in Process |-> config[p]]
  /\ \A p \in Process : DOMAIN config[p] = Keys

LEMMA Bounds == MaxStarts \in Nat /\ MaxEdits \in Nat
BY StartupAssumption, Zenon

LEMMA CountsEdits ==
  ASSUME Shells
  PROVE  edits \in Nat
<1>1. edits \in 0 .. MaxEdits /\ MaxEdits \in Nat
  BY Bounds DEF Shells
<1>2. QED
  BY ONLY <1>1

LEMMA NextShells ==
  ASSUME Shells, [Next]_vars
  PROVE  Shells'
<1> USE DEF vars, shell
<1>1. CASE UNCHANGED <<files, taken, starts, edits>>
  BY <1>1 DEF Shells
<1>2. ASSUME NEW p \in Process, Launch(p)
      PROVE  Shells'
  <2>1. starts' = starts + 1 /\ starts < MaxStarts /\ starts \in 0 .. MaxStarts
    BY <1>2 DEF Launch, Shells
  <2>2. starts' \in 0 .. MaxStarts
    BY ONLY <2>1, Bounds
  <2>3. QED
    BY <1>2, <2>2 DEF Launch, Shells
<1>3. ASSUME NEW p \in Process, Create(p) \/ Fill(p)
      PROVE  Shells'
  BY <1>3 DEF Create, Fill, Shells, Names
<1>4. ASSUME NEW p \in Process,
             ReadText(p) \/ ReadError(p) \/ SelectVersion(p) \/ Bind(p) \/ Fail(p) \/ Die(p)
      PROVE  Shells'
  BY <1>1, <1>4 DEF ReadText, ReadError, SelectVersion, Bind, Fail, Die
<1>5. ASSUME NEW name \in DOMAIN files, Edit(name)
      PROVE  Shells'
  <2>1. edits' \in 0 .. MaxEdits
    <3>1. edits' = edits + 1 /\ edits < MaxEdits /\ edits \in 0 .. MaxEdits
      BY <1>5 DEF Edit, Shells
    <3>2. QED
      BY ONLY <3>1, Bounds
  <2>2. files' \in [Names -> Contents \union {Absent, Empty, Template}]
    BY <1>5 DEF Edit, Shells
  <2>3. QED
    BY <1>5, <2>1, <2>2 DEF Edit, Shells
<1>6. CASE UNCHANGED vars
  BY <1>1, <1>6
<1>7. QED
  BY <1>2, <1>3, <1>4, <1>5, <1>6 DEF Next, Step

LEMMA NextProcesses ==
  ASSUME Shells, Processes, [Next]_vars
  PROVE  Processes'
<1> USE DEF vars, shell, Processes, Goes, Says, Places, Messages, Creating
<1>1. ASSUME NEW p \in Process, Launch(p)
      PROVE  Processes'
  BY <1>1 DEF Launch
<1>2. ASSUME NEW p \in Process, ReadText(p) \/ ReadError(p)
      PROVE  Processes'
  <2>1. epoch' \in [Process -> 0 .. MaxEdits]
    BY <1>2 DEF ReadText, ReadError, Shells
  <2>2. CASE ReadText(p)
    BY <2>1, <2>2 DEF ReadText
  <2>3. CASE ReadError(p)
    BY <2>1, <2>3 DEF ReadError
  <2>4. QED
    BY <1>2, <2>2, <2>3
<1>3. ASSUME NEW p \in Process, Create(p)
      PROVE  Processes'
  BY <1>3 DEF Create
<1>4. ASSUME NEW p \in Process, Fill(p)
      PROVE  Processes'
  BY <1>4 DEF Fill
<1>5. ASSUME NEW p \in Process, Bind(p)
      PROVE  Processes'
  <2>1. PICK listener \in Pending(p) :
          IF config[p][listener] \notin InUse \union NoPort
          THEN /\ bound' = [bound EXCEPT ![p] = bound[p] \union {listener}]
               /\ Goes(p, IF bound'[p] = Listeners THEN "serving" ELSE "bind")
          ELSE Goes(p, "failing") /\ UNCHANGED bound
    BY <1>5 DEF Bind
  <2>2. listener \in Listeners
    BY DEF Pending, Listeners
  <2>3. bound' \in [Process -> SUBSET Listeners]
    <3>1. bound[p] \union {listener} \in SUBSET Listeners
      BY <2>2
    <3>2. bound' = bound \/ bound' = [bound EXCEPT ![p] = bound[p] \union {listener}]
      BY <2>1
    <3>3. QED
      BY ONLY <3>1, <3>2, bound \in [Process -> SUBSET Listeners]
  <2>4. pc' \in [Process -> Places]
    BY <2>1
  <2>5. QED
    BY <1>5, <2>3, <2>4 DEF Bind
<1>6. ASSUME NEW p \in Process, SelectVersion(p) \/ Fail(p) \/ Die(p)
      PROVE  Processes'
  BY <1>6 DEF SelectVersion, Fail, Die
<1>7. ASSUME NEW name \in DOMAIN files, Edit(name)
      PROVE  Processes'
  BY <1>7 DEF Edit
<1>8. CASE UNCHANGED vars
  BY <1>8
<1>9. QED
  BY <1>1, <1>2, <1>3, <1>4, <1>5, <1>6, <1>7, <1>8 DEF Next, Step

LEMMA WholeConfigs ==
  ASSUME NEW keys
  PROVE  DOMAIN Default = Keys /\ DOMAIN from_str(keys) = Keys
BY DEF Default, from_str, Keys

LEMMA NextConfigs ==
  ASSUME Configs, [Next]_vars
  PROVE  Configs'
<1> USE DEF vars, shell
<1>1. CASE config' = config
  BY <1>1 DEF Configs
<1>2. ASSUME NEW p \in Process, NEW settings, DOMAIN settings = Keys,
             config' = [config EXCEPT ![p] = settings]
      PROVE  Configs'
  BY <1>2 DEF Configs
<1>3. ASSUME NEW p \in Process, Launch(p)
      PROVE  Configs'
  BY <1>2, <1>3, WholeConfigs DEF Launch
<1>4. ASSUME NEW p \in Process, ReadText(p)
      PROVE  Configs'
  BY <1>2, <1>4, WholeConfigs DEF ReadText
<1>5. ASSUME NEW p \in Process,
             \/ ReadError(p) \/ Create(p) \/ Fill(p) \/ SelectVersion(p)
             \/ Bind(p) \/ Fail(p) \/ Die(p)
      PROVE  Configs'
  BY <1>1, <1>5 DEF ReadError, Create, Fill, SelectVersion, Bind, Fail, Die
<1>6. ASSUME NEW name \in DOMAIN files, Edit(name)
      PROVE  Configs'
  BY <1>1, <1>6 DEF Edit
<1>7. CASE UNCHANGED vars
  BY <1>1, <1>7
<1>8. QED
  BY <1>3, <1>4, <1>5, <1>6, <1>7 DEF Next, Step

LEMMA NextWritable ==
  ASSUME [Next]_vars
  PROVE  writable' = writable
BY DEF vars, shell, Next, Step, Launch, ReadText, ReadError, Create, Fill, SelectVersion,
       Bind, Fail, Die, Edit

Typed == Shells /\ Processes /\ Configs

LEMMA AlwaysTyped == Safety => []Typed
<1>1. Init => Typed
  <2> SUFFICES ASSUME Init PROVE Typed
    OBVIOUS
  <2>1. Shells
    BY Bounds DEF Init, Shells, Names
  <2>2. Processes
    BY Bounds DEF Init, Processes, Places, Messages, Paths
  <2>3. Configs
    BY WholeConfigs DEF Init, Configs
  <2>4. QED
    BY <2>1, <2>2, <2>3 DEF Typed
<1>2. Typed /\ [Next]_vars => Typed'
  BY NextShells, NextProcesses, NextConfigs DEF Typed
<1>3. QED
  BY <1>1, <1>2, PTL DEF Safety

(* The type invariant: every configuration is whole, whatever is left out.     *)
THEOREM TypeCorrect == Safety => []TypeOK
<1> DEFINE Flag == writable \in BOOLEAN
<1>1. Init => Flag
  BY DEF Init
<1>2. Flag /\ [Next]_vars => Flag'
  BY NextWritable, Zenon
<1>3. Flag /\ Typed => TypeOK
  BY Zenon DEF Typed, Shells, Processes, Configs, TypeOK, Names, Places, Messages
<1>4. QED
  BY <1>1, <1>2, <1>3, AlwaysTyped, PTL DEF Safety
------------------------------------------------------------------------------
(* Configurations                                                              *)

(* What a process that can read a file makes of it, and one that cannot.       *)
Reading(file) == IF file.kind = "text" THEN from_str(file.keys) ELSE Default

LEMMA OwnReadings ==
  /\ Reading(Absent) = Default /\ Reading(Empty) = Default /\ Reading(Template) = Default
  /\ ~Rejected(Empty.keys) /\ ~Rejected(Template.keys)
<1>1. DOMAIN << >> = {}
  OBVIOUS
<1>2. Default = [key \in Keys |-> Default[key]]
  BY DEF Default, Keys
<1>3. from_str(<< >>) = Default
  BY <1>1, <1>2 DEF from_str
<1>4. from_str(Default) = Default
  BY <1>2 DEF from_str
<1>5. ~Rejected(<< >>)
  BY <1>1 DEF Rejected
<1>6. ~Rejected(Default)
  <2>1. DOMAIN Default = Keys /\ GeneralKeys \subseteq Keys
    BY <1>2 DEF Keys, GeneralKeys
  <2>2. \A key \in Keys : Default[key] # IllTyped
    BY DEF Default, Keys, IllTyped
  <2>3. Default["mc_port"] \notin NoPort
    BY DEF Default, NoPort
  <2>4. QED
    BY <2>1, <2>2, <2>3 DEF Rejected
<1>7. QED
  BY <1>3, <1>4, <1>5, <1>6 DEF Reading, Absent, Empty, Template, Text, File

(* Processes of the current epoch run what their file says now: nothing that   *)
(* processes write changes what it says, since only a file that says nothing   *)
(* is created or filled.                                                       *)
StartsEmpty == \A p \in Process : pc[p] = "read" => config[p] = Default

FillsDefaults ==
  \A p \in Process : pc[p] \in Creating =>
    /\ path[p] = "statik.toml" /\ epoch[p] = edits /\ config[p] = Default
    /\ Reading(files["statik.toml"]) = Default

Current ==
  \A p \in Process : HasRead(p) /\ epoch[p] = edits =>
    config[p] = Reading(files[FileAt(path[p])])

InTime == \A p \in Process : epoch[p] \in 0 .. edits

Synced == StartsEmpty /\ FillsDefaults /\ Current /\ InTime /\ SameFileSameConfig

(* A step of one process that leaves alone what files say.                     *)
OthersStay(p) ==
  \A q \in Process \ {p} :
    /\ pc'[q] = pc[q] /\ path'[q] = path[q]
    /\ epoch'[q] = epoch[q] /\ config'[q] = config[q]

FilesSaySame == \A name \in Names : Reading(files'[name]) = Reading(files[name])

ReadsNow(p) ==
  /\ epoch'[p] \in 0 .. edits
  /\ pc'[p] = "read" => config'[p] = Default
  /\ pc'[p] \in Creating =>
       /\ path'[p] = "statik.toml" /\ epoch'[p] = edits /\ config'[p] = Default
       /\ Reading(files["statik.toml"]) = Default
  /\ pc'[p] \in {"select version", "bind", "serving", "failing"} =>
       epoch'[p] = edits /\ config'[p] = Reading(files[FileAt(path'[p])])

LEMMA OneReads ==
  ASSUME Typed, Synced, NEW p \in Process,
         OthersStay(p), FilesSaySame, edits' = edits, ReadsNow(p)
  PROVE  Synced'
<1> USE DEF OthersStay, FilesSaySame, ReadsNow
<1>1. StartsEmpty' /\ InTime'
  BY DEF Synced, StartsEmpty, InTime
<1>2. \A name \in {"statik.toml", "./statik.toml", "other.toml"} : FileAt(name) \in Names
  BY DEF FileAt, Names
<1>3. FillsDefaults'
  BY DEF Synced, FillsDefaults, Names
<1>4. HasRead(p)' /\ epoch'[p] = edits =>
        config'[p] = Reading(files[FileAt(path'[p])])
  BY DEF HasRead
<1>5. \A q \in Process : FileAt(path'[q]) \in Names
  BY DEF FileAt, Names
<1>6. Current'
  BY <1>4, <1>5 DEF Synced, Current, HasRead
<1>7. SameFileSameConfig'
  <2> SUFFICES ASSUME NEW a \in Process, NEW b \in Process, HasRead(a)', HasRead(b)',
                      FileAt(path[a])' = FileAt(path[b])', epoch'[a] = epoch'[b]
               PROVE  config'[a] = config'[b]
    BY DEF SameFileSameConfig, HasRead
  <2>1. CASE epoch'[a] = edits
    BY <1>6, <2>1 DEF Current, HasRead
  <2>2. CASE epoch'[a] # edits
    <3>1. \A q \in {a, b} : HasRead(q) /\ path'[q] = path[q] /\ epoch'[q] = epoch[q]
                           /\ config'[q] = config[q]
      BY <2>2 DEF HasRead
    <3>2. QED
      BY <3>1 DEF Synced, SameFileSameConfig
  <2>3. QED
    BY <2>1, <2>2
<1>8. QED
  BY <1>1, <1>3, <1>6, <1>7 DEF Synced
LEMMA NextSynced ==
  ASSUME Typed, Synced, [Next]_vars
  PROVE  Synced'
<1> USE DEF vars, shell, Goes, Says, Typed, Shells, Processes, Configs, Places, Names,
            HasRead, Creating
<1>0. edits \in Nat
  BY CountsEdits DEF Typed
<1> DEFINE ages == 0 .. edits
<1>a. edits \in ages
  BY ONLY <1>0
<1>1. CASE /\ UNCHANGED <<files, path, config, epoch, edits>>
           /\ \A q \in Process : HasRead(q)' => HasRead(q)
           /\ \A q \in Process : pc'[q] \in {"read", "create", "fill"} => pc'[q] = pc[q]
  BY <1>1 DEF Synced, StartsEmpty, FillsDefaults, Current, InTime, SameFileSameConfig
<1> HIDE DEF ages
<1>2. ASSUME NEW p \in Process, Launch(p)
      PROVE  Synced'
  <2>1. OthersStay(p)
    BY <1>2 DEF Launch, OthersStay
  <2>2. FilesSaySame
    BY <1>2 DEF Launch, FilesSaySame
  <2>3. ReadsNow(p)
    BY <1>2 DEF Launch, ReadsNow, Synced, InTime
  <2>4. edits' = edits
    BY <1>2 DEF Launch
  <2>5. QED
    BY ONLY <2>1, <2>2, <2>3, <2>4, OneReads, Typed, Synced, p \in Process
<1>3. ASSUME NEW p \in Process, ReadText(p)
      PROVE  Synced'
  <2>1. OthersStay(p)
    BY <1>3 DEF ReadText, OthersStay
  <2>2. FilesSaySame
    BY <1>3 DEF ReadText, FilesSaySame
  <2>3. ReadsNow(p)
    <3>1. /\ epoch'[p] = edits /\ pc'[p] = "select version" /\ path'[p] = path[p]
          /\ config'[p] = Reading(files[FileAt(path[p])])
      BY <1>3 DEF ReadText, Reading
    <3>2. QED
      BY ONLY <3>1, <1>a DEF ReadsNow, ages, Creating
  <2>4. edits' = edits
    BY <1>3 DEF ReadText
  <2>5. QED
    BY ONLY <2>1, <2>2, <2>3, <2>4, OneReads, Typed, Synced, p \in Process
<1>4. ASSUME NEW p \in Process, ReadError(p)
      PROVE  Synced'
  <2>1. OthersStay(p)
    BY <1>4 DEF ReadError, OthersStay
  <2>2. FilesSaySame
    BY <1>4 DEF ReadError, FilesSaySame
  <2>3. ReadsNow(p)
    <3>1. /\ epoch'[p] = edits /\ path'[p] = path[p] /\ config'[p] = config[p]
          /\ Reading(files[FileAt(path[p])]) = Default
          /\ \/ pc'[p] = "select version"
             \/ pc'[p] = "create" /\ path[p] = "statik.toml"
      BY <1>4 DEF ReadError, Reading
    <3>2. config[p] = Default
      BY <1>4 DEF ReadError, Synced, StartsEmpty
    <3>3. path[p] = "statik.toml" => FileAt(path[p]) = "statik.toml"
      BY DEF FileAt
    <3>4. QED
      BY ONLY <3>1, <3>2, <3>3, <1>a DEF ReadsNow, ages, Creating
  <2>4. edits' = edits
    BY <1>4 DEF ReadError
  <2>5. QED
    BY ONLY <2>1, <2>2, <2>3, <2>4, OneReads, Typed, Synced, p \in Process
<1>5. ASSUME NEW p \in Process, Create(p)
      PROVE  Synced'
  <2>1. OthersStay(p)
    BY <1>5 DEF Create, OthersStay
  <2>2. FilesSaySame
    BY <1>5, OwnReadings DEF Create, FilesSaySame, Synced, FillsDefaults
  <2>3. ReadsNow(p)
    BY <1>5, OwnReadings DEF Create, ReadsNow, Synced, InTime, FillsDefaults, FileAt
  <2>4. edits' = edits
    BY <1>5 DEF Create
  <2>5. QED
    BY ONLY <2>1, <2>2, <2>3, <2>4, OneReads, Typed, Synced, p \in Process
<1>6. ASSUME NEW p \in Process, Fill(p)
      PROVE  Synced'
  <2>1. OthersStay(p)
    BY <1>6 DEF Fill, OthersStay
  <2>2. FilesSaySame
    BY <1>6, OwnReadings DEF Fill, FilesSaySame, Synced, FillsDefaults
  <2>3. ReadsNow(p)
    BY <1>6, OwnReadings DEF Fill, ReadsNow, Synced, InTime, FillsDefaults, FileAt
  <2>4. edits' = edits
    BY <1>6 DEF Fill
  <2>5. QED
    BY ONLY <2>1, <2>2, <2>3, <2>4, OneReads, Typed, Synced, p \in Process
<1>7. ASSUME NEW p \in Process, SelectVersion(p)
      PROVE  Synced'
  BY <1>1, <1>7 DEF SelectVersion
<1>8. ASSUME NEW p \in Process, Bind(p)
      PROVE  Synced'
  BY <1>1, <1>8 DEF Bind
<1>9. ASSUME NEW p \in Process, Fail(p) \/ Die(p)
      PROVE  Synced'
  BY <1>1, <1>9 DEF Fail, Die
<1>10. ASSUME NEW name \in DOMAIN files, Edit(name)
       PROVE  Synced'
  <2>1. /\ UNCHANGED <<pc, path, config, epoch>> /\ edits' = edits + 1
        /\ \A p \in Process : pc[p] \notin {"create", "fill"}
    BY <1>10 DEF Edit
  <2>2. \A n \in ages : n \in 0 .. edits + 1 /\ n # edits + 1
    BY ONLY <1>0 DEF ages
  <2>3. StartsEmpty' /\ SameFileSameConfig'
    BY <2>1 DEF Synced, StartsEmpty, SameFileSameConfig
  <2>4. FillsDefaults'
    BY <2>1 DEF FillsDefaults
  <2>5. Current' /\ InTime'
    <3>1. \A p \in Process : epoch[p] \in ages
      BY DEF Synced, InTime, ages
    <3>2. \A p \in Process : epoch[p] \in 0 .. edits + 1 /\ epoch[p] # edits + 1
      BY ONLY <2>2, <3>1
    <3>3. QED
      BY <2>1, <3>2 DEF Current, InTime
  <2>6. QED
    BY <2>3, <2>4, <2>5 DEF Synced
<1>11. CASE UNCHANGED vars
  BY <1>1, <1>11
<1>12. QED
  BY <1>2, <1>3, <1>4, <1>5, <1>6, <1>7, <1>8, <1>9, <1>10, <1>11 DEF Next, Step
(* Processes that read the same file in the same state run the same            *)
(* configuration, whatever interrupted the one that created it.                *)
THEOREM SameConfig == Safety => []SameFileSameConfig
<1>1. Init => Synced
  <2> SUFFICES ASSUME Init PROVE Synced
    OBVIOUS
  <2>1. /\ \A p \in Process : pc[p] = "off" /\ epoch[p] = 0 /\ config[p] = Default
        /\ edits = 0
    BY DEF Init
  <2>2. 0 \in 0 .. 0
    OBVIOUS
  <2>3. StartsEmpty /\ FillsDefaults /\ Current /\ SameFileSameConfig
    BY <2>1 DEF StartsEmpty, FillsDefaults, Current, SameFileSameConfig, HasRead, Creating
  <2>4. InTime
    BY <2>1, <2>2, Zenon DEF InTime
  <2>5. QED
    BY <2>3, <2>4 DEF Synced
<1>2. Typed /\ Synced /\ [Next]_vars => Synced'
  BY NextSynced
<1>3. Synced => SameFileSameConfig
  BY DEF Synced
<1>4. QED
  BY <1>1, <1>2, <1>3, AlwaysTyped, PTL DEF Safety

(* Without an operator there is nothing in the files but what processes write, *)
(* and none of that is rejected.                                               *)
OwnFiles ==
  edits = 0 =>
    /\ \A name \in Names : files[name] \in {Absent, Empty, Template}
    /\ \A p \in Process : told[p] # "rejected"

LEMMA NextOwnFiles ==
  ASSUME Typed, OwnFiles, [Next]_vars
  PROVE  OwnFiles'
<1> USE DEF vars, shell, Goes, Says, Typed, Shells, Processes, Messages, Names
<1>1. CASE UNCHANGED <<edits, files, told>>
  BY <1>1 DEF OwnFiles
<1>2. ASSUME NEW p \in Process, Launch(p)
      PROVE  OwnFiles'
  BY <1>2 DEF Launch, OwnFiles
<1>3. ASSUME NEW p \in Process, ReadText(p)
      PROVE  OwnFiles'
  <2> DEFINE file == files[FileAt(path[p])]
  <2>1. FileAt(path[p]) \in Names
    BY DEF FileAt
  <2>2. edits = 0 => file \in {Absent, Empty, Template}
    BY <2>1 DEF OwnFiles
  <2>3. Absent.kind # "text"
    BY DEF Absent, File
  <2>4. edits = 0 => ~Rejected(file.keys)
    BY <1>3, <2>2, <2>3, OwnReadings DEF ReadText
  <2>5. edits = 0 => told'[p] = "nothing"
    BY <1>3, <2>4 DEF ReadText
  <2>6. UNCHANGED <<edits, files>> /\ \A q \in Process \ {p} : told'[q] = told[q]
    BY <1>3 DEF ReadText
  <2>7. QED
    BY <2>5, <2>6 DEF OwnFiles
<1>4. ASSUME NEW p \in Process, ReadError(p)
      PROVE  OwnFiles'
  BY <1>4 DEF ReadError, OwnFiles
<1>5. ASSUME NEW p \in Process, Create(p)
      PROVE  OwnFiles'
  BY <1>5 DEF Create, OwnFiles
<1>6. ASSUME NEW p \in Process, Fill(p)
      PROVE  OwnFiles'
  BY <1>6 DEF Fill, OwnFiles
<1>7. ASSUME NEW p \in Process, SelectVersion(p) \/ Bind(p) \/ Fail(p) \/ Die(p)
      PROVE  OwnFiles'
  BY <1>1, <1>7 DEF SelectVersion, Bind, Fail, Die
<1>8. ASSUME NEW name \in DOMAIN files, Edit(name)
      PROVE  OwnFiles'
  <2>1. edits' = edits + 1 /\ edits \in Nat
    BY <1>8, CountsEdits DEF Edit
  <2>2. edits' # 0
    BY ONLY <2>1
  <2>3. QED
    BY <2>2 DEF OwnFiles
<1>9. CASE UNCHANGED vars
  BY <1>1, <1>9
<1>10. QED
  BY <1>2, <1>3, <1>4, <1>5, <1>6, <1>7, <1>8, <1>9 DEF Next, Step

(* Nobody is told that a file is wrong that the server itself has written, or  *)
(* half written.                                                               *)
THEOREM OwnFilesAccepted == Safety => []OwnFileAccepted
<1>1. Init => OwnFiles
  BY DEF Init, OwnFiles, Names
<1>2. Typed /\ OwnFiles /\ [Next]_vars => OwnFiles'
  BY NextOwnFiles
<1>3. OwnFiles => OwnFileAccepted
  BY DEF OwnFiles, OwnFileAccepted
<1>4. QED
  BY <1>1, <1>2, <1>3, AlwaysTyped, PTL DEF Safety
------------------------------------------------------------------------------
(* Listeners                                                                   *)

(* A process holds nothing before it binds and nothing once it has failed; the *)
(* game's port comes first, and no port has two holders.                       *)
BindsInOrder ==
  \A p \in Process :
    /\ bound[p] \in {{}, {"mc_port"}, Listeners}
    /\ bound[p] # {} => pc[p] \in {"bind", "serving", "failing"}
    /\ pc[p] = "bind" => bound[p] # Listeners

Exclusive ==
  \A p, q \in Process : p # q =>
    \A k \in bound[p], l \in bound[q] : config[p][k] # config[q][l]

Ordered == BindsInOrder /\ Exclusive

(* What a step does to one process: its place, what it holds, what it runs.    *)
OnlyAt(p) ==
  \A q \in Process \ {p} : pc'[q] = pc[q] /\ bound'[q] = bound[q] /\ config'[q] = config[q]

LEMMA EachStep ==
  ASSUME Typed, [Next]_vars
  PROVE  \/ UNCHANGED <<pc, bound, config, starts, taken>>
         \/ \E p \in Process :
              /\ OnlyAt(p) /\ taken' = taken
              /\ \/ Launch(p) \/ Bind(p) \/ Fail(p) \/ Die(p)
                 \/ /\ bound' = bound /\ starts' = starts
                    /\ pc[p] \in {"read", "create", "fill"}
                    /\ pc'[p] \in {"create", "fill", "select version"}
                 \/ /\ UNCHANGED <<bound, starts, config>> /\ pc[p] = "select version"
                    /\ pc'[p] = "bind"
                 \/ /\ UNCHANGED <<bound, starts, config>> /\ pc[p] = "select version"
                    /\ pc'[p] = "failing" /\ ~Usable(config[p])
<1> USE DEF vars, shell, Goes, Says, OnlyAt, Typed, Shells, Processes, Configs, Places,
            Creating
<1>1. ASSUME NEW p \in Process, ReadText(p) \/ ReadError(p)
      PROVE  /\ OnlyAt(p) /\ UNCHANGED <<taken, bound, starts>>
             /\ pc[p] \in {"read", "create", "fill"}
             /\ pc'[p] \in {"create", "fill", "select version"}
  BY <1>1 DEF ReadText, ReadError
<1>2. ASSUME NEW p \in Process, Create(p) \/ Fill(p)
      PROVE  /\ OnlyAt(p) /\ UNCHANGED <<taken, bound, starts>>
             /\ pc[p] \in {"read", "create", "fill"}
             /\ pc'[p] \in {"create", "fill", "select version"}
  BY <1>2 DEF Create, Fill
<1>3. ASSUME NEW p \in Process, SelectVersion(p)
      PROVE  /\ OnlyAt(p) /\ UNCHANGED <<taken, bound, starts, config>>
             /\ pc[p] = "select version"
             /\ \/ pc'[p] = "bind"
                \/ pc'[p] = "failing" /\ ~Usable(config[p])
  BY <1>3 DEF SelectVersion, Usable
<1>4. ASSUME NEW p \in Process, Launch(p)
      PROVE  OnlyAt(p) /\ taken' = taken
  BY <1>4 DEF Launch
<1>5. ASSUME NEW p \in Process, Bind(p)
      PROVE  OnlyAt(p) /\ taken' = taken
  BY <1>5 DEF Bind
<1>6. ASSUME NEW p \in Process, Fail(p) \/ Die(p)
      PROVE  OnlyAt(p) /\ taken' = taken
  BY <1>6 DEF Fail, Die
<1>7. ASSUME NEW name \in DOMAIN files, Edit(name)
      PROVE  UNCHANGED <<pc, bound, config, starts, taken>>
  BY <1>7 DEF Edit
<1>8. CASE UNCHANGED vars
  BY <1>8
<1> HIDE DEF vars, shell, Goes, Says, OnlyAt, Typed
<1>9. QED
  BY <1>1, <1>2, <1>3, <1>4, <1>5, <1>6, <1>7, <1>8 DEF Next, Step, vars
(* How a bind succeeds, and why one fails.                                     *)
LEMMA BindSteps ==
  ASSUME Typed, NEW p \in Process, Bind(p)
  PROVE  /\ UNCHANGED <<config, starts>> /\ pc[p] = "bind"
         /\ \E listener \in Pending(p) :
              \/ /\ bound' = [bound EXCEPT ![p] = bound[p] \union {listener}]
                 /\ config[p][listener] \notin InUse
                 /\ pc'[p] = IF bound[p] \union {listener} = Listeners THEN "serving" ELSE "bind"
              \/ /\ bound' = bound /\ pc'[p] = "failing"
                 /\ config[p][listener] \in InUse \union NoPort
BY DEF Bind, shell, Goes, Typed, Processes

LEMMA Held ==
  ASSUME NEW port, NEW p \in Process
  PROVE  port \in Holds(p) <=> \E k \in bound[p] : port = config[p][k]
BY DEF Holds

LEMMA NextOrdered ==
  ASSUME Typed, Ordered, [Next]_vars
  PROVE  Ordered'
<1> USE DEF Ordered, BindsInOrder, Exclusive
<1>1. CASE UNCHANGED <<pc, bound, config>>
  BY <1>1
<1>2. ASSUME NEW p \in Process, OnlyAt(p), bound'[p] = {}, pc'[p] # "bind"
      PROVE  Ordered'
  BY <1>2 DEF OnlyAt
<1>3. ASSUME NEW p \in Process, OnlyAt(p), bound' = bound, bound[p] = {}
      PROVE  Ordered'
  BY <1>3 DEF OnlyAt, Listeners
<1>4. ASSUME NEW p \in Process, Launch(p)
      PROVE  bound' = bound /\ bound[p] = {}
  BY <1>4 DEF Launch, Live
<1>5. ASSUME NEW p \in Process, Fail(p) \/ Die(p)
      PROVE  bound'[p] = {} /\ pc'[p] # "bind"
  BY <1>5 DEF Fail, Die, Goes, Typed, Processes
<1>6. ASSUME NEW p \in Process, OnlyAt(p), Bind(p)
      PROVE  Ordered'
  <2>1. PICK listener \in Pending(p) :
          \/ /\ bound' = [bound EXCEPT ![p] = bound[p] \union {listener}]
             /\ config[p][listener] \notin InUse
             /\ pc'[p] = IF bound[p] \union {listener} = Listeners THEN "serving" ELSE "bind"
          \/ /\ bound' = bound /\ pc'[p] = "failing"
    BY <1>6, BindSteps
  <2>2. config' = config /\ pc[p] = "bind"
    BY <1>6, BindSteps
  <2>3. CASE bound' = bound /\ pc'[p] = "failing"
    BY <1>6, <2>2, <2>3 DEF OnlyAt
  <2>4. CASE /\ bound' = [bound EXCEPT ![p] = bound[p] \union {listener}]
             /\ config[p][listener] \notin InUse
             /\ pc'[p] = IF bound[p] \union {listener} = Listeners THEN "serving" ELSE "bind"
    <3>1. /\ bound'[p] = bound[p] \union {listener}
          /\ \A q \in Process \ {p} : bound'[q] = bound[q] /\ pc'[q] = pc[q]
      BY <1>6, <2>4 DEF OnlyAt, Typed, Processes
    <3>2. bound'[p] \in {{"mc_port"}, Listeners} /\ pc'[p] \in {"bind", "serving"}
      BY <2>2, <2>4, <3>1 DEF Pending, Listeners
    <3>3. pc'[p] = "bind" => bound'[p] # Listeners
      BY <2>4, <3>1
    <3>4. BindsInOrder'
      BY <3>1, <3>2, <3>3
    <3>5. \A q \in Process : \A l \in bound[q] : config[p][listener] # config[q][l]
      BY <2>4, Held DEF InUse
    <3>6. Exclusive'
      BY <2>2, <3>1, <3>5
    <3>7. QED
      BY <3>4, <3>6
  <2>5. QED
    BY <2>1, <2>3, <2>4
<1>7. ASSUME NEW p \in Process, OnlyAt(p), bound' = bound, config' = config,
             pc[p] = "select version", pc'[p] \in {"bind", "failing"}
      PROVE  Ordered'
  BY <1>3, <1>7
<1>8. ASSUME NEW p \in Process, OnlyAt(p), bound' = bound, pc[p] \in {"read", "create", "fill"}
      PROVE  Ordered'
  BY <1>3, <1>8
<1> HIDE DEF Ordered, BindsInOrder, Exclusive
<1>9. QED
  BY EachStep, <1>1, <1>2, <1>3, <1>4, <1>5, <1>6, <1>7, <1>8
(* As many starts as processes running or failed: each was started just once.  *)
Started == {p \in Process : pc[p] # "off"}

Fresh == Cardinality(Started) = starts

Counted == Cardinality(Started) <= starts

(* A process that fails over a port leaves the place to another: one that runs *)
(* something else, or one that holds its own port and has not failed.          *)
Bound(q) == pc[q] \in {"bind", "serving"} /\ bound[q] # {}

Beats(q, settings) ==
  /\ pc[q] \in {"bind", "serving", "failing", "failed"}
  /\ config[q] # settings \/ Bound(q)

Failing(p) == pc[p] \in {"failing", "failed"} /\ Usable(config[p])

Beaten == Fresh => \A p \in Process : Failing(p) => \E q \in Process : Beats(q, config[p])

LEMMA StartedFinite ==
  ASSUME Typed
  PROVE  /\ IsFiniteSet(Started) /\ Cardinality(Started) \in Nat
         /\ starts \in Nat
<1>1. IsFiniteSet(Process) /\ Started \in SUBSET Process
  BY StartupAssumption, Zenon DEF Started
<1>2. IsFiniteSet(Started)
  BY <1>1, FS_Subset
<1>3. starts \in 0 .. MaxStarts /\ MaxStarts \in Nat
  BY Bounds DEF Typed, Shells
<1>4. starts \in Nat
  BY ONLY <1>3
<1>5. QED
  BY <1>2, <1>4, FS_CardinalityType

(* A step counts as one start, or not at all; a process that dies, or is       *)
(* started again, is one fewer than the starts for good.                       *)
LEMMA NextCounted ==
  ASSUME Typed, Counted, [Next]_vars
  PROVE  /\ Counted'
         /\ Fresh' =>
              /\ Fresh
              /\ \A p \in Process : pc[p] = "failed" => pc'[p] = "failed"
              /\ \A p \in Process : pc'[p] = "off" => pc[p] = "off"
<1> USE DEF Counted, Fresh
<1>1. Cardinality(Started) \in Nat /\ starts \in Nat /\ IsFiniteSet(Started)
  BY StartedFinite
<1>2. ASSUME NEW p \in Process, OnlyAt(p), Launch(p)
      PROVE  /\ Counted' /\ (Fresh' => Fresh /\ pc[p] # "failed")
             /\ pc'[p] # "off"
  <2>1. /\ Started' = Started \union {p} /\ starts' = starts + 1
        /\ pc[p] = "off" \/ p \in Started
        /\ pc[p] = "failed" => p \in Started
        /\ pc'[p] # "off"
    BY <1>2 DEF Launch, Live, OnlyAt, Typed, Processes, Started
  <2>2. Cardinality(Started') = IF p \in Started THEN Cardinality(Started)
                                ELSE Cardinality(Started) + 1
    BY <1>1, <2>1, FS_AddElement
  <2>3. QED
    BY <1>1, <2>1, <2>2 DEF Started
<1>3. ASSUME NEW p \in Process, OnlyAt(p), Die(p)
      PROVE  Counted' /\ ~Fresh'
  <2>1. Started' = Started \ {p} /\ p \in Started /\ starts' = starts
    BY <1>3 DEF Die, Live, Goes, shell, OnlyAt, Typed, Processes, Started
  <2>2. Cardinality(Started') = Cardinality(Started) - 1
    BY <1>1, <2>1, FS_RemoveElement
  <2>3. QED
    BY <1>1, <2>1, <2>2
<1>4. ASSUME starts' = starts,
             \A q \in Process : pc'[q] # pc[q] =>
               pc[q] \notin {"off", "failed"} /\ pc'[q] # "off"
      PROVE  /\ Counted' /\ (Fresh' => Fresh)
             /\ \A q \in Process : pc[q] = "failed" => pc'[q] = "failed"
             /\ \A q \in Process : pc'[q] = "off" => pc[q] = "off"
  <2>1. Started' = Started
    BY <1>4 DEF Started
  <2>2. QED
    BY <1>4, <2>1
<1>5. ASSUME NEW p \in Process, OnlyAt(p), Bind(p)
      PROVE  starts' = starts /\ pc[p] = "bind" /\ pc'[p] \in {"bind", "serving", "failing"}
  BY <1>5, BindSteps
<1>6. ASSUME NEW p \in Process, OnlyAt(p), Fail(p)
      PROVE  starts' = starts /\ pc[p] = "failing" /\ pc'[p] = "failed"
  BY <1>6 DEF Fail, Goes, shell, Typed, Processes
<1> HIDE DEF Counted, Fresh
<1>7. CASE UNCHANGED <<pc, starts>>
  BY <1>4, <1>7
<1>8. ASSUME NEW p \in Process, OnlyAt(p), starts' = starts,
             pc[p] \notin {"off", "failed"}, pc'[p] # "off"
      PROVE  /\ Counted' /\ (Fresh' => Fresh)
             /\ \A q \in Process : pc[q] = "failed" => pc'[q] = "failed"
             /\ \A q \in Process : pc'[q] = "off" => pc[q] = "off"
  BY <1>4, <1>8 DEF OnlyAt
<1>9. ASSUME NEW p \in Process, OnlyAt(p), Launch(p)
      PROVE  /\ Counted'
             /\ Fresh' =>
                  /\ Fresh
                  /\ \A q \in Process : pc[q] = "failed" => pc'[q] = "failed"
                  /\ \A q \in Process : pc'[q] = "off" => pc[q] = "off"
  BY <1>2, <1>9 DEF OnlyAt
<1>10. QED
  BY EachStep, <1>3, <1>5, <1>6, <1>7, <1>8, <1>9
(* Whoever keeps a usable process from binding beats it, and is another.       *)
LEMMA Blocked ==
  ASSUME Typed, Ordered, Beaten, Fresh, NEW p \in Process, pc[p] = "bind",
         NEW listener \in Pending(p), config[p][listener] \in InUse \union NoPort,
         Usable(config[p])
  PROVE  \E q \in Process \ {p} : Beats(q, config[p])
<1> DEFINE port == config[p][listener]
<1>1. listener \in Listeners
  BY DEF Pending, Listeners
<1>2. port \notin taken \union NoPort
  BY <1>1 DEF Usable
<1>3. PICK r \in Process : port \in Holds(r)
  BY <1>2 DEF InUse
<1>4. PICK k \in bound[r] : port = config[r][k]
  BY <1>3, Held
<1>5. pc[r] \in {"bind", "serving", "failing"} /\ bound[r] # {}
  BY <1>4 DEF Ordered, BindsInOrder
<1>6. bound[p] \in {{}, {"mc_port"}}
  BY DEF Ordered, BindsInOrder
<1>7. r # p
  <2> SUFFICES ASSUME r = p PROVE FALSE
    OBVIOUS
  <2>1. bound[p] = {"mc_port"} /\ k = "mc_port"
    BY <1>4, <1>6
  <2>2. listener = "api_port"
    BY <2>1 DEF Pending
  <2>3. QED
    BY <1>4, <2>1, <2>2 DEF Usable
<1>8. CASE config[r] # config[p]
  BY <1>5, <1>7, <1>8 DEF Beats
<1>9. CASE config[r] = config[p]
  <2>1. "mc_port" \in bound[r]
    BY <1>5 DEF Ordered, BindsInOrder, Listeners
  <2>2. bound[p] = {}
    BY <1>6, <1>7, <1>9, <2>1 DEF Ordered, Exclusive
  <2>3. CASE pc[r] \in {"bind", "serving"}
    BY <1>5, <1>7, <2>3 DEF Beats, Bound
  <2>4. CASE pc[r] = "failing"
    <3>1. PICK q \in Process : Beats(q, config[r])
      BY <1>9, <2>4 DEF Beaten, Failing
    <3>2. q # p
      BY <1>9, <2>2, <3>1 DEF Beats, Bound
    <3>3. QED
      BY <1>9, <3>1, <3>2
  <2>5. QED
    BY <1>5, <2>3, <2>4
<1>10. QED
  BY <1>8, <1>9

LEMMA NextBeaten ==
  ASSUME Typed, Ordered, Counted, Beaten, [Next]_vars
  PROVE  Beaten'
<1> SUFFICES ASSUME Fresh', NEW a \in Process, Failing(a)'
             PROVE  \E q \in Process : Beats(q, config[a])'
  BY DEF Beaten, Failing, Beats, Bound
<1>0. taken' = taken
  BY EachStep
<1>1. /\ Fresh
      /\ \A p \in Process : pc[p] = "failed" => pc'[p] = "failed"
      /\ \A p \in Process : pc'[p] = "off" => pc[p] = "off"
  BY NextCounted
<1>2. Failing(a) => \E q \in Process : Beats(q, config[a])
  BY <1>1 DEF Beaten
<1>3. CASE UNCHANGED <<pc, bound, config>>
  BY <1>0, <1>2, <1>3 DEF Failing, Usable, Beats, Bound
<1>4. ASSUME NEW p \in Process, OnlyAt(p), NEW q \in Process \ {p}, Beats(q, config[a]),
             config'[a] = config[a]
      PROVE  Beats(q, config[a])'
  BY <1>4 DEF OnlyAt, Beats, Bound
<1>5. ASSUME NEW p \in Process, OnlyAt(p), a # p
      PROVE  Failing(a) /\ config'[a] = config[a]
  BY <1>0, <1>5 DEF OnlyAt, Failing, Usable
<1>6. ASSUME NEW p \in Process, OnlyAt(p), a # p,
             pc[p] \notin {"bind", "serving", "failing", "failed"}
      PROVE  \E q \in Process : Beats(q, config[a])'
  <2>1. PICK q \in Process : Beats(q, config[a])
    BY <1>2, <1>5, <1>6
  <2>2. q # p
    BY <1>6, <2>1 DEF Beats
  <2>3. QED
    BY <1>4, <1>5, <1>6, <2>1, <2>2
<1>7. ASSUME NEW p \in Process, OnlyAt(p), Launch(p)
      PROVE  \E q \in Process : Beats(q, config[a])'
  <2>1. pc[p] = "off" /\ pc'[p] = "read"
    BY <1>1, <1>7 DEF Launch, Live, Typed, Processes
  <2>2. a # p
    BY <2>1 DEF Failing
  <2>3. QED
    BY <1>6, <1>7, <2>1, <2>2
<1>8. ASSUME NEW p \in Process, OnlyAt(p), Bind(p)
      PROVE  \E q \in Process : Beats(q, config[a])'
  <2>1. config' = config /\ pc[p] = "bind"
    BY <1>8, BindSteps
  <2>2. PICK listener \in Pending(p) :
          \/ /\ bound' = [bound EXCEPT ![p] = bound[p] \union {listener}]
             /\ pc'[p] = IF bound[p] \union {listener} = Listeners THEN "serving" ELSE "bind"
          \/ /\ bound' = bound /\ pc'[p] = "failing"
             /\ config[p][listener] \in InUse \union NoPort
    BY <1>8, BindSteps
  <2>3. CASE pc'[p] \in {"bind", "serving"}
    <3>1. bound'[p] # {} /\ a # p
      BY <2>2, <2>3 DEF Typed, Processes, Failing
    <3>2. PICK q \in Process : Beats(q, config[a])
      BY <1>2, <1>5, <1>8, <3>1
    <3>3. CASE q = p
      BY <2>1, <2>3, <3>1, <3>3 DEF Beats, Bound
    <3>4. CASE q # p
      BY <1>4, <1>8, <2>1, <3>2, <3>4
    <3>5. QED
      BY <3>3, <3>4
  <2>4. CASE pc'[p] = "failing" /\ config[p][listener] \in InUse \union NoPort
    <3>1. Usable(config[p]) => \E q \in Process \ {p} : Beats(q, config[p])
      BY <1>1, <2>1, <2>4, Blocked
    <3>2. CASE config[a] = config[p]
      <4>1. Usable(config[p])
        BY <1>0, <2>1, <3>2 DEF Failing, Usable
      <4>2. QED
        BY <1>4, <1>8, <2>1, <3>1, <3>2, <4>1
    <3>3. CASE config[a] # config[p]
      <4>1. Beats(p, config[a])'
        BY <2>1, <2>4, <3>3 DEF Beats
      <4>2. QED
        BY <4>1
    <3>4. QED
      BY <3>2, <3>3
  <2>5. QED
    BY <2>2, <2>3, <2>4
<1>9. ASSUME NEW p \in Process, OnlyAt(p), Fail(p)
      PROVE  \E q \in Process : Beats(q, config[a])'
  <2>1. config' = config /\ pc[p] = "failing" /\ pc'[p] = "failed"
    BY <1>9 DEF Fail, Goes, Typed, Processes
  <2>2. Failing(a)
    BY <1>0, <1>5, <1>9, <2>1 DEF Failing, Usable
  <2>3. PICK q \in Process : Beats(q, config[a])
    BY <1>2, <2>2
  <2>4. CASE q = p
    BY <2>1, <2>3, <2>4 DEF Beats, Bound
  <2>5. CASE q # p
    BY <1>4, <1>9, <2>1, <2>3, <2>5
  <2>6. QED
    BY <2>4, <2>5
<1>10. ASSUME NEW p \in Process, OnlyAt(p), Die(p)
       PROVE  FALSE
  BY <1>1, <1>10 DEF Die, Live, Goes, Typed, Processes
<1>11. ASSUME NEW p \in Process, OnlyAt(p), taken' = taken, config' = config,
              pc[p] = "select version",
              pc'[p] = "bind" \/ (pc'[p] = "failing" /\ ~Usable(config[p]))
       PROVE  \E q \in Process : Beats(q, config[a])'
  <2>1. a # p
    BY <1>11 DEF Failing, Usable
  <2>2. QED
    BY <1>6, <1>11, <2>1
<1>12. ASSUME NEW p \in Process, OnlyAt(p), pc[p] \in {"read", "create", "fill"},
              pc'[p] \in {"create", "fill", "select version"}
       PROVE  \E q \in Process : Beats(q, config[a])'
  BY <1>6, <1>12 DEF Failing
<1>13. QED
  BY EachStep, <1>3, <1>7, <1>8, <1>9, <1>10, <1>11, <1>12

(* Processes started once each with one usable configuration do not shut each  *)
(* other out: whichever way their binds cross, one of them gets both ports.    *)
THEOREM SomeoneWins == Safety => []OneWins
<1> DEFINE Inv == Ordered /\ Counted /\ Beaten
<1>1. Init => Inv
  <2> SUFFICES ASSUME Init PROVE Inv
    OBVIOUS
  <2>1. \A p \in Process : pc[p] = "off" /\ bound[p] = {}
    BY DEF Init
  <2>2. Ordered /\ Beaten
    BY <2>1 DEF Ordered, BindsInOrder, Exclusive, Beaten, Failing
  <2>3. Started = {} /\ starts = 0
    BY <2>1 DEF Started, Init
  <2>4. Counted
    BY <2>3, FS_EmptySet DEF Counted
  <2>5. QED
    BY <2>2, <2>4
<1>2. Typed /\ Inv /\ [Next]_vars => Inv'
  BY NextOrdered, NextCounted, NextBeaten
<1>3. Typed /\ Inv => OneWins
  <2> SUFFICES ASSUME Inv, starts = Cardinality(Process), NEW p \in Process,
                      Usable(config[p]),
                      \A q \in Process : pc[q] = "failed" /\ config[q] = config[p]
               PROVE  FALSE
    BY DEF OneWins
  <2>1. Started = Process
    BY DEF Started
  <2>2. Fresh /\ Failing(p)
    BY <2>1 DEF Fresh, Failing
  <2>3. PICK q \in Process : Beats(q, config[p])
    BY <2>2 DEF Beaten
  <2>4. QED
    BY <2>3 DEF Beats, Bound
<1>4. QED
  BY <1>1, <1>2, <1>3, AlwaysTyped, PTL DEF Safety
=============================================================================
