------------------------------- MODULE Startup -------------------------------
(* From the command line to a listening server: main up to Server::new         *)
(* (src/main.rs), the configuration file (crates/statik_server/src/config.rs), *)
(* and the two listeners (server.rs).  Several processes may be started in one *)
(* directory, die anywhere and be started again; an operator writes the files  *)
(* while nobody is creating one.  Hosts are bindable; log levels only filter.  *)
EXTENDS Integers, FiniteSets

CONSTANTS
  Process,        \* server processes
  Contents,       \* what an operator leaves in a file
  OtherPrograms,  \* ports that other programs may hold
  MaxStarts,      \* how often processes are started
  MaxEdits        \* how often the operator writes a file

(* The keys of [general], [mc] and [api] that matter here.                     *)
Keys == {"host", "log_level", "mc_port", "mc_version", "api_port"}
GeneralKeys == {"host", "log_level"}
Listeners == {"mc_port", "api_port"}

(* Ports and versions by their names; a value of the wrong type has none.      *)
IllTyped == "?"
NoPort == {"70000"}       \* beyond 16 bits
Supported == {"1.20.1", "763", "1.21.1", "767"}

(* A file: absent, not readable at all, readable but not UTF-8, or the keys it *)
(* sets.  A text that is no TOML sets an ill-typed value.                      *)
File(kind, keys) == [kind |-> kind, keys |-> keys]
Absent == File("absent", << >>)
Denied == File("denied", << >>)
NotUtf8 == File("not utf8", << >>)
Text(keys) == File("text", keys)
Empty == Text(<< >>)

ASSUME StartupAssumption ==
  /\ IsFiniteSet(Process)
  /\ \A c \in Contents : c.kind \in {"absent", "denied", "not utf8", "text"}
                         /\ DOMAIN c.keys \subseteq Keys
  /\ MaxStarts \in Nat /\ MaxEdits \in Nat

(* ServerConfig::default                                                       *)
Default ==
  [host |-> "0.0.0.0", log_level |-> "debug", mc_port |-> "25565",
   mc_version |-> "1.20.1", api_port |-> "8080"]

(* Variant: the file that is created shows another port than the default.      *)
TemplateOff == Text([Default EXCEPT !.api_port = "8081"])

(* What is written where no file could be read: every key.                     *)
Template == Text(Default)

(* Variant: a section may not be left out.                                     *)
RejectedUnlessWhole(keys) == DOMAIN keys # Keys \/ \E key \in DOMAIN keys : keys[key] = IllTyped

(* toml::from_str: [general] alone has no serde(default), so it is complete or *)
(* left out; mc_port is a u16, api_port is not.                                *)
Rejected(keys) ==
  \/ GeneralKeys \cap DOMAIN keys \notin {{}, GeneralKeys}
  \/ \E key \in DOMAIN keys : keys[key] = IllTyped
  \/ "mc_port" \in DOMAIN keys /\ keys["mc_port"] \in NoPort

(* Variant: nothing is filled in.                                              *)
KeysOnly(keys) == IF Rejected(keys) THEN Default ELSE keys

(* serde(default): what a text leaves out is as in Default.                    *)
from_str(keys) ==
  IF Rejected(keys) THEN Default
  ELSE [key \in Keys |-> IF key \in DOMAIN keys THEN keys[key] ELSE Default[key]]

(* --config; without it, the first.  The first two name the same file.         *)
Paths == {"statik.toml", "./statik.toml", "other.toml"}
FileAt(path) == IF path = "other.toml" THEN path ELSE "statik.toml"

VARIABLES
  files,          \* content of each file
  writable,       \* a file can be created in the directory
  taken,          \* ports held by other programs
  pc,             \* where each process is
  path,           \* its config_path
  config,         \* its ServerConfig
  told,           \* the message it printed about its file
  bound,          \* the listeners it has bound
  epoch,          \* operator's edits when it read its file
  starts,
  edits

shell == <<files, writable, taken, starts, edits>>
vars == <<files, writable, taken, pc, path, config, told, bound, epoch, starts, edits>>

Live(p) == pc[p] \notin {"off", "failed"}
Creating == {"create", "fill"}

Holds(p) == {config[p][listener] : listener \in bound[p]}
InUse == taken \union UNION {Holds(p) : p \in Process}
------------------------------------------------------------------------------
Init ==
  /\ files \in [{"statik.toml", "other.toml"} -> {Absent}]
  /\ writable \in BOOLEAN
  /\ taken \in SUBSET OtherPrograms
  /\ pc = [p \in Process |-> "off"]
  /\ path = [p \in Process |-> "statik.toml"]
  /\ config = [p \in Process |-> Default]
  /\ told = [p \in Process |-> "nothing"]
  /\ bound = [p \in Process |-> {}]
  /\ epoch = [p \in Process |-> 0]
  /\ starts = 0
  /\ edits = 0

(* Cli::parse                                                                  *)
Launch(p) ==
  /\ ~Live(p)
  /\ starts < MaxStarts
  /\ starts' = starts + 1
  /\ pc' = [pc EXCEPT ![p] = "read"]
  /\ path' \in {[path EXCEPT ![p] = name] : name \in Paths}
  /\ told' = [told EXCEPT ![p] = "nothing"]
  /\ config' = [config EXCEPT ![p] = Default]
  /\ UNCHANGED <<files, writable, taken, bound, epoch, edits>>

Says(p, message) == told' = [told EXCEPT ![p] = message]
Goes(p, place) == pc' = [pc EXCEPT ![p] = place]

(* read_to_string succeeds.                                                    *)
ReadText(p) ==
  LET file == files[FileAt(path[p])] IN
  /\ pc[p] = "read"
  /\ file.kind = "text"
  /\ config' = [config EXCEPT ![p] = from_str(file.keys)]
  /\ Says(p, IF Rejected(file.keys) THEN "rejected" ELSE "nothing")
  /\ epoch' = [epoch EXCEPT ![p] = edits]
  /\ Goes(p, "select version")
  /\ UNCHANGED <<shell, path, bound>>

(* It fails, for whatever reason: only a path spelled like the default one is  *)
(* written to.                                                                 *)
ReadError(p) ==
  /\ pc[p] = "read"
  /\ files[FileAt(path[p])].kind # "text"
  /\ IF path[p] = "statik.toml"
     THEN Goes(p, "create") /\ UNCHANGED told
     ELSE Goes(p, "select version") /\ Says(p, "unreadable")
  /\ epoch' = [epoch EXCEPT ![p] = edits]
  /\ UNCHANGED <<shell, path, config, bound>>

CanCreate == writable /\ files["statik.toml"].kind # "denied"

(* Variant: try again until it works.                                          *)
CreateOrRetry(p) ==
  /\ pc[p] = "create"
  /\ CanCreate
  /\ files' = [files EXCEPT !["statik.toml"] = Empty]
  /\ Goes(p, "fill")
  /\ UNCHANGED <<writable, taken, path, config, told, bound, epoch, starts, edits>>

(* tokio::fs::write opens the file, which creates or empties it ...            *)
Create(p) ==
  /\ pc[p] = "create"
  /\ IF CanCreate
     THEN /\ files' = [files EXCEPT !["statik.toml"] = Empty]
          /\ Goes(p, "fill")
          /\ UNCHANGED told
     ELSE /\ Goes(p, "select version")
          /\ Says(p, "not created")
          /\ UNCHANGED files
  /\ UNCHANGED <<writable, taken, path, config, bound, epoch, starts, edits>>

(* ... and then writes it, all of it or (no space) nothing.                    *)
Fill(p) ==
  /\ pc[p] = "fill"
  /\ \/ files' = [files EXCEPT !["statik.toml"] = Template] /\ Says(p, "created")
     \/ UNCHANGED files /\ Says(p, "not created")
  /\ Goes(p, "select version")
  /\ UNCHANGED <<writable, taken, path, config, bound, epoch, starts, edits>>

(* ProtocolKind::from_str                                                      *)
SelectVersion(p) ==
  /\ pc[p] = "select version"
  /\ Goes(p, IF config[p]["mc_version"] \in Supported THEN "bind" ELSE "failing")
  /\ UNCHANGED <<shell, path, config, told, bound, epoch>>

(* Variant: both listeners are bound at once (try_join!).                      *)
PendingBoth(p) == Listeners \ bound[p]

(* Server::new binds one listener after the other.                             *)
Pending(p) == IF bound[p] = {} THEN {"mc_port"} ELSE {"api_port"}

(* TcpListener::bind(..)?                                                      *)
Bind(p) ==
  /\ pc[p] = "bind"
  /\ \E listener \in Pending(p) :
       IF config[p][listener] \notin InUse \union NoPort
       THEN /\ bound' = [bound EXCEPT ![p] = @ \union {listener}]
            /\ Goes(p, IF bound'[p] = Listeners THEN "serving" ELSE "bind")
       ELSE Goes(p, "failing") /\ UNCHANGED bound
  /\ UNCHANGED <<shell, path, config, told, epoch>>

(* The error leaves main, and what it has bound is dropped.                    *)
Fail(p) ==
  /\ pc[p] = "failing"
  /\ Goes(p, "failed")
  /\ bound' = [bound EXCEPT ![p] = {}]
  /\ UNCHANGED <<shell, path, config, told, epoch>>

(* The process ends, in order or not.                                          *)
Die(p) ==
  /\ Live(p)
  /\ Goes(p, "off")
  /\ bound' = [bound EXCEPT ![p] = {}]
  /\ UNCHANGED <<shell, path, config, told, epoch>>

(* The operator writes a file, or removes it.                                  *)
Edit(name) ==
  /\ edits < MaxEdits
  /\ \A p \in Process : pc[p] \notin Creating
  /\ files' \in {[files EXCEPT ![name] = content] : content \in Contents}
  /\ edits' = edits + 1
  /\ UNCHANGED <<writable, taken, pc, path, config, told, bound, epoch, starts>>

Step(p) ==
  ReadText(p) \/ ReadError(p) \/ Create(p) \/ Fill(p) \/ SelectVersion(p) \/ Bind(p) \/ Fail(p)

Next ==
  \/ \E p \in Process : Launch(p) \/ Step(p) \/ Die(p)
  \/ \E name \in DOMAIN files : Edit(name)

Safety == Init /\ [][Next]_vars

(* A started process runs.                                                     *)
Spec == Safety /\ \A p \in Process : WF_vars(Step(p))
------------------------------------------------------------------------------
(* Properties                                                                  *)

TypeOK ==
  /\ files \in [{"statik.toml", "other.toml"} -> Contents \union {Absent, Empty, Template}]
  /\ writable \in BOOLEAN
  /\ taken \subseteq OtherPrograms
  /\ pc \in [Process -> Creating \union
               {"off", "read", "select version", "bind", "serving", "failing", "failed"}]
  /\ path \in [Process -> Paths]
  /\ \A p \in Process : DOMAIN config[p] = Keys
  /\ told \in [Process -> {"nothing", "rejected", "unreadable", "created", "not created"}]
  /\ bound \in [Process -> SUBSET Listeners]
  /\ epoch \in [Process -> 0 .. MaxEdits]
  /\ starts \in 0 .. MaxStarts
  /\ edits \in 0 .. MaxEdits

(* As long as the operator leaves the files alone, every process that reads    *)
(* the same file runs the same configuration: the first start, which finds     *)
(* nothing, one that died while creating the file, one that found it half made *)
(* and the next that finds it complete.                                        *)
HasRead(p) == pc[p] \in {"select version", "bind", "serving", "failing"}

SameFileSameConfig ==
  \A p, q \in Process :
    /\ HasRead(p) /\ HasRead(q)
    /\ FileAt(path[p]) = FileAt(path[q])
    /\ epoch[p] = epoch[q]
    => config[p] = config[q]

(* No process tells its operator that a file is incorrectly formatted when no  *)
(* operator has written one, whatever interrupted the process that created it. *)
OwnFileAccepted == edits = 0 => \A p \in Process : told[p] # "rejected"

(* Processes started once each, with one usable configuration, do not shut     *)
(* each other out: if its ports are free, not all of them fail, although one   *)
(* that fails holds what it has bound a moment longer.                         *)
Usable(settings) ==
  /\ settings["mc_version"] \in Supported
  /\ settings["mc_port"] # settings["api_port"]
  /\ \A listener \in Listeners : settings[listener] \notin taken \union NoPort

OneWins ==
  starts = Cardinality(Process) =>
    \A p \in Process :
      ~(Usable(config[p]) /\ \A q \in Process : pc[q] = "failed" /\ config[q] = config[p])

(* Every start ends, listening or not: also where no file can be created.      *)
StartEnds ==
  \A p \in Process : pc[p] = "read" ~> pc[p] \in {"serving", "failed", "off"}
------------------------------------------------------------------------------
(* What the repository says of the program, and the program does not do        *)

(* main.rs:52: "Created statik.toml as it could not be found.": what a process *)
(* empties is no operator's file.                                              *)
OperatorsFilesKept ==
  [][\A p \in Process : Create(p) /\ files' # files =>
       files["statik.toml"] \in {Absent, Empty, Template}]_vars
==============================================================================
