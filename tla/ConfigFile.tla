------------------------------ MODULE ConfigFile ------------------------------
(***************************************************************************)
(* The configuration file (config.rs) and the commands that use it         *)
(* (bin/x0x-compute.rs, bin/x0x-computed.rs).  Every command first loads   *)
(* the configuration; print-config --write-default then writes the         *)
(* default over the file in place: std::fs::write opens it, which truncates *)
(* it, and writes the text.  Several commands run at the same time, any of *)
(* them may fail or be killed at any step, and somebody edits the file: an *)
(* editor puts a whole new file in its place, or removes it.               *)
(*                                                                         *)
(* A configuration is a model value: no branch here reads more of it than  *)
(* whether it requires a user identity.  The text is shorter than one      *)
(* write, so a file holds a whole configuration or one that does not parse *)
(* (Torn: mesh, runtime and x0x have no serde default, and x0x is written  *)
(* last, so no shorter text decodes).                                      *)
(***************************************************************************)
EXTENDS Naturals

CONSTANTS
  Processes,      \* runs of x0x-compute or x0x-computed
  Paths, NoPath,  \* paths of config files
  config_arg,     \* per process: --config, or NoPath
  config_dir,     \* the file in dirs::config_dir(), NoPath where there is none
  current_dir,    \* per process: the file below its working directory
  Configs, Default, NoConfig,
  RequireUserId,  \* the configurations with require_user_id
  user_id_bound,  \* x0x has a user key
  MaxEdits        \* how often the file is edited: a bound of the model

Commands == {"start", "check", "identity", "capability", "print-config", "write-default"}

ASSUME ConfigAssumption ==
  /\ config_arg \in [Processes -> Paths \cup {NoPath}] /\ NoPath \notin Paths
  /\ config_dir \in Paths \cup {NoPath}
  /\ current_dir \in [Processes -> Paths]
  /\ Default \in Configs \ RequireUserId /\ NoConfig \notin Configs
  /\ {"Absent", "Torn"} \cap Configs = {}
  /\ user_id_bound \in BOOLEAN
  /\ MaxEdits \in Nat

Contents == Configs \cup {"Absent", "Torn"}

VARIABLES
  file,     \* per path: what it holds
  edits,    \* how often somebody edited a file
  command,  \* per process: what it was started for
  pc,       \* per process: where main is
  config,   \* per process: the configuration it loaded
  opened,   \* per process: the file it truncated, and has not written, is at its path
  held,     \* per process: what the file held while it was being loaded,
            \* {} if exists() could not look it up
  printed   \* per process: the configuration its output shows

vars == <<file, edits, command, pc, config, opened, held, printed>>

\* "exists": the file was found; "loaded"; "truncated", "written": in
\* write_default; "serving": in ComputeDaemon::run.
TypeOK ==
  /\ file \in [Paths -> Contents]
  /\ edits \in 0 .. MaxEdits
  /\ command \in [Processes -> Commands]
  /\ pc \in [Processes -> {"start", "exists", "loaded", "truncated", "written",
                           "serving", "done", "failed"}]
  /\ config \in [Processes -> Configs \cup {NoConfig}]
  /\ opened \in [Processes -> BOOLEAN]
  /\ held \in [Processes -> SUBSET Contents]
  /\ printed \in [Processes -> Configs \cup {NoConfig}]

Init ==
  /\ file \in [Paths -> Configs \cup {"Absent"}]
  /\ edits = 0
  /\ command \in [Processes -> Commands]
  /\ pc = [p \in Processes |-> "start"]
  /\ config = [p \in Processes |-> NoConfig]
  /\ opened = [p \in Processes |-> FALSE]
  /\ held = [p \in Processes |-> {}]
  /\ printed = [p \in Processes |-> NoConfig]

(***************************************************************************)
(* Paths.                                                                  *)
(***************************************************************************)
default_path(p) == IF config_dir # NoPath THEN config_dir ELSE current_dir[p]

path(p) == IF config_arg[p] # NoPath THEN config_arg[p] ELSE default_path(p)

Goto(p, from, to) == pc[p] = from /\ pc' = [pc EXCEPT ![p] = to]

\* A path holds something new; whoever is loading it may see that.
Put(x, content) ==
  /\ file' = [file EXCEPT ![x] = content]
  /\ held' = [p \in Processes |->
                IF path(p) = x /\ pc[p] = "exists" THEN held[p] \cup {content} ELSE held[p]]

(***************************************************************************)
(* load_or_default.                                                        *)
(***************************************************************************)
FoundFile(p) ==
  /\ file[path(p)] # "Absent"
  /\ Goto(p, "start", "exists")
  /\ held' = [held EXCEPT ![p] = {file[path(p)]}]
  /\ UNCHANGED <<file, edits, command, config, opened, printed>>

\* Path::exists is false without the file, and also when it meets an error (a
\* directory the process may not search).
NoFile(p) ==
  /\ Goto(p, "start", "loaded")
  /\ config' = [config EXCEPT ![p] = Default]
  /\ \/ file[path(p)] = "Absent" /\ held' = [held EXCEPT ![p] = {"Absent"}]
     \/ held' = [held EXCEPT ![p] = {}]
  /\ UNCHANGED <<file, edits, command, opened, printed>>

\* Mutant of Read: an unreadable file gives the defaults.
ReadOrDefault(p) ==
  /\ Goto(p, "exists", "loaded")
  /\ config' = [config EXCEPT ![p] = IF file[path(p)] \in Configs THEN file[path(p)] ELSE Default]
  /\ UNCHANGED <<file, edits, command, opened, held, printed>>

Read(p) ==
  /\ file[path(p)] \in Configs
  /\ Goto(p, "exists", "loaded")
  /\ config' = [config EXCEPT ![p] = file[path(p)]]
  /\ UNCHANGED <<file, edits, command, opened, held, printed>>

\* Mutant of ReadFails: the file is read again until it parses.
ReadAgain(p) == pc[p] = "exists" /\ file[path(p)] \notin Configs /\ UNCHANGED vars

\* Io: the file is gone again.  TomlDecode: its text does not parse.
ReadFails(p) ==
  /\ file[path(p)] \notin Configs
  /\ Goto(p, "exists", "failed")
  /\ UNCHANGED <<file, edits, command, config, opened, held, printed>>

(***************************************************************************)
(* The commands.                                                           *)
(***************************************************************************)
build_agent(p) == config[p] \in RequireUserId => user_id_bound

Output(p, from) ==
  /\ Goto(p, from, "done")
  /\ printed' = [printed EXCEPT ![p] = config[p]]
  /\ UNCHANGED <<file, edits, command, config, opened, held>>

Start(p) ==
  /\ command[p] = "start" /\ build_agent(p)
  /\ Goto(p, "loaded", "serving")
  /\ UNCHANGED <<file, edits, command, config, opened, held, printed>>

Inspect(p) ==
  command[p] \in {"check", "identity", "capability"} /\ build_agent(p) /\ Output(p, "loaded")

NoUserIdentity(p) ==
  /\ command[p] \in {"start", "check", "identity", "capability"} /\ ~ build_agent(p)
  /\ Goto(p, "loaded", "failed")
  /\ UNCHANGED <<file, edits, command, config, opened, held, printed>>

\* Mutant of CreateFile: the default is written before the file is loaded.
CreateFileFirst(p) ==
  /\ command[p] = "write-default"
  /\ Goto(p, "start", "truncated")
  /\ Put(path(p), "Torn")
  /\ opened' = [opened EXCEPT ![p] = TRUE]
  /\ UNCHANGED <<edits, command, config, printed>>

\* write_default up to the open of std::fs::write, which fails where exists()
\* could not look.
CreateFile(p) ==
  /\ command[p] = "write-default" /\ held[p] # {}
  /\ Goto(p, "loaded", "truncated")
  /\ Put(path(p), "Torn")
  /\ opened' = [opened EXCEPT ![p] = TRUE]
  /\ UNCHANGED <<edits, command, config, printed>>

\* The open file gets the text, if it is still the one at this path.
WriteText(p, x) ==
  /\ Goto(p, "truncated", "written")
  /\ opened' = [opened EXCEPT ![p] = FALSE]
  /\ IF opened[p] THEN Put(x, Default) ELSE UNCHANGED <<file, held>>
  /\ UNCHANGED <<edits, command, config, printed>>

\* Mutant of WriteAll: --config is not passed on.
WriteDefaultPath(p) == WriteText(p, default_path(p))

WriteAll(p) == WriteText(p, path(p))

\* The directory cannot be made, or the file not be opened or written.
WriteFails(p) ==
  /\ command[p] = "write-default"
  /\ Goto(p, "loaded", "failed") \/ Goto(p, "truncated", "failed")
  /\ UNCHANGED <<file, edits, command, config, opened, held, printed>>

PrintConfig(p) ==
  \/ command[p] = "print-config" /\ Output(p, "loaded")
  \/ command[p] = "write-default" /\ Output(p, "written")

\* The process is killed, or fails in what it does besides.
Interrupt(p) ==
  /\ pc[p] \notin {"start", "done", "failed"}
  /\ pc' = [pc EXCEPT ![p] = "failed"]
  /\ UNCHANGED <<file, edits, command, config, opened, held, printed>>

\* Whoever has the former file open has it no longer at its path.
Edit(x, content) ==
  /\ edits < MaxEdits
  /\ edits' = edits + 1
  /\ Put(x, content)
  /\ opened' = [p \in Processes |-> opened[p] /\ path(p) # x]
  /\ UNCHANGED <<command, pc, config, printed>>

(***************************************************************************)
(* The specification.                                                      *)
(***************************************************************************)
Step(p) ==
  \/ FoundFile(p) \/ NoFile(p) \/ Read(p) \/ ReadFails(p)
  \/ Start(p) \/ Inspect(p) \/ NoUserIdentity(p)
  \/ CreateFile(p) \/ WriteAll(p) \/ WriteFails(p) \/ PrintConfig(p)

Next ==
  \/ \E p \in Processes : Step(p) \/ Interrupt(p)
  \/ \E x \in Paths, content \in Configs \cup {"Absent"} : Edit(x, content)

Spec == Init /\ [][Next]_vars

\* A process that can go on is scheduled; nobody has to kill one.
FairSpec == Spec /\ \A p \in Processes : WF_vars(Step(p))

(***************************************************************************)
(* Properties.                                                             *)
(***************************************************************************)

\* A file that does not parse is one that a write_default truncated and is
\* about to write, or was stopped before it did: no interleaving of loads,
\* writes and edits leaves a torn file behind commands that all succeeded.
TornOnlyWhileWritten ==
  \A x \in Paths : file[x] = "Torn" => \E p \in Processes : path(p) = x /\ opened[p]

\* What a command acts on is a whole configuration that its file held while it
\* was loaded; it is the default in its place only if the file was missing at
\* that time, or hidden from the process, whose exists() cannot tell.
LoadedWasOnDisk ==
  \A p \in Processes :
    config[p] # NoConfig =>
      \/ config[p] \in held[p]
      \/ config[p] = Default /\ ("Absent" \in held[p] \/ held[p] = {})

\* The inductive invariant: what is open was truncated, by a command that
\* has a configuration; who serves has the identity its configuration requires.
ConfigInv ==
  /\ TypeOK
  /\ \A p \in Processes :
       /\ opened[p] => pc[p] \in {"truncated", "failed"}
       /\ pc[p] = "exists" => file[path(p)] \in held[p]
       /\ pc[p] \in {"loaded", "truncated", "written", "serving", "done"} <=>
            config[p] # NoConfig /\ pc[p] # "failed"
       /\ pc[p] = "truncated" => command[p] = "write-default" /\ held[p] # {}
       /\ pc[p] = "serving" => build_agent(p)
  /\ TornOnlyWhileWritten
  /\ LoadedWasOnDisk

\* Nobody will write the file: every process that uses it has yet to load it,
\* or is past its write.
NoWriterLeft(x) ==
  \A p \in Processes :
    path(p) = x /\ command[p] = "write-default" /\ pc[p] \in {"loaded", "truncated"} => held[p] = {}

\* A file left torn is not mended by any command, print-config
\* --write-default included, which loads it first and fails: it stays torn
\* until somebody edits it.
TornStaysTorn ==
  [][\A x \in Paths :
       file[x] = "Torn" /\ NoWriterLeft(x) /\ edits' = edits =>
         file'[x] = "Torn" /\ NoWriterLeft(x)']_vars

\* Every command ends, or serves, whatever state others leave the file in:
\* no command waits for a file to appear or to become whole.
EveryCommandEnds ==
  \A p \in Processes : pc[p] = "start" ~> pc[p] \in {"done", "failed", "serving"}

\* "Write the default config to disk before printing it": what print-config
\* --write-default prints is the default it wrote.
PrintsWhatItWrote ==
  \A p \in Processes : command[p] = "write-default" /\ pc[p] = "done" => printed[p] = Default
===============================================================================
