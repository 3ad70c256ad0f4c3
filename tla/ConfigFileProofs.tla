--------------------------- MODULE ConfigFileProofs ---------------------------
(***************************************************************************)
(* Proofs about ConfigFile, for any processes, paths, configurations and   *)
(* edits, wherever --config and the platform put the file.                 *)
(***************************************************************************)
EXTENDS ConfigFile, TLAPS

LEMMA PathType ==
  ASSUME NEW p \in Processes
  PROVE  path(p) \in Paths
  BY ConfigAssumption DEF path, default_path

\* What is known of one process.
ProcessInv(p) ==
  /\ opened[p] => pc[p] \in {"truncated", "failed"}
  /\ pc[p] = "exists" => file[path(p)] \in held[p]
  /\ pc[p] \in {"loaded", "truncated", "written", "serving", "done"} <=>
       config[p] # NoConfig /\ pc[p] # "failed"
  /\ pc[p] = "truncated" => command[p] = "write-default" /\ held[p] # {}
  /\ pc[p] = "serving" => build_agent(p)

LoadedInv(p) ==
  config[p] # NoConfig =>
    \/ config[p] \in held[p]
    \/ config[p] = Default /\ ("Absent" \in held[p] \/ held[p] = {})

LEMMA ConfigInvParts ==
  ConfigInv <=> /\ TypeOK
                /\ \A p \in Processes : ProcessInv(p) /\ LoadedInv(p)
                /\ TornOnlyWhileWritten
  BY DEF ConfigInv, ProcessInv, LoadedInv, LoadedWasOnDisk

LEMMA ConfigInvInit == Init => ConfigInv
<1> SUFFICES ASSUME Init PROVE ConfigInv
  OBVIOUS
<1>1. TypeOK
  BY ConfigAssumption DEF Init, TypeOK, Contents
<1>2. ASSUME NEW p \in Processes PROVE ProcessInv(p) /\ LoadedInv(p)
  BY <1>2 DEF Init, ProcessInv, LoadedInv
<1>3. TornOnlyWhileWritten
  BY ConfigAssumption DEF Init, TornOnlyWhileWritten
<1> QED  BY <1>1, <1>2, <1>3, ConfigInvParts

(***************************************************************************)
(* A step of p that leaves every file alone and writes nothing.            *)
(***************************************************************************)
LEMMA QuietStep ==
  ASSUME ConfigInv, NEW p \in Processes,
         UNCHANGED <<file, edits, command, opened>>,
         pc' = [pc EXCEPT ![p] = pc'[p]],
         config' = [config EXCEPT ![p] = config'[p]],
         held' = [held EXCEPT ![p] = held'[p]],
         printed' = [printed EXCEPT ![p] = printed'[p]],
         TypeOK',
         ProcessInv(p)', LoadedInv(p)'
  PROVE  ConfigInv'
<1>1. TypeOK /\ TornOnlyWhileWritten /\ \A q \in Processes : ProcessInv(q) /\ LoadedInv(q)
  BY ConfigInvParts
<1>2. ASSUME NEW q \in Processes PROVE ProcessInv(q)' /\ LoadedInv(q)'
  <2>1. CASE q = p
    BY <2>1
  <2>2. CASE q # p
    <3>1. pc'[q] = pc[q] /\ config'[q] = config[q] /\ held'[q] = held[q] /\ opened'[q] = opened[q]
      BY <1>1, <2>2 DEF TypeOK
    <3>2. ProcessInv(q) /\ LoadedInv(q)
      BY <1>1
    <3> QED  BY <3>1, <3>2 DEF ProcessInv, LoadedInv, build_agent, path, default_path
  <2> QED  BY <2>1, <2>2
<1>3. TornOnlyWhileWritten'
  BY <1>1 DEF TornOnlyWhileWritten, path, default_path
<1> QED
  BY <1>2, <1>3 DEF ConfigInv, ProcessInv, LoadedInv, LoadedWasOnDisk

(***************************************************************************)
(* A change of a file, by p or by an editor.                               *)
(***************************************************************************)
LEMMA PutType ==
  ASSUME TypeOK, NEW x \in Paths, NEW content \in Contents, Put(x, content)
  PROVE  /\ file' \in [Paths -> Contents] /\ held' \in [Processes -> SUBSET Contents]
         /\ file'[x] = content
         /\ \A y \in Paths : y # x => file'[y] = file[y]
  BY DEF TypeOK, Put

LEMMA PutKeepsProcess ==
  ASSUME TypeOK, NEW x \in Paths, NEW content \in Contents, Put(x, content),
         NEW q \in Processes, ProcessInv(q), LoadedInv(q),
         command' = command, pc'[q] = pc[q], config'[q] = config[q], opened'[q] => opened[q]
  PROVE  ProcessInv(q)' /\ LoadedInv(q)'
<1>1. path(q) \in Paths /\ path(q)' = path(q)
  BY PathType DEF path, default_path
<1>2. held'[q] = IF path(q) = x /\ pc[q] = "exists" THEN held[q] \cup {content} ELSE held[q]
  BY DEF Put
<1>3. pc[q] = "exists" => file'[path(q)] \in held'[q]
  <2>1. CASE path(q) = x
    BY <1>2, <2>1, PutType
  <2>2. CASE path(q) # x
    BY <1>1, <1>2, <2>2, PutType DEF ProcessInv
  <2> QED  BY <2>1, <2>2
<1>4. ProcessInv(q)'
  BY <1>1, <1>2, <1>3 DEF ProcessInv, build_agent
<1>5. pc[q] = "exists" => config[q] = NoConfig
  BY DEF ProcessInv
<1>6. LoadedInv(q)'
  BY <1>2, <1>5 DEF LoadedInv
<1> QED  BY <1>4, <1>6

LEMMA CreateFilePreserves ==
  ASSUME ConfigInv, NEW p \in Processes, CreateFile(p)
  PROVE  ConfigInv'
<1>1. TypeOK /\ TornOnlyWhileWritten /\ \A q \in Processes : ProcessInv(q) /\ LoadedInv(q)
  BY ConfigInvParts
<1>2. path(p) \in Paths /\ "Torn" \in Contents /\ Put(path(p), "Torn")
  BY PathType DEF CreateFile, Contents
<1>3. /\ command[p] = "write-default" /\ held[p] # {}
      /\ pc[p] = "loaded" /\ pc' = [pc EXCEPT ![p] = "truncated"]
      /\ opened' = [opened EXCEPT ![p] = TRUE] /\ UNCHANGED <<edits, command, config, printed>>
  BY DEF CreateFile, Goto
<1>4. /\ file' \in [Paths -> Contents] /\ held' \in [Processes -> SUBSET Contents]
      /\ \A y \in Paths : y # path(p) => file'[y] = file[y]
  BY <1>1, <1>2, PutType
<1>5. TypeOK'
  BY <1>1, <1>3, <1>4 DEF TypeOK
<1>6. ASSUME NEW q \in Processes PROVE ProcessInv(q)' /\ LoadedInv(q)'
  <2>1. CASE q # p
    <3>1. command' = command /\ pc'[q] = pc[q] /\ config'[q] = config[q] /\ opened'[q] = opened[q]
      BY <1>1, <1>3, <2>1 DEF TypeOK
    <3> QED  BY <1>1, <1>2, <3>1, PutKeepsProcess
  <2>2. CASE q = p
    <3>1. pc'[p] = "truncated" /\ opened'[p] /\ config' = config /\ config[p] # NoConfig
      BY <1>1, <1>3 DEF TypeOK, ProcessInv
    <3>2. held'[p] = held[p]
      BY <1>2, <1>3 DEF Put
    <3> QED  BY <1>1, <1>3, <2>2, <3>1, <3>2 DEF ProcessInv, LoadedInv
  <2> QED  BY <2>1, <2>2
<1>7. TornOnlyWhileWritten'
  <2> SUFFICES ASSUME NEW x \in Paths, file'[x] = "Torn"
               PROVE  \E q \in Processes : path(q) = x /\ opened'[q]
    BY DEF TornOnlyWhileWritten, path, default_path
  <2>1. CASE x = path(p)
    BY <1>1, <1>3, <2>1 DEF TypeOK
  <2>2. CASE x # path(p)
    BY <1>1, <1>3, <1>4, <2>2 DEF TypeOK, TornOnlyWhileWritten
  <2> QED  BY <2>1, <2>2
<1> QED
  BY <1>5, <1>6, <1>7 DEF ConfigInv, ProcessInv, LoadedInv, LoadedWasOnDisk

LEMMA WriteAllPreserves ==
  ASSUME ConfigInv, NEW p \in Processes, WriteAll(p)
  PROVE  ConfigInv'
<1>1. TypeOK /\ TornOnlyWhileWritten /\ \A q \in Processes : ProcessInv(q) /\ LoadedInv(q)
  BY ConfigInvParts
<1>2. path(p) \in Paths /\ Default \in Configs /\ Default \in Contents /\ Default # "Torn"
  BY PathType, ConfigAssumption DEF Contents
<1>3. /\ pc[p] = "truncated" /\ pc' = [pc EXCEPT ![p] = "written"]
      /\ opened' = [opened EXCEPT ![p] = FALSE] /\ UNCHANGED <<edits, command, config, printed>>
      /\ IF opened[p] THEN Put(path(p), Default) ELSE UNCHANGED <<file, held>>
  BY DEF WriteAll, WriteText, Goto
<1>4. /\ file' \in [Paths -> Contents] /\ held' \in [Processes -> SUBSET Contents]
  <2>1. CASE opened[p]
    BY <1>1, <1>2, <1>3, <2>1, PutType
  <2>2. CASE ~ opened[p]
    BY <1>1, <1>3, <2>2 DEF TypeOK
  <2> QED  BY <2>1, <2>2
<1>5. TypeOK'
  BY <1>1, <1>3, <1>4 DEF TypeOK
<1>6. ASSUME NEW q \in Processes PROVE ProcessInv(q)' /\ LoadedInv(q)'
  <2>1. CASE q # p
    <3>1. command' = command /\ pc'[q] = pc[q] /\ config'[q] = config[q] /\ opened'[q] = opened[q]
      BY <1>1, <1>3, <2>1 DEF TypeOK
    <3>2. CASE opened[p]
      BY <1>1, <1>2, <1>3, <3>1, <3>2, PutKeepsProcess
    <3>3. CASE ~ opened[p]
      <4>1. file' = file /\ held' = held /\ command' = command /\ ProcessInv(q) /\ LoadedInv(q)
        BY <1>1, <1>3, <3>3
      <4> QED  BY <3>1, <4>1 DEF ProcessInv, LoadedInv, build_agent, path, default_path
    <3> QED  BY <3>2, <3>3
  <2>2. CASE q = p
    <3>1. pc'[p] = "written" /\ ~ opened'[p] /\ config' = config /\ config[p] # NoConfig
      BY <1>1, <1>3 DEF TypeOK, ProcessInv
    <3>2. held'[p] = held[p]
      BY <1>3 DEF Put
    <3> QED  BY <1>1, <2>2, <3>1, <3>2 DEF ProcessInv, LoadedInv
  <2> QED  BY <2>1, <2>2
<1>7. TornOnlyWhileWritten'
  <2> SUFFICES ASSUME NEW x \in Paths, file'[x] = "Torn"
               PROVE  \E q \in Processes : path(q) = x /\ opened'[q]
    BY DEF TornOnlyWhileWritten, path, default_path
  <2>1. file'[x] = file[x] /\ ~ (opened[p] /\ x = path(p))
    <3>1. CASE opened[p]
      BY <1>1, <1>2, <1>3, <3>1, PutType
    <3>2. CASE ~ opened[p]
      BY <1>3, <3>2
    <3> QED  BY <3>1, <3>2
  <2>2. PICK q \in Processes : path(q) = x /\ opened[q]
    BY <1>1, <2>1 DEF TornOnlyWhileWritten
  <2>3. q # p
    BY <2>1, <2>2
  <2> QED  BY <1>1, <1>3, <2>2, <2>3 DEF TypeOK
<1> QED
  BY <1>5, <1>6, <1>7 DEF ConfigInv, ProcessInv, LoadedInv, LoadedWasOnDisk

LEMMA EditPreserves ==
  ASSUME ConfigInv, NEW x \in Paths, NEW content \in Configs \cup {"Absent"}, Edit(x, content)
  PROVE  ConfigInv'
<1>1. TypeOK /\ TornOnlyWhileWritten /\ \A q \in Processes : ProcessInv(q) /\ LoadedInv(q)
  BY ConfigInvParts
<1>2. content \in Contents /\ content # "Torn" /\ Put(x, content)
  BY ConfigAssumption DEF Contents, Edit
<1>3. /\ edits' \in 0 .. MaxEdits
      /\ opened' = [p \in Processes |-> opened[p] /\ path(p) # x]
      /\ UNCHANGED <<command, pc, config, printed>>
  BY <1>1, ConfigAssumption DEF Edit, TypeOK
<1>4. /\ file' \in [Paths -> Contents] /\ held' \in [Processes -> SUBSET Contents]
      /\ file'[x] = content /\ \A y \in Paths : y # x => file'[y] = file[y]
  BY <1>1, <1>2, PutType
<1>5. opened' \in [Processes -> BOOLEAN]
  BY <1>3, Zenon
<1>6. TypeOK'
  BY <1>1, <1>3, <1>4, <1>5 DEF TypeOK
<1>7. ASSUME NEW q \in Processes PROVE ProcessInv(q)' /\ LoadedInv(q)'
  BY <1>1, <1>2, <1>3, PutKeepsProcess
<1>8. TornOnlyWhileWritten'
  <2> SUFFICES ASSUME NEW y \in Paths, file'[y] = "Torn"
               PROVE  \E q \in Processes : path(q) = y /\ opened'[q]
    BY DEF TornOnlyWhileWritten, path, default_path
  <2>1. y # x /\ file[y] = "Torn"
    BY <1>2, <1>4
  <2> QED  BY <1>1, <1>3, <2>1 DEF TornOnlyWhileWritten
<1> QED
  BY <1>6, <1>7, <1>8 DEF ConfigInv, ProcessInv, LoadedInv, LoadedWasOnDisk

(***************************************************************************)
(* The steps of a process that change no file.                             *)
(***************************************************************************)
LEMMA LoadPreserves ==
  ASSUME ConfigInv, NEW p \in Processes, FoundFile(p) \/ NoFile(p) \/ Read(p) \/ ReadFails(p)
  PROVE  ConfigInv'
<1>1. TypeOK /\ ProcessInv(p) /\ LoadedInv(p) /\ path(p) \in Paths
  BY ConfigInvParts, PathType
<1>2. file[path(p)] \in Contents /\ Default \in Configs /\ NoConfig \notin Configs
  BY <1>1, ConfigAssumption DEF TypeOK
<1>3. CASE FoundFile(p)
  <2>1. TypeOK'
    BY <1>1, <1>2, <1>3 DEF FoundFile, Goto, TypeOK
  <2>2. ProcessInv(p)' /\ LoadedInv(p)'
    BY <1>1, <1>3 DEF FoundFile, Goto, TypeOK, ProcessInv, LoadedInv, path, default_path
  <2> QED  BY <1>1, <1>3, <2>1, <2>2, QuietStep DEF FoundFile, Goto, TypeOK
<1>4. CASE NoFile(p)
  <2>1. TypeOK'
    BY <1>1, <1>2, <1>4 DEF NoFile, Goto, TypeOK, Contents
  <2>2. ProcessInv(p)' /\ LoadedInv(p)'
    BY <1>1, <1>2, <1>4 DEF NoFile, Goto, TypeOK, ProcessInv, LoadedInv
  <2>3. /\ pc' = [pc EXCEPT ![p] = pc'[p]] /\ config' = [config EXCEPT ![p] = config'[p]]
        /\ held' = [held EXCEPT ![p] = held'[p]] /\ printed' = [printed EXCEPT ![p] = printed'[p]]
    BY <1>1, <1>4 DEF NoFile, Goto, TypeOK
  <2> QED  BY <1>4, <2>1, <2>2, <2>3, QuietStep DEF NoFile
<1>5. CASE Read(p)
  <2>1. TypeOK'
    BY <1>1, <1>2, <1>5 DEF Read, Goto, TypeOK
  <2>2. ProcessInv(p)' /\ LoadedInv(p)'
    BY <1>1, <1>2, <1>5 DEF Read, Goto, TypeOK, ProcessInv, LoadedInv
  <2> QED  BY <1>1, <1>5, <2>1, <2>2, QuietStep DEF Read, Goto, TypeOK
<1>6. CASE ReadFails(p)
  <2>1. TypeOK'
    BY <1>1, <1>6 DEF ReadFails, Goto, TypeOK
  <2>2. ProcessInv(p)' /\ LoadedInv(p)'
    BY <1>1, <1>6 DEF ReadFails, Goto, TypeOK, ProcessInv, LoadedInv
  <2> QED  BY <1>1, <1>6, <2>1, <2>2, QuietStep DEF ReadFails, Goto, TypeOK
<1> QED  BY <1>3, <1>4, <1>5, <1>6

\* From a state with a configuration to one with it, or to failure.
LEMMA MovePreserves ==
  ASSUME ConfigInv, NEW p \in Processes, NEW to \in {"serving", "done", "failed"},
         pc' = [pc EXCEPT ![p] = to],
         to # "failed" => pc[p] \in {"loaded", "written"},
         to = "serving" => build_agent(p),
         UNCHANGED <<file, edits, command, config, opened, held>>,
         printed' = printed \/ printed' = [printed EXCEPT ![p] = config[p]]
  PROVE  ConfigInv'
<1>1. TypeOK /\ ProcessInv(p) /\ LoadedInv(p)
  BY ConfigInvParts
<1>2. TypeOK'
  BY <1>1 DEF TypeOK
<1>3. pc'[p] = to
  BY <1>1 DEF TypeOK
<1>4. ProcessInv(p)' /\ LoadedInv(p)'
  BY <1>1, <1>3 DEF ProcessInv, LoadedInv, build_agent
<1>5. /\ pc' = [pc EXCEPT ![p] = pc'[p]] /\ config' = [config EXCEPT ![p] = config'[p]]
      /\ held' = [held EXCEPT ![p] = held'[p]] /\ printed' = [printed EXCEPT ![p] = printed'[p]]
  BY <1>1 DEF TypeOK
<1> QED  BY <1>2, <1>4, <1>5, QuietStep

LEMMA ConfigInvNext == ConfigInv /\ [Next]_vars => ConfigInv'
<1> SUFFICES ASSUME ConfigInv, [Next]_vars PROVE ConfigInv'
  OBVIOUS
<1>1. ASSUME NEW p \in Processes, Start(p) \/ Inspect(p) \/ NoUserIdentity(p) \/ WriteFails(p)
                                   \/ PrintConfig(p) \/ Interrupt(p)
      PROVE  ConfigInv'
  <2>1. CASE Start(p)
    BY <2>1, MovePreserves DEF Start, Goto
  <2>2. CASE Inspect(p)
    BY <2>2, MovePreserves DEF Inspect, Output, Goto
  <2>3. CASE NoUserIdentity(p)
    BY <2>3, MovePreserves DEF NoUserIdentity, Goto
  <2>4. CASE WriteFails(p)
    BY <2>4, MovePreserves DEF WriteFails, Goto
  <2>5. CASE PrintConfig(p)
    BY <2>5, MovePreserves DEF PrintConfig, Output, Goto
  <2>6. CASE Interrupt(p)
    BY <2>6, MovePreserves DEF Interrupt
  <2> QED  BY <1>1, <2>1, <2>2, <2>3, <2>4, <2>5, <2>6
<1>2. CASE UNCHANGED vars
  BY <1>2 DEF vars, ConfigInv, TypeOK, TornOnlyWhileWritten, LoadedWasOnDisk, build_agent, path, default_path
<1> QED
  BY <1>1, <1>2, LoadPreserves, CreateFilePreserves, WriteAllPreserves, EditPreserves DEF Next, Step

(***************************************************************************)
(* The invariant holds in every reachable state.                           *)
(***************************************************************************)
THEOREM ConfigInvariant == Spec => []ConfigInv
  BY ConfigInvInit, ConfigInvNext, PTL DEF Spec

(***************************************************************************)
(* A torn file is the work of a write_default that is under way or was     *)
(* stopped between its two steps.                                          *)
(***************************************************************************)
THEOREM TornTheorem == Spec => []TornOnlyWhileWritten
<1>1. ConfigInv => TornOnlyWhileWritten
  BY DEF ConfigInv
<1> QED  BY <1>1, ConfigInvariant, PTL

(***************************************************************************)
(* No command acts on a torn file, or on the defaults in its place.        *)
(***************************************************************************)
THEOREM LoadedTheorem == Spec => []LoadedWasOnDisk
<1>1. ConfigInv => LoadedWasOnDisk
  BY DEF ConfigInv
<1> QED  BY <1>1, ConfigInvariant, PTL

(***************************************************************************)
(* Once nobody is left who loaded the file before it was torn, no command  *)
(* mends it: write_default comes after a load that fails.                  *)
(***************************************************************************)
THEOREM TornStaysTornTheorem == Spec => TornStaysTorn
<1> DEFINE Stays ==
      \A x \in Paths :
        file[x] = "Torn" /\ NoWriterLeft(x) /\ edits' = edits =>
          file'[x] = "Torn" /\ NoWriterLeft(x)'
<1>1. ConfigInv /\ [Next]_vars => [Stays]_vars
  <2> SUFFICES ASSUME ConfigInv, Next, NEW x \in Paths,
                      file[x] = "Torn", NoWriterLeft(x), edits' = edits
               PROVE  file'[x] = "Torn" /\ NoWriterLeft(x)'
    OBVIOUS
  <2>1. TypeOK /\ \A q \in Processes : ProcessInv(q)
    BY ConfigInvParts
  <2>2. PICK p \in Processes : Step(p) \/ Interrupt(p)
    BY <2>1 DEF Next, Edit, TypeOK
  <2>3. path(p) \in Paths /\ "Torn" \notin Configs /\ \A q \in Processes : path(q)' = path(q)
    BY PathType, ConfigAssumption DEF path, default_path
  <2>4. command' = command /\ \A q \in Processes : q # p => pc'[q] = pc[q]
    BY <2>1, <2>2
       DEF TypeOK, Step, Goto, FoundFile, NoFile, Read, ReadFails, Start, Inspect, NoUserIdentity,
           CreateFile, WriteAll, WriteText, WriteFails, PrintConfig, Output, Interrupt
  <2>5. path(p) = x => ~ CreateFile(p) /\ ~ (WriteAll(p) /\ opened[p]) /\ ~ Read(p)
    <3>1. path(p) = x => ~ CreateFile(p)
      BY DEF NoWriterLeft, CreateFile, Goto
    <3>2. path(p) = x => ~ Read(p)
      BY <2>3 DEF Read
    <3>3. ASSUME path(p) = x, WriteAll(p), opened[p] PROVE FALSE
      <4>1. pc[p] = "truncated"
        BY <3>3 DEF WriteAll, WriteText, Goto
      <4>2. command[p] = "write-default" /\ held[p] # {}
        BY <2>1, <4>1 DEF ProcessInv
      <4> QED  BY <3>3, <4>1, <4>2 DEF NoWriterLeft
    <3> QED  BY <3>1, <3>2, <3>3
  <2>6. file'[x] = "Torn" /\ \A q \in Processes : pc[q] # "exists" /\ q # p => held'[q] = held[q]
    <3>1. CASE CreateFile(p)
      BY <2>1, <2>3, <2>5, <3>1 DEF CreateFile, Put, TypeOK
    <3>2. CASE WriteAll(p)
      BY <2>1, <2>3, <2>5, <3>2 DEF WriteAll, WriteText, Put, TypeOK
    <3> QED
      BY <2>1, <2>2, <3>1, <3>2
         DEF TypeOK, Step, FoundFile, NoFile, Read, ReadFails, Start, Inspect, NoUserIdentity,
             WriteFails, PrintConfig, Output, Interrupt
  <2>7. path(p) = x /\ pc'[p] \in {"loaded", "truncated"} => held'[p] = {} \/ pc'[p] = pc[p]
    BY <2>1, <2>2, <2>3, <2>5
       DEF TypeOK, Step, Goto, FoundFile, NoFile, Read, ReadFails, Start, Inspect, NoUserIdentity,
           WriteAll, WriteText, WriteFails, PrintConfig, Output, Interrupt
  <2>8. path(p) = x /\ pc'[p] = pc[p] => held'[p] = held[p]
    BY <2>1, <2>2
       DEF TypeOK, Step, Goto, FoundFile, NoFile, Read, ReadFails, Start, Inspect, NoUserIdentity,
           CreateFile, WriteAll, WriteText, WriteFails, PrintConfig, Output, Interrupt
  <2>9. NoWriterLeft(x)'
    <3> SUFFICES ASSUME NEW q \in Processes,
                        path(q) = x, command[q] = "write-default", pc'[q] \in {"loaded", "truncated"}
                 PROVE  held'[q] = {}
      BY <2>3, <2>4 DEF NoWriterLeft
    <3> QED  BY <2>4, <2>6, <2>7, <2>8 DEF NoWriterLeft
  <2> QED  BY <2>6, <2>9
<1>2. Spec => [][Stays]_vars
  <2> HIDE DEF Stays
  <2> QED  BY <1>1, ConfigInvariant, PTL DEF Spec
<1> QED  BY <1>2 DEF TornStaysTorn
===============================================================================
