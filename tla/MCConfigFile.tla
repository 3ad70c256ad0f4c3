----------------------------- MODULE MCConfigFile -----------------------------
(***************************************************************************)
(* Instances of ConfigFile for TLC.                                        *)
(***************************************************************************)
EXTENDS ConfigFile

CONSTANTS p1, p2, home, other, custom

MCProcesses == {p1, p2}
MCPaths == {home, other}
MCConfigs == {Default, custom}
MCRequire == {custom}

\* The platform has no config_dir: p1 finds `other' below its working
\* directory, p2 is told to use it.
MCConfigArg == [p \in Processes |-> IF p = p1 THEN NoPath ELSE other]
MCCurrentDir == [p \in Processes |-> IF p = p1 THEN other ELSE home]
===============================================================================
