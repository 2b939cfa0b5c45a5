----------------------------- MODULE MCStartup -----------------------------
(* How the program is started, one way at a time: by the GUI, by a command *)
(* line, and by itself with more privileges.                               *)
EXTENDS Launcher, Startup, Relaunch

VARIABLE part           \* the part under examination

\* Every argument of up to three characters, alone and before another
MCArgs == UNION {[1 .. n -> Chars] : n \in 0 .. 3}
MCArgvs == {<<a>> : a \in MCArgs} \cup {<<a, b>> : a \in MCArgs, b \in {<<>>, <<"slash">>, <<"blank", "slash", "quote">>}}

MCInit ==
  /\ part \in {"gui", "command", "elevation"}
  /\ LauncherInit /\ StartupInit /\ RelaunchInit

MCNext ==
  /\ UNCHANGED part
  /\ \/ part = "gui" /\ LauncherNext /\ UNCHANGED <<startVars, relaunch>>
     \/ part = "command" /\ StartupNext /\ UNCHANGED <<launcherVars, relaunch>>
     \/ part = "elevation" /\ RelaunchNext /\ UNCHANGED <<launcherVars, startVars>>

MCSpec == MCInit /\ [][MCNext]_<<part, launcherVars, startVars, relaunch>> /\ LauncherFairness
=============================================================================
