------------------------------ MODULE Launcher ------------------------------
(***************************************************************************)
(* The desktop GUI as a supervisor of the command-line program             *)
(* (gui/lib/core/launcher, gui/lib/home/controller/lifecycle.dart).  The   *)
(* GUI has one thread, but `start' is suspended at every await, and the    *)
(* user, the child process and a timer act in between.  Each invocation of *)
(* `start' and the child it creates have a number.                         *)
(***************************************************************************)
EXTENDS Naturals, FiniteSets

CONSTANT MaxStarts      \* bound: invocations of launcher.start

ASSUME LauncherAssumption == MaxStarts \in Nat \ {0}

Ids == 1 .. MaxStarts
NoChild == 0

VARIABLES
  status,               \* controller.status
  stopRequested,        \* controller.stopRequested
  process,              \* launcher._process, or NoChild
  starts,               \* invocations so far
  calls,                \* where each invocation of `start' is
  child,                \* the state of each child process
  timers,               \* children that _forceKillIfStillRunning waits for
  asking,               \* is the dialog of confirmPrivileges open?
  disposed,             \* controller.disposed
  early                 \* history: was Stop pressed before there was a child?

launcherVars ==
  <<status, stopRequested, process, starts, calls, child, timers, asking,
    disposed, early>>
-----------------------------------------------------------------------------
\* Faulty variant: a start that is under way is not taken into account.
FaultyRunning == process # NoChild

\* controller.running; it also decides which of the two buttons is enabled.
Running == status = "starting" \/ process # NoChild

Alive == {i \in Ids : child[i] \in {"up", "told", "signalled", "killed"}}

LauncherInit ==
  /\ status = "ready"
  /\ stopRequested = FALSE
  /\ process = NoChild
  /\ starts = 0
  /\ calls = [i \in Ids |-> "none"]
  /\ child = [i \in Ids |-> "none"]
  /\ timers = {}
  /\ asking = FALSE
  /\ disposed = FALSE
  /\ early = FALSE

\* _startTund up to the question whether the user has the privileges; the
\* configuration is valid.
Start ==
  /\ ~disposed /\ ~asking /\ ~Running
  /\ asking' = TRUE
  /\ UNCHANGED <<status, stopRequested, process, starts, calls, child, timers, disposed, early>>

\* The user declines, or the window is gone.
Decline ==
  /\ asking
  /\ asking' = FALSE
  /\ UNCHANGED <<status, stopRequested, process, starts, calls, child, timers, disposed, early>>

\* _prepareStart, and launcher.start up to its first await; if there is a child
\* by now, it throws and _failWithGuidance follows at once.
Confirm ==
  /\ asking /\ ~disposed
  /\ starts < MaxStarts
  /\ asking' = FALSE
  /\ stopRequested' = FALSE
  /\ \/ /\ process # NoChild
        /\ status' = "failed"
        /\ UNCHANGED <<starts, calls>>
     \/ /\ process = NoChild
        /\ status' = "starting"
        /\ starts' = starts + 1
        /\ calls' = [calls EXCEPT ![starts + 1] = "exists"]
  /\ UNCHANGED <<process, child, timers, disposed, early>>

\* _failWithGuidance, called when `start' throws
Fail(i) ==
  /\ calls' = [calls EXCEPT ![i] = "done"]
  /\ status' = IF disposed THEN status ELSE "failed"
  /\ stopRequested' = (disposed /\ stopRequested)
  /\ UNCHANGED <<starts, timers, asking, disposed, early>>

\* Faulty variant: `start' returns without an error.
FaultyNotFound(i) ==
  /\ calls[i] = "exists"
  /\ calls' = [calls EXCEPT ![i] = "done"]
  /\ UNCHANGED <<status, stopRequested, process, starts, child, timers, asking, disposed, early>>

\* exe.exists: there is no executable, or the user is not root on macOS.
NotFound(i) ==
  /\ calls[i] = "exists"
  /\ Fail(i)
  /\ UNCHANGED <<process, child>>

Found(i) ==
  /\ calls[i] = "exists"
  /\ calls' = [calls EXCEPT ![i] = "spawn"]
  /\ UNCHANGED <<status, stopRequested, process, starts, child, timers, asking, disposed, early>>

\* Process.start fails ...
NotSpawned(i) ==
  /\ calls[i] = "spawn"
  /\ Fail(i)
  /\ UNCHANGED <<process, child>>

\* ... or there is a child, and the key is written to it.
Spawned(i) ==
  /\ calls[i] = "spawn"
  /\ child' = [child EXCEPT ![i] = "up"]
  /\ process' = i
  /\ calls' = [calls EXCEPT ![i] = "key"]
  /\ UNCHANGED <<status, stopRequested, starts, timers, asking, disposed, early>>

\* process.kill sends SIGTERM, if the child has not ended.  To a child that has
\* set up its handlers that is a request to stop like any other
\* (app_setup_signals); it ends one that has not, and every one on Windows.
Terminated(i) ==
  IF child[i] \in {"up", "told"}
  THEN {[child EXCEPT ![i] = s] : s \in {"signalled", "killed"}}
  ELSE {child}

\* process.kill(ProcessSignal.sigkill)
Killed(i) ==
  IF i \in Alive THEN [child EXCEPT ![i] = "killed"] ELSE child

\* Faulty variant: the child is left to itself.
FaultyKeyNotSent(i) ==
  /\ calls[i] = "key"
  /\ Fail(i)
  /\ UNCHANGED <<process, child>>

\* The key cannot be sent: `start' throws, and _process remains as it is.
KeyNotSent(i) ==
  /\ calls[i] = "key"
  /\ child' \in Terminated(i)
  /\ Fail(i)
  /\ UNCHANGED process

\* The key is sent: onStarted, which is _markRunning
KeySent(i) ==
  /\ calls[i] = "key"
  /\ calls' = [calls EXCEPT ![i] = "wait"]
  /\ status' = IF disposed THEN status ELSE "running"
  /\ UNCHANGED <<stopRequested, process, starts, child, timers, asking, disposed, early>>

\* process.exitCode completes, and the streams are cancelled ...
Reap(i) ==
  /\ calls[i] = "wait" /\ child[i] = "exited"
  /\ calls' = [calls EXCEPT ![i] = "drain"]
  /\ UNCHANGED <<status, stopRequested, process, starts, child, timers, asking, disposed, early>>

\* ... then `start' returns and _completeExit runs: the exit code counts only
\* if the user did not stop the child.
Complete(i) ==
  /\ calls[i] = "drain"
  /\ process' = NoChild
  /\ calls' = [calls EXCEPT ![i] = "done"]
  /\ IF disposed THEN UNCHANGED <<status, stopRequested>>
     ELSE /\ status' \in {"stopped"} \cup (IF stopRequested THEN {} ELSE {"failed"})
          /\ stopRequested' = FALSE
  /\ UNCHANGED <<starts, child, timers, asking, disposed, early>>
-----------------------------------------------------------------------------
\* launcher.stop: "stop" is written to the child, and a timer is set; if it
\* cannot be written, the child gets a SIGTERM, and no timer is set.
StopChild ==
  \/ process = NoChild /\ UNCHANGED <<child, timers>>
  \/ /\ process # NoChild
     /\ child' = IF child[process] = "up" THEN [child EXCEPT ![process] = "told"]
                                          ELSE child
     /\ timers' = timers \cup {process}
  \/ /\ process # NoChild
     /\ child' \in Terminated(process)
     /\ UNCHANGED timers

\* _stopTund
Stop ==
  /\ ~disposed /\ ~asking /\ Running       \* the dialog is modal
  /\ status' = "stopping"
  /\ stopRequested' = TRUE
  /\ early' = (early \/ process = NoChild)
  /\ StopChild
  /\ UNCHANGED <<process, starts, calls, asking, disposed>>

\* The window is closed: controller.dispose and launcher.dispose
Dispose ==
  /\ ~disposed
  /\ disposed' = TRUE
  /\ StopChild
  /\ UNCHANGED <<status, stopRequested, process, starts, calls, asking, early>>

\* _flushStopCommand: what was written does not reach the child.
FlushFails(i) ==
  /\ child[i] = "told"
  /\ child' \in Terminated(i)
  /\ UNCHANGED <<status, stopRequested, process, starts, calls, timers, asking, disposed, early>>

\* Faulty variant: the timer only gives up waiting.
FaultyForceKill(i) ==
  /\ i \in timers
  /\ timers' = timers \ {i}
  /\ UNCHANGED <<status, stopRequested, process, starts, calls, child, asking, disposed, early>>

\* _forceKillIfStillRunning, three seconds later or when the child has ended
ForceKill(i) ==
  /\ i \in timers
  /\ timers' = timers \ {i}
  /\ child' = IF process = i THEN Killed(i) ELSE child
  /\ UNCHANGED <<status, stopRequested, process, starts, calls, asking, disposed, early>>

\* A child ends, of its own accord, when told to or when killed.
ChildExits(i) ==
  /\ i \in Alive
  /\ child' = [child EXCEPT ![i] = "exited"]
  /\ UNCHANGED <<status, stopRequested, process, starts, calls, timers, asking, disposed, early>>

StartStep(i) ==
  \/ NotFound(i) \/ Found(i) \/ NotSpawned(i) \/ Spawned(i)
  \/ KeyNotSent(i) \/ KeySent(i) \/ Reap(i) \/ Complete(i)

LauncherNext ==
  \/ Start \/ Decline \/ Confirm \/ Stop \/ Dispose
  \/ \E i \in Ids : StartStep(i) \/ FlushFails(i) \/ ForceKill(i) \/ ChildExits(i)

\* Futures complete, timers fire and a killed process ends.  A child that was
\* told to stop, or got a SIGTERM, may take its time.
LauncherFairness ==
  \A i \in Ids :
    /\ WF_launcherVars(StartStep(i))
    /\ WF_launcherVars(ForceKill(i))
    /\ WF_launcherVars(ChildExits(i) /\ child[i] = "killed")

LauncherSpec == LauncherInit /\ [][LauncherNext]_launcherVars /\ LauncherFairness
-----------------------------------------------------------------------------
LauncherTypeOK ==
  /\ status \in {"ready", "starting", "running", "stopping", "stopped", "failed"}
  /\ stopRequested \in BOOLEAN
  /\ process \in Ids \cup {NoChild}
  /\ starts \in 0 .. MaxStarts
  /\ calls \in [Ids -> {"none", "exists", "spawn", "key", "wait", "drain", "done"}]
  /\ child \in [Ids -> {"none", "up", "told", "signalled", "killed", "exited"}]
  /\ timers \subseteq Ids
  /\ asking \in BOOLEAN
  /\ disposed \in BOOLEAN
  /\ early \in BOOLEAN

\* There is never more than one child ("TunD is already running."), although
\* _process is set only when Process.start returns: Start stays disabled as
\* long as the status is "starting".
SingleChild == Cardinality(Alive) <= 1

\* This is so as long as the user stops only children that exist.
SingleUnlessEarly == ~early => SingleChild

\* The status does not lie: when it says that TunD is not running, no child is
\* at work that has not been signalled to end, and when it says that it is,
\* there is one to be stopped.
StatusTruthful ==
  ~disposed /\ ~early =>
    /\ status \in {"ready", "stopped", "failed"} =>
         \A i \in Alive : child[i] \in {"signalled", "killed"}
    /\ status = "running" => process # NoChild

\* Where `start' is suspended without a child of its own, and with one
Waiting(i) == calls[i] \in {"exists", "spawn"}
Owning(i) == calls[i] \in {"key", "wait", "drain"}

\* What holds of one invocation: until there is a child the status says so and
\* nothing else is under way; from then on _process is that child, until it has
\* ended.  Only a child that could not be given its key stays in _process.
Orderly(i) ==
  /\ i > starts => calls[i] = "none"
  /\ calls[i] \in {"none", "exists", "spawn"} => child[i] = "none"
  /\ Waiting(i) => process = NoChild /\ status = "starting"
  /\ Owning(i) => process = i /\ child[i] # "none"
  /\ calls[i] = "drain" => child[i] = "exited"
  /\ process = i => Owning(i) \/ (calls[i] = "done" /\ child[i] \in {"signalled", "killed", "exited"})
  /\ i \in Alive => process = i
  /\ ~disposed /\ Owning(i) => status \in {"starting", "running", "stopping"}

\* The invocations follow one another, and the dialog is open only between two.
InTurn ==
  /\ \A i \in Ids : Orderly(i)
  /\ \A i, j \in Ids : Waiting(i) /\ Waiting(j) => i = j
  /\ asking => process = NoChild /\ status # "starting"
  /\ ~disposed /\ status = "running" => process # NoChild

\* They do as long as Stop was pressed only when there was a child.
LauncherIInv == LauncherTypeOK /\ (~early => InTurn)

\* The status leaves "starting", in which Start is disabled, whatever fails on
\* the way to a running child and whatever the user presses meanwhile.
StartSettles == (status = "starting") ~> (status # "starting" \/ disposed)

\* A child to which "stop" was written ends, even if it does not obey, or what
\* was written never reached it (_forceKillIfStillRunning).  A child to which it
\* could not be written has no such timer: it gets a SIGTERM, and whether it
\* ends is up to it.
StopTakesEffect ==
  \A i \in Ids : (i \in timers /\ ~early) ~> (i \notin Alive \/ disposed \/ early)
=============================================================================
