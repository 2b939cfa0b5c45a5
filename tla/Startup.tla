------------------------------- MODULE Startup -------------------------------
(***************************************************************************)
(* From the command line to the running program (src/app/cli.c, main.c and *)
(* platform.c): the options in the order they are given, the three sources *)
(* of the network key, the prompt that hides what is typed, the privileges *)
(* and the relaunch on Windows, and the secrets in memory on the way.      *)
(*                                                                         *)
(* A key or a line is its length.  The user may give any option at any     *)
(* place, so the options are chosen while they are read.                   *)
(***************************************************************************)
EXTENDS Integers, Sequences

CONSTANTS
  KeySize,              \* sizeof(cfg->access_key) (128)
  KeyMin,               \* the shortest key accepted (12)
  KeyLengths,           \* lengths of keys that are tried
  Ports,                \* values of -p that are tried
  MaxPort,              \* 65535
  DefaultPort,          \* TUND_PORT
  MaxOptions            \* bound: options on a command line

ASSUME StartupAssumption ==
  /\ KeySize \in Nat /\ KeyMin \in 1 .. KeySize - 1 /\ KeyLengths \subseteq Nat
  /\ MaxPort \in Nat /\ DefaultPort \in 1 .. MaxPort /\ Ports \subseteq Int
  /\ MaxOptions \in Nat

VARIABLES
  stage,                \* where main is
  host,                 \* system, privileges, which streams are terminals
  cfg,                  \* config_t
  given,                \* history: options read so far
  sources,              \* history: sources of a key, and the keys they held
  echo,                 \* does the terminal show what is typed?
  secrets,              \* secrets in memory
  relaunched            \* history: has an elevated process been started?

startVars == <<stage, host, cfg, given, sources, echo, secrets, relaunched>>
parsing == <<host, given, sources>>

Hosts == [windows : BOOLEAN, admin : BOOLEAN, stdinTty : BOOLEAN, stderrTty : BOOLEAN]
Blank == [client |-> FALSE, server |-> FALSE, port |-> DefaultPort, key |-> 0,
          fromStdin |-> FALSE, tui |-> TRUE]
Nowhere == [windows |-> FALSE, admin |-> FALSE, stdinTty |-> FALSE, stderrTty |-> FALSE]
-----------------------------------------------------------------------------
StartupInit ==
  /\ stage = "start" /\ host = Nowhere /\ cfg = Blank
  /\ given = 0 /\ sources = <<>>
  /\ echo = TRUE /\ secrets = {} /\ relaunched = FALSE

\* cli_parse up to the options, with parse_mode: without a mode, with an
\* unknown one or with -h the program ends.
parse_mode ==
  /\ stage = "start"
  /\ host' \in Hosts
  /\ \/ stage' = "options" /\ \E c \in BOOLEAN : cfg' = [Blank EXCEPT !.client = c]
     \/ stage' = "exit" /\ UNCHANGED cfg
  /\ UNCHANGED <<given, sources, echo, secrets, relaunched>>

\* The next option
Option ==
  /\ stage = "options" /\ given < MaxOptions
  /\ given' = given + 1
  /\ UNCHANGED <<host, echo, relaunched>>

\* -n, --json-events and -v change nothing that matters here.
PlainOption ==
  /\ Option
  /\ UNCHANGED <<stage, cfg, sources, secrets>>

ServerOption ==
  /\ Option
  /\ cfg' = [cfg EXCEPT !.server = TRUE]
  /\ UNCHANGED <<stage, sources, secrets>>

NoTuiOption ==
  /\ Option
  /\ cfg' = [cfg EXCEPT !.tui = FALSE]
  /\ UNCHANGED <<stage, sources, secrets>>

\* -h, and an option that does not exist
LastOption ==
  /\ Option
  /\ stage' = "exit"
  /\ UNCHANGED <<cfg, sources, secrets>>

\* The port is a long before it is tested, and a uint16_t after.
parse_port ==
  /\ Option
  /\ \E port \in Ports :
       IF port < 1 \/ port > MaxPort
       THEN stage' = "exit" /\ UNCHANGED cfg
       ELSE cfg' = [cfg EXCEPT !.port = port % (MaxPort + 1)] /\ UNCHANGED stage
  /\ UNCHANGED <<sources, secrets>>
-----------------------------------------------------------------------------
(* The key *)

\* Faulty variant: a later source replaces an earlier one.
FaultyOneSource(source, next) ==
  /\ Option
  /\ cfg' = [cfg EXCEPT !.fromStdin = (source = "stdin") \/ cfg.fromStdin]
  /\ stage' = next
  /\ UNCHANGED <<sources, secrets>>

\* A second source of the key is an error; otherwise it is read next.
OneSource(source, next) ==
  /\ Option
  /\ IF sources # <<>>
     THEN stage' = "exit" /\ UNCHANGED cfg
     ELSE /\ stage' = next
          /\ cfg' = [cfg EXCEPT !.fromStdin = (source = "stdin") \/ cfg.fromStdin]
  /\ UNCHANGED <<sources, secrets>>

KeyOption == OneSource("arg", "arg")
KeyFileOption == OneSource("file", "file")
KeyStdinOption == OneSource("stdin", IF host.stdinTty THEN "prompt" ELSE "stdin")

\* store_access_key: a key that does not fit is an error.
store_access_key(n) ==
  IF n >= KeySize
  THEN stage' = "exit" /\ UNCHANGED <<cfg, secrets>>
  ELSE /\ cfg' = [cfg EXCEPT !.key = n]
       /\ secrets' = secrets \cup {"passphrase"}
       /\ stage' = "options"

\* What follows the n characters of a line before its first CR or LF, and how
\* many characters that is: the end of the file, the end of the line, or a CR
\* inside the line, with another character and the end of the line behind it.
Ends == [none |-> 0, lf |-> 1, crlf |-> 2, cr |-> 3]

\* Does a line of n characters fit the buffer of KeySize + 2, with its end or
\* with the end of the file behind it?
WholeLine(n, end) ==
  IF end = "none" THEN n < KeySize + 1 ELSE n + Ends[end] <= KeySize + 1

\* read_key_line: nothing to read, too long, or the line as far as its first CR
\* or LF, where trim_line_end cuts it.  The
\* buffer is wiped once the key is stored, not when the line was too long.
read_key_line(n, end) ==
  IF n + Ends[end] = 0 THEN stage' = "exit" /\ UNCHANGED <<cfg, secrets>>
  ELSE IF ~WholeLine(n, end)
       THEN stage' = "exit" /\ secrets' = secrets \cup {"line"} /\ UNCHANGED cfg
       ELSE store_access_key(n)

ReadArg ==
  /\ stage = "arg"
  /\ \E n \in KeyLengths :
       /\ sources' = Append(sources, <<"arg", n>>)
       /\ store_access_key(n)
  /\ UNCHANGED <<host, given, echo, relaunched>>

\* read_key_from_file and read_key_from_stream; the file may not open.
ReadStream ==
  /\ stage \in {"file", "stdin"}
  /\ \/ /\ stage = "file" /\ stage' = "exit"
        /\ UNCHANGED <<cfg, sources, secrets>>
     \/ \E n \in KeyLengths, end \in DOMAIN Ends :
          /\ sources' = Append(sources, <<stage, n>>)
          /\ read_key_line(n, end)
  /\ UNCHANGED <<host, given, echo, relaunched>>

\* read_key_from_terminal hides what is typed, if the terminal lets it.
HideInput ==
  /\ stage = "prompt"
  /\ echo' \in BOOLEAN
  /\ stage' = "typing"
  /\ UNCHANGED <<cfg, parsing, secrets, relaunched>>

\* A line is typed, or the terminal is closed; then it is as it was before.
ReadTerminal ==
  /\ stage = "typing"
  /\ \E n \in KeyLengths, end \in DOMAIN Ends :
       /\ sources' = Append(sources, <<"stdin", n>>)
       /\ read_key_line(n, end)
  /\ echo' = TRUE
  /\ UNCHANGED <<host, given, relaunched>>

\* Ctrl-C at the prompt: no handler is installed yet, and the process is gone.
Interrupt ==
  /\ stage = "typing"
  /\ stage' = "killed"
  /\ UNCHANGED <<cfg, parsing, echo, secrets, relaunched>>

\* validate_config, after the last option
validate_config ==
  /\ stage = "options"
  /\ stage' = IF (cfg.client /\ ~cfg.server) \/ cfg.key < KeyMin THEN "exit" ELSE "derive"
  /\ UNCHANGED <<cfg, parsing, echo, secrets, relaunched>>
-----------------------------------------------------------------------------
(* main *)

\* Faulty variant: the passphrase stays in cfg.
FaultyDerive ==
  /\ stage = "derive"
  /\ secrets' = secrets \cup {"key"}
  /\ cfg' = [cfg EXCEPT !.tui = cfg.tui /\ host.stderrTty]
  /\ stage' = "prepare"
  /\ UNCHANGED <<parsing, echo, relaunched>>

\* The key is derived and the passphrase wiped; no interface without a terminal.
Derive ==
  /\ stage = "derive"
  /\ secrets' = (secrets \ {"passphrase"}) \cup {"key"}
  /\ cfg' = [cfg EXCEPT !.tui = cfg.tui /\ host.stderrTty]
  /\ stage' = "prepare"
  /\ UNCHANGED <<parsing, echo, relaunched>>

\* app_prepare_runtime of Linux and macOS: without privileges the process ends.
PreparePosix ==
  /\ ~host.windows
  /\ stage' = IF host.admin THEN "run" ELSE "wipe"
  /\ UNCHANGED relaunched

\* app_prepare_runtime of Windows: the relaunch succeeds, or it fails; a process
\* that has read its key from stdin does not try.
PrepareWindows ==
  /\ host.windows
  /\ \/ host.admin /\ stage' = "run" /\ UNCHANGED relaunched
     \/ /\ ~host.admin /\ stage' = "wipe"
        /\ relaunched' \in IF cfg.fromStdin THEN {FALSE} ELSE BOOLEAN

app_prepare_runtime ==
  /\ stage = "prepare"
  /\ PreparePosix \/ PrepareWindows
  /\ UNCHANGED <<cfg, parsing, echo, secrets>>

\* server_init or client_init fails, or the run is over: a signal, a line of
\* stdin_control_thread, or another end.  See Lifecycle.
Finish ==
  /\ stage = "run"
  /\ stage' = "wipe"
  /\ UNCHANGED <<cfg, parsing, echo, secrets, relaunched>>

WipeKey ==
  /\ stage = "wipe"
  /\ secrets' = secrets \ {"key"}
  /\ stage' = "exit"
  /\ UNCHANGED <<cfg, parsing, echo, relaunched>>

\* Another command is typed; the user has repaired the terminal.
NewCommand ==
  /\ stage \in {"exit", "killed"}
  /\ stage' = "start" /\ host' = Nowhere /\ cfg' = Blank
  /\ given' = 0 /\ sources' = <<>>
  /\ echo' = TRUE /\ secrets' = {} /\ relaunched' = FALSE

StartupNext ==
  \/ parse_mode
  \/ PlainOption \/ ServerOption \/ NoTuiOption \/ LastOption \/ parse_port
  \/ KeyOption \/ KeyFileOption \/ KeyStdinOption
  \/ ReadArg \/ ReadStream \/ HideInput \/ ReadTerminal \/ Interrupt
  \/ validate_config
  \/ Derive \/ app_prepare_runtime \/ Finish \/ WipeKey
  \/ NewCommand

StartupSpec == StartupInit /\ [][StartupNext]_startVars
-----------------------------------------------------------------------------
\* A program that gets as far as running has privileges, one key, which is the
\* whole argument, or line as far as its first CR or LF, of the only source
\* named, neither too short nor cut off by a buffer, a server if it is a client, and a valid port; it draws the interface
\* only on a terminal.  So says cli_parse, whatever the order of the options.
\* A program that cannot run starts an elevated one in its place only if that
\* finds the key again, which it does not on stdin.
RunsAsAsked ==
  /\ stage = "run" =>
    /\ host.admin
    /\ Len(sources) = 1
    /\ cfg.key = sources[1][2]
    /\ cfg.key \in KeyMin .. KeySize - 1
    /\ cfg.client => cfg.server
    /\ cfg.port \in 1 .. MaxPort
    /\ cfg.tui => host.stderrTty
  /\ relaunched => sources[1][1] # "stdin" /\ stage # "run"

\* A program puts back what it has changed.  However read_key_from_terminal
\* ends, the terminal shows again what is typed, unless the process is killed at
\* the prompt.  A running program has only the derived key in memory, and one
\* that has derived it leaves nothing: main wipes it on each of its ways out.
CleansUp ==
  /\ stage \notin {"typing", "killed"} => echo
  /\ stage = "run" => secrets \subseteq {"key"}
  /\ stage = "exit" => "key" \notin secrets
-----------------------------------------------------------------------------
Configs == [client : BOOLEAN, server : BOOLEAN, port : 1 .. MaxPort, key : Nat,
            fromStdin : BOOLEAN, tui : BOOLEAN]

\* Where main is on its way, and which of its stages read a key
KeyStages == {"arg", "file", "stdin", "prompt", "typing"}
Parsing == {"options"} \cup KeyStages
Valid == {"derive", "prepare", "run"}
Ending == {"wipe", "exit", "killed"}

\* No source of a key has been named yet, or the only one has been read.
Unread == sources = <<>> /\ cfg.key = 0 /\ ~cfg.fromStdin
Read ==
  /\ Len(sources) = 1 /\ cfg.key = sources[1][2] /\ cfg.key < KeySize
  /\ cfg.fromStdin <=> sources[1][1] = "stdin"

\* What cli_parse and main know at each stage.
StartupIInv ==
  /\ stage \in {"start"} \cup Parsing \cup Valid \cup Ending
  /\ host \in Hosts /\ cfg \in Configs
  /\ stage = "start" => Unread
  /\ stage = "options" => Unread \/ Read
  /\ stage \in KeyStages => /\ sources = <<>> /\ cfg.key = 0
                            /\ cfg.fromStdin <=> stage \notin {"arg", "file"}
  /\ stage \in Valid => Read /\ cfg.key >= KeyMin /\ (cfg.client => cfg.server)
  /\ stage \in {"prepare", "run"} => (cfg.tui => host.stderrTty)
  /\ stage = "run" => host.admin
  /\ relaunched => stage \in {"wipe", "exit"} /\ sources[1][1] # "stdin"
  /\ stage \notin {"typing", "killed"} => echo
  /\ stage \in {"start", "derive"} \cup Parsing => secrets \subseteq {"passphrase"}
  /\ stage \in {"prepare", "run", "wipe"} => secrets \subseteq {"key"}
  /\ stage = "exit" => "key" \notin secrets
=============================================================================
