------------------------------ MODULE Relaunch ------------------------------
(***************************************************************************)
(* The elevated relaunch on Windows (src/app/win_runtime.c): the arguments *)
(* of the process are written as one line, of bounded length, and the      *)
(* system's rules take it apart again for the new process.  What the rules *)
(* tell apart is a backslash, a quote, a blank and anything else.          *)
(***************************************************************************)
EXTENDS Integers, Sequences

CONSTANTS
  Argvs,                \* argument lists: sequences of sequences of Chars
  LineSize              \* sizeof(params) (8192)

Chars == {"slash", "quote", "blank", "other"}

ASSUME RelaunchAssumption ==
  /\ LineSize \in Nat \ {0}
  /\ Argvs \subseteq Seq(Seq(Chars))

VARIABLE relaunch       \* arguments, the result, and the new process's arguments

Full == <<"full">>
Slashes(n) == [i \in 1 .. n |-> "slash"]
-----------------------------------------------------------------------------
\* append_text: the text and a terminator must fit.
append_text(buf, text) ==
  IF buf = Full \/ Len(buf) + Len(text) >= LineSize THEN Full ELSE buf \o text

\* The loop of append_quoted_arg: what is written and how many backslashes are
\* held back until it is known what follows; before a quote there are twice as
\* many.
Quoting(buf, arg) ==
  LET step[i \in 0 .. Len(arg)] ==
        IF i = 0 THEN [buf |-> append_text(buf, <<"quote">>), slashes |-> 0]
        ELSE LET s == step[i - 1] IN
             IF arg[i] = "slash" THEN [buf |-> s.buf, slashes |-> s.slashes + 1]
             ELSE [buf |-> append_text(s.buf,
                             IF arg[i] = "quote"
                             THEN Slashes(2 * s.slashes) \o <<"slash", "quote">>
                             ELSE Slashes(s.slashes) \o <<arg[i]>>),
                   slashes |-> 0]
  IN  step

\* Faulty variant: the backslashes before the closing quote are not doubled.
FaultyAppendQuotedArg(buf, arg) ==
  LET last == Quoting(buf, arg)[Len(arg)]
  IN  append_text(last.buf, Slashes(last.slashes) \o <<"quote">>)

\* append_quoted_arg: before the end there are twice as many backslashes, too.
append_quoted_arg(buf, arg) ==
  LET last == Quoting(buf, arg)[Len(arg)]
  IN  append_text(last.buf, Slashes(2 * last.slashes) \o <<"quote">>)

\* build_relaunch_params: the line after each of the arguments
Lines(argv) ==
  LET line[i \in 0 .. Len(argv)] ==
        IF i = 0 THEN <<>>
        ELSE append_quoted_arg(IF i > 1 THEN append_text(line[i - 1], <<"blank">>) ELSE line[i - 1],
                               argv[i])
  IN  line

build_relaunch_params(argv) == Lines(argv)[Len(argv)]
-----------------------------------------------------------------------------
(* How the new process's start-up code takes a line apart: n backslashes     *)
(* before a quote stand for n / 2, and the quote is itself if n is odd;      *)
(* elsewhere they are themselves.  Blanks outside quotes end an argument.    *)

Reader(args, arg, inside, quoted, slashes) ==
  [args |-> args, arg |-> arg, inside |-> inside, quoted |-> quoted, slashes |-> slashes]

Begin == Reader(<<>>, <<>>, FALSE, FALSE, 0)

Flushed(s, n) == Reader(s.args, s.arg \o Slashes(n), TRUE, s.quoted, 0)

Ended(s) ==
  LET f == IF s.slashes = 0 THEN s ELSE Flushed(s, s.slashes)
  IN  Reader(IF f.inside THEN Append(f.args, f.arg) ELSE f.args, <<>>, FALSE, f.quoted, 0)

Took(s, c) ==
  IF c = "slash" THEN Reader(s.args, s.arg, TRUE, s.quoted, s.slashes + 1)
  ELSE IF c = "quote" THEN
    LET f == Flushed(s, s.slashes \div 2)
    IN  IF s.slashes % 2 = 1 THEN Reader(f.args, Append(f.arg, c), TRUE, f.quoted, 0)
        ELSE Reader(f.args, f.arg, TRUE, ~f.quoted, 0)
  ELSE IF c = "blank" /\ ~s.quoted THEN Ended(s)
  ELSE LET f == Flushed(s, s.slashes) IN Reader(f.args, Append(f.arg, c), TRUE, f.quoted, 0)

Reading(line) ==
  LET read[i \in 0 .. Len(line)] == IF i = 0 THEN Begin ELSE Took(read[i - 1], line[i])
  IN  read

CommandLineToArgv(line) == Ended(Reading(line)[Len(line)]).args
-----------------------------------------------------------------------------
Idle == [argv |-> <<>>, result |-> "none", got |-> <<>>]

RelaunchInit == relaunch = Idle

\* win_runtime_relaunch_as_admin: the path of the program cannot be found, the
\* line is too long, the user declines, or a new process begins.
win_runtime_relaunch_as_admin ==
  /\ relaunch = Idle
  /\ \E argv \in Argvs :
       LET params == build_relaunch_params(argv) IN
       \/ relaunch' = [argv |-> argv, result |-> "failed", got |-> <<>>]
       \/ /\ params # Full
          /\ relaunch' = [argv |-> argv, result |-> "started", got |-> CommandLineToArgv(params)]

Again == relaunch # Idle /\ relaunch' = Idle

RelaunchNext == win_runtime_relaunch_as_admin \/ Again

RelaunchSpec == RelaunchInit /\ [][RelaunchNext]_relaunch
-----------------------------------------------------------------------------
\* The elevated process has the arguments of this one, however they mix
\* backslashes, quotes and blanks, and whether or not they nearly fill the
\* line: a line that is cut off is never used.
RelaunchFaithful == relaunch.result = "started" => relaunch.got = relaunch.argv
=============================================================================
