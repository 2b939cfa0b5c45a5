----------------------------- MODULE EventRing -----------------------------
(***************************************************************************)
(* Log messages and the event list of the terminal interface: log_msg      *)
(* (src/app/log.c), called by any thread, and the ring of recent events    *)
(* (src/ui/events.c) that the main thread starts, draws and stops.  A      *)
(* message is its level and its length; the ring keeps what fits a slot.   *)
(***************************************************************************)
EXTENDS Integers, Sequences

CONSTANTS
  MaxEvents,            \* TUI_MAX_EVENTS
  MessageLen,           \* TUI_EVENT_MESSAGE_LEN
  Loggers,              \* threads that log
  Levels,               \* levels of messages
  LogLevel,             \* g_log_level
  Lengths,              \* lengths of messages
  Messages              \* what a slot can hold: pairs of a level and a length

ASSUME RingAssumption ==
  /\ MaxEvents \in Nat \ {0}
  /\ Levels \subseteq Nat /\ Lengths \subseteq Nat /\ LogLevel \in Nat
  /\ MessageLen \in Nat \ {0}
  /\ \A l \in Levels, n \in Lengths : l >= LogLevel => <<l, IF n < MessageLen THEN n ELSE MessageLen - 1>> \in Messages

VARIABLES
  events,               \* tui_events
  start,                \* tui_event_start
  count,                \* tui_event_count
  active,               \* tui_active
  logger,               \* what each thread is doing in log_msg
  screen                \* the lines drawn by tui_render_events

ringVars == <<events, start, count, active, logger, screen>>

Slots == 0 .. MaxEvents - 1
Quiet == <<"quiet">>
-----------------------------------------------------------------------------
RingInit ==
  /\ events \in [Slots -> {CHOOSE e \in Messages : TRUE}]     \* never read
  /\ start = 0 /\ count = 0
  /\ active = FALSE
  /\ logger = [t \in Loggers |-> Quiet]
  /\ screen = <<>>

\* tui_init, tui_events_start
tui_events_start ==
  /\ ~active
  /\ start' = 0 /\ count' = 0
  /\ active' = TRUE
  /\ UNCHANGED <<events, logger, screen>>

\* tui_shutdown, tui_events_stop
tui_events_stop ==
  /\ active
  /\ active' = FALSE
  /\ screen' = <<>>            \* back to the main screen
  /\ UNCHANGED <<events, start, count, logger>>

\* log_msg up to its choice between the ring and stderr; a message below
\* g_log_level goes nowhere.
log_msg(t) ==
  /\ logger[t] = Quiet
  /\ \E l \in Levels, n \in Lengths :
       /\ l >= LogLevel
       /\ logger' = [logger EXCEPT ![t] = <<IF active THEN "ring" ELSE "stderr", l, n>>]
  /\ UNCHANGED <<events, start, count, active, screen>>

\* Faulty variant: a full ring is overwritten at its end, and start stays.
FaultySlot ==
  [idx |-> (start + count) % MaxEvents,
   start |-> start,
   count |-> IF count = MaxEvents THEN count ELSE count + 1]

\* Where tui_add_event writes, and what it leaves in start and count.
Slot ==
  IF count = MaxEvents
  THEN [idx |-> start, start |-> (start + 1) % MaxEvents, count |-> count]
  ELSE [idx |-> (start + count) % MaxEvents, start |-> start, count |-> count + 1]

\* snprintf into the slot's message
Stored(n) == IF n < MessageLen THEN n ELSE MessageLen - 1

\* tui_add_event, under tui_events_lock.  The interface may have been stopped,
\* or started anew, since the thread looked.
tui_add_event(t) ==
  /\ logger[t][1] = "ring"
  /\ events' = [events EXCEPT ![Slot.idx] = <<logger[t][2], Stored(logger[t][3])>>]
  /\ start' = Slot.start
  /\ count' = Slot.count
  /\ logger' = [logger EXCEPT ![t] = Quiet]
  /\ UNCHANGED <<active, screen>>

\* The rest of log_msg: the line is written to stderr.
WriteLine(t) ==
  /\ logger[t][1] = "stderr"
  /\ logger' = [logger EXCEPT ![t] = Quiet]
  /\ UNCHANGED <<events, start, count, active, screen>>

\* What the ring holds, oldest first: the copy made under the lock.
Contents == [i \in 1 .. count |-> events[(start + i - 1) % MaxEvents]]

\* tui_render_events.  What is drawn is the copy.
tui_render_events ==
  /\ active
  /\ screen' = Contents
  /\ UNCHANGED <<events, start, count, active, logger>>

RingNext ==
  \/ tui_events_start \/ tui_events_stop \/ tui_render_events
  \/ \E t \in Loggers : log_msg(t) \/ tui_add_event(t) \/ WriteLine(t)

RingSpec == RingInit /\ [][RingNext]_ringVars
-----------------------------------------------------------------------------
Recent == INSTANCE RecentEvents
            WITH recent <- Contents, Capacity <- MaxEvents, Events <- Messages

\* The ring implements the list of the last MaxEvents events of the session,
\* oldest first: tui_add_event drops the oldest one when the ring is full, at
\* any position of start, and tui_events_start forgets the session before.
ImplementsRecent == Recent!RecentSpec
=============================================================================
