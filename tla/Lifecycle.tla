------------------------------ MODULE Lifecycle ------------------------------
(***************************************************************************)
(* How a TunD process starts, runs and ends (src/app/main.c, server.c,     *)
(* client.c): the resources it acquires, the two threads the main thread   *)
(* creates and joins, the flags that end them, and every step that can     *)
(* fail.  What the threads do in between is the subject of Server and      *)
(* Client.  The TUN reader is that of Linux and macOS, which returns after *)
(* at most 250 ms.                                                         *)
(***************************************************************************)
EXTENDS Sequences, Naturals

Workers == {"timer", "tun"}
States == {"none", "open", "closed"}

VARIABLES
  role,                 \* cfg.mode
  pc,                   \* where the main thread is
  todo,                 \* steps of server_init or client_init still to do
  running,              \* g_running
  quit,                 \* timeout_quit or ka_quit, and tun_quit
  started,              \* timeout_started or ka_started, and tun_started
  worker,               \* where each thread is
  joins,                \* history: how often each was joined
  sock,                 \* sockfd
  tun,                  \* tun_device_t
  lock,                 \* peers_lock
  key,                  \* g_crypto_key
  tui,                  \* the terminal's alternate screen
  goodbye               \* history: has DISCONNECT been sent?

resources == <<sock, tun, lock, key, tui, goodbye>>
threads == <<quit, started, worker, joins>>
vars == <<role, pc, todo, running, threads, resources>>
-----------------------------------------------------------------------------
ServerSteps == <<"socket", "tun", "ip", "mtu">>
ClientSteps == <<"resolve", "socket", "register", "tun", "ip", "mtu">>
StepNames == {"resolve", "socket", "register", "tun", "ip", "mtu"}

\* main up to the choice of the mode: the key has been derived.
Init ==
  /\ role \in {"server", "client"}
  /\ pc = "prepare"
  /\ todo = IF role = "server" THEN ServerSteps ELSE ClientSteps
  /\ running = TRUE
  /\ quit = [w \in Workers |-> FALSE]
  /\ started = [w \in Workers |-> FALSE]
  /\ worker = [w \in Workers |-> "none"]
  /\ joins = [w \in Workers |-> 0]
  /\ sock = "none" /\ tun = "none" /\ lock = "none"
  /\ key = "open"
  /\ tui = "none"
  /\ goodbye = FALSE

\* app_prepare_runtime: without privileges the process ends.
Prepare ==
  /\ pc = "prepare"
  /\ \/ pc' = "init" /\ lock' = "open"
     \/ pc' = "wipe" /\ UNCHANGED lock
  /\ UNCHANGED <<role, todo, running, threads, sock, tun, key, tui, goodbye>>

\* One step of server_init or client_init succeeds.
InitStep ==
  /\ pc = "init"
  /\ sock' = IF Head(todo) = "socket" THEN "open" ELSE sock
  /\ tun' = IF Head(todo) = "tun" THEN "open" ELSE tun
  /\ todo' = Tail(todo)
  /\ pc' = IF Tail(todo) = <<>> THEN "startTimer" ELSE "init"
  /\ UNCHANGED <<role, running, threads, lock, key, tui, goodbye>>

\* Faulty variant: the device stays open when its address cannot be set.
FaultyServerInitFails ==
  /\ role = "server" /\ pc = "init"
  /\ sock' = IF Head(todo) = "socket" THEN sock ELSE "closed"
  /\ UNCHANGED tun
  /\ pc' = "wipe"
  /\ UNCHANGED <<role, todo, running, threads, lock, key, tui, goodbye>>

\* server_init: a step fails, and what is open is closed.
ServerInitFails ==
  /\ role = "server" /\ pc = "init"
  /\ sock' = IF Head(todo) = "socket" THEN sock ELSE "closed"
  /\ tun' = IF Head(todo) \in {"ip", "mtu"} THEN "closed" ELSE tun
  /\ pc' = "wipe"
  /\ UNCHANGED <<role, todo, running, threads, lock, key, tui, goodbye>>

\* client_init: likewise.  The server is not told.
ClientInitFails ==
  /\ role = "client" /\ pc = "init"
  /\ sock' = IF Head(todo) \in {"resolve", "socket"} THEN sock ELSE "closed"
  /\ tun' = IF Head(todo) \in {"ip", "mtu"} THEN "closed" ELSE tun
  /\ pc' = "wipe"
  /\ UNCHANGED <<role, todo, running, threads, lock, key, tui, goodbye>>
-----------------------------------------------------------------------------
(* server_run and client_run, which differ in what they do with a datagram. *)

\* The first thread is created; if it cannot be, the run is over.
StartTimer ==
  /\ pc = "startTimer"
  /\ \/ /\ worker' = [worker EXCEPT !["timer"] = "test"]
        /\ started' = [started EXCEPT !["timer"] = TRUE]
        /\ pc' = "startTun"
        /\ UNCHANGED running
     \/ /\ running' = FALSE
        /\ pc' = "shutdown"
        /\ UNCHANGED <<worker, started>>
  /\ quit' = [w \in Workers |-> FALSE]
  /\ UNCHANGED <<role, todo, joins, resources>>

\* The second one; if it cannot be, the first one has to end.
StartTun ==
  /\ pc = "startTun"
  /\ \/ /\ worker' = [worker EXCEPT !["tun"] = "test"]
        /\ started' = [started EXCEPT !["tun"] = TRUE]
        /\ tui' \in {"none", "open"}        \* tui_init, if g_tui_active
        /\ pc' = "loop"
        /\ UNCHANGED quit
     \/ /\ quit' = [quit EXCEPT !["timer"] = TRUE]
        /\ pc' = "undo"
        /\ UNCHANGED <<worker, started, tui>>
  /\ UNCHANGED <<role, todo, running, joins, sock, tun, lock, key, goodbye>>

\* pthread_join returns once the thread has ended.
Join(w) ==
  /\ worker[w] \in {"none", "ended"}
  /\ joins' = [joins EXCEPT ![w] = joins[w] + 1]

\* ... and is joined at once.
Undo ==
  /\ pc = "undo"
  /\ Join("timer")
  /\ started' = [started EXCEPT !["timer"] = FALSE]
  /\ running' = FALSE
  /\ pc' = "shutdown"
  /\ UNCHANGED <<role, todo, quit, worker, resources>>

LoopTest ==
  /\ pc = "loop"
  /\ pc' = IF running THEN "poll" ELSE "shutdown"
  /\ UNCHANGED <<role, todo, running, threads, resources>>

\* net_poll_peers returns within a second, with or without a datagram, or it
\* fails; then the loop ends although g_running is still set.
Poll ==
  /\ pc = "poll"
  /\ pc' \in {"loop", "shutdown"}
  /\ UNCHANGED <<role, todo, running, threads, resources>>

\* client_handle_server_packet: the server shuts down.
ServerDisconnects ==
  /\ role = "client" /\ pc = "poll"
  /\ running' = FALSE
  /\ pc' = "loop"
  /\ UNCHANGED <<role, todo, threads, resources>>
-----------------------------------------------------------------------------
(* server_shutdown and client_shutdown, the end of main *)

\* Faulty variant: only g_running ends the threads.
FaultyRaiseQuit ==
  /\ pc = "shutdown"
  /\ pc' = "goodbye"
  /\ UNCHANGED <<role, todo, running, threads, resources>>

RaiseQuit ==
  /\ pc = "shutdown"
  /\ quit' = [w \in Workers |-> TRUE]
  /\ pc' = "goodbye"
  /\ UNCHANGED <<role, todo, running, worker, started, joins, resources>>

\* DISCONNECT goes to the server, or to every peer.
SayGoodbye ==
  /\ pc = "goodbye"
  /\ goodbye' = TRUE
  /\ pc' = "closeTun"
  /\ UNCHANGED <<role, todo, running, threads, sock, tun, lock, key, tui>>

CloseTun ==
  /\ pc = "closeTun"
  /\ tun' = "closed"
  /\ pc' = "joinTimer"
  /\ UNCHANGED <<role, todo, running, threads, sock, lock, key, tui, goodbye>>

\* Faulty variant: the flag is not consulted.
FaultyJoinStarted(w, next) ==
  /\ Join(w)
  /\ pc' = next
  /\ UNCHANGED <<role, todo, running, quit, worker, started, resources>>

\* A thread that was created is joined before the main thread goes on to next.
JoinStarted(w, next) ==
  /\ IF started[w] THEN Join(w) ELSE UNCHANGED joins
  /\ pc' = next
  /\ UNCHANGED <<role, todo, running, quit, worker, started, resources>>

JoinTimer == pc = "joinTimer" /\ JoinStarted("timer", "joinTun")

\* Faulty variant: nobody waits for the reader.
FaultyJoinTun ==
  /\ pc = "joinTun"
  /\ pc' = "release"
  /\ UNCHANGED <<role, todo, running, threads, resources>>

JoinTun == pc = "joinTun" /\ JoinStarted("tun", "release")

\* tui_shutdown, sock_close, pthread_mutex_destroy
Release ==
  /\ pc = "release"
  /\ tui' = IF tui = "open" THEN "closed" ELSE tui
  /\ sock' = "closed"
  /\ lock' = "closed"
  /\ pc' = "wipe"
  /\ UNCHANGED <<role, todo, running, threads, tun, key, goodbye>>

\* tund_wipe_secret and the end of main
Wipe ==
  /\ pc = "wipe"
  /\ key' = "closed"
  /\ pc' = "exit"
  /\ UNCHANGED <<role, todo, running, threads, sock, tun, lock, tui, goodbye>>
-----------------------------------------------------------------------------
(* The threads *)

\* The loop condition of either thread
WorkerTest(w) ==
  /\ worker[w] = "test"
  /\ worker' = [worker EXCEPT ![w] = IF running /\ ~quit[w] THEN "busy" ELSE "ended"]
  /\ UNCHANGED <<role, pc, todo, running, quit, started, joins, resources>>

\* One turn of the loop: a second's sleep or a read of the device, and what
\* follows from it, which uses the socket, the lock and the key.
WorkerTurn(w) ==
  /\ worker[w] = "busy"
  /\ worker' = [worker EXCEPT ![w] = "test"]
  /\ UNCHANGED <<role, pc, todo, running, quit, started, joins, resources>>

\* client_keepalive_thread: the server has timed out.
ServerTimedOut ==
  /\ role = "client" /\ worker["timer"] = "busy"
  /\ worker' = [worker EXCEPT !["timer"] = "ended"]
  /\ running' = FALSE
  /\ UNCHANGED <<role, pc, todo, quit, started, joins, resources>>

\* signal_handler and stdin_control_thread, once they are installed
RequestStop ==
  /\ running
  /\ pc \notin {"prepare", "exit"}
  /\ running' = FALSE
  /\ UNCHANGED <<role, pc, todo, threads, resources>>

Run == StartTimer \/ StartTun \/ Undo \/ LoopTest \/ Poll \/ ServerDisconnects

Shutdown == RaiseQuit \/ SayGoodbye \/ CloseTun \/ JoinTimer \/ JoinTun \/ Release

Main ==
  \/ Prepare \/ InitStep \/ ServerInitFails \/ ClientInitFails
  \/ Run
  \/ Shutdown
  \/ Wipe

Worker(w) == WorkerTest(w) \/ WorkerTurn(w)

Next ==
  \/ Main
  \/ \E w \in Workers : Worker(w)
  \/ ServerTimedOut
  \/ RequestStop

\* Every thread is scheduled, and each of its steps takes bounded time.
Fairness == WF_vars(Main) /\ \A w \in Workers : WF_vars(Worker(w))

Spec == Init /\ [][Next]_vars /\ Fairness
-----------------------------------------------------------------------------
TypeOK ==
  /\ role \in {"server", "client"}
  /\ todo \in Seq(StepNames)
  /\ running \in BOOLEAN
  /\ quit \in [Workers -> BOOLEAN]
  /\ started \in [Workers -> BOOLEAN]
  /\ worker \in [Workers -> {"none", "test", "busy", "ended"}]
  /\ joins \in [Workers -> 0 .. 1]
  /\ sock \in States /\ tun \in States /\ lock \in States
  /\ key \in States /\ tui \in States

\* A thread at work finds the socket open, the lock initialised and the key in
\* place, however the run ends: shutdown waits for both before it lets go.
InUseIsOpen ==
  \A w \in Workers :
    worker[w] \in {"test", "busy"} => /\ sock = "open"
                                      /\ lock = "open"
                                      /\ key = "open"

\* pthread_join is called once at most for a thread, and only for one that was
\* created: server_run may have joined the timer itself, and says so by
\* resetting timeout_started.
JoinedOnce ==
  \A w \in Workers : joins[w] <= (IF worker[w] = "none" THEN 0 ELSE 1)

\* A process that ends leaves nothing behind: no open socket or device, no
\* thread that was not joined, no key, no altered terminal.
NothingLeft ==
  pc = "exit" =>
    /\ "open" \notin {sock, tun, key, tui}
    /\ \A w \in Workers : worker[w] # "none" => joins[w] = 1

\* What is open when the steps left to server_init or client_init are these
Progress ==
  {<<"server", ServerSteps, "none", "none">>,
   <<"server", <<"tun", "ip", "mtu">>, "open", "none">>,
   <<"server", <<"ip", "mtu">>, "open", "open">>,
   <<"server", <<"mtu">>, "open", "open">>,
   <<"client", ClientSteps, "none", "none">>,
   <<"client", <<"socket", "register", "tun", "ip", "mtu">>, "none", "none">>,
   <<"client", <<"register", "tun", "ip", "mtu">>, "open", "none">>,
   <<"client", <<"tun", "ip", "mtu">>, "open", "none">>,
   <<"client", <<"ip", "mtu">>, "open", "open">>,
   <<"client", <<"mtu">>, "open", "open">>}

Before == {"prepare", "init"}
Joining == {"joinTimer", "joinTun", "release"}
Over == {"wipe", "exit"}
Pcs == Before \cup {"startTimer", "startTun", "undo", "loop", "poll", "shutdown",
                    "goodbye", "closeTun"} \cup Joining \cup Over

\* Where the main thread is when the shutdown is done with a thread
Past(w) == Over \cup {"release"} \cup (IF w = "timer" THEN {"joinTun"} ELSE {})

\* A thread exists from its creation on.  It is marked as started until it is
\* joined early, and joined in its turn otherwise; then it has ended.
ThreadInv(w) ==
  /\ worker[w] = "none" => ~started[w] /\ joins[w] = 0
  /\ joins[w] = 1 => worker[w] = "ended"
  /\ worker[w] # "none" /\ ~started[w] => joins[w] = 1
  /\ started[w] => joins[w] = IF pc \in Past(w) THEN 1 ELSE 0
  /\ pc \in Before \cup {"startTimer"} => worker[w] = "none"
  /\ pc \in {"startTun", "undo"} => (started[w] <=> w = "timer")
  /\ pc = "startTun" => (worker[w] = "none" <=> w = "tun")

\* What is open at each point of the main thread, and what the threads are
IInv ==
  /\ TypeOK
  /\ pc \in Pcs
  /\ pc = "prepare" => sock = "none" /\ tun = "none"
  /\ pc \in Before => <<role, todo, sock, tun>> \in Progress
  /\ pc \notin Before \cup Over => sock = "open"
  /\ pc \notin Over \cup {"prepare"} => lock = "open"
  /\ key = IF pc = "exit" THEN "closed" ELSE "open"
  /\ pc \in Joining \cup Over => tun # "open"
  /\ pc \in Over => sock # "open" /\ tui # "open"
  /\ pc \in Before \cup {"startTimer", "startTun", "undo"} => tui = "none"
  /\ \A w \in Workers : ThreadInv(w)

\* A process that was told to stop, or that has left its loop, ends; one that
\* had got as far as running says goodbye first.
StopEndsProcess ==
  (~running \/ pc = "shutdown") ~> (pc = "exit" /\ (started["tun"] => goodbye))
=============================================================================
