---------------------------- MODULE ProcessProofs ---------------------------
(***************************************************************************)
(* The process around the protocol, for any number of slots, threads and   *)
(* steps: the ring of recent events, the threads and resources of a run,   *)
(* the launcher of the Flutter application and the startup of the program. *)
(***************************************************************************)
EXTENDS EventRing, Lifecycle, Launcher, Startup, FiniteSetTheorems,
        SequenceTheorems, TLAPS
-----------------------------------------------------------------------------
(* The ring implements the list of recent events. *)

\* What a thread may be about to do: a message it holds passed g_log_level.
Pending ==
  \A t \in Loggers :
    logger[t][1] = "ring" =>
      logger[t][2] \in Levels /\ logger[t][3] \in Lengths /\ logger[t][2] >= LogLevel

\* start and count describe an arc of the ring; Pending is why what
\* tui_add_event stores is a message of that arc.
RingInv ==
  /\ events = [i \in Slots |-> events[i]]
  /\ start \in Slots
  /\ count \in 0 .. MaxEvents
  /\ logger = [t \in Loggers |-> logger[t]]
  /\ Pending

\* An index that has gone at most once around the ring
Wrap(x) == IF x < MaxEvents THEN x ELSE x - MaxEvents

\* An index that has gone once around the ring comes back to its start: the
\* remainder in tui_add_event and tui_render_events.
LEMMA Around ==
  ASSUME NEW x \in 0 .. 2 * MaxEvents - 1
  PROVE  x % MaxEvents = Wrap(x) /\ Wrap(x) \in Slots
  <1> USE DEF Wrap, Slots
  <1>1. MaxEvents \in Nat \ {0}
    BY RingAssumption
  <1>2. CASE x < MaxEvents
    BY <1>1, <1>2
  <1>3. CASE x >= MaxEvents
    BY <1>1, <1>3
  <1> QED
    BY <1>1, <1>2, <1>3

\* The slots are empty and no thread logs when the program starts.
LEMMA RingInvInit == RingInit => RingInv
  <1> SUFFICES ASSUME RingInit PROVE RingInv
    OBVIOUS
  <1>1. start \in Slots /\ count \in 0 .. MaxEvents
    BY RingAssumption DEF RingInit, Slots
  <1>2. Pending
    <2>1. <<"quiet">>[1] # "ring"
      OBVIOUS
    <2> QED
      BY <2>1 DEF RingInit, Pending, Quiet
  <1> QED
    BY <1>1, <1>2 DEF RingInit, RingInv

\* Where tui_add_event writes is a slot, and start and count stay in range.
LEMMA SlotInRange ==
  ASSUME start \in Slots, count \in 0 .. MaxEvents
  PROVE  /\ Slot.idx \in Slots
         /\ Slot.start \in Slots
         /\ Slot.count \in 0 .. MaxEvents
  <1>1. MaxEvents \in Nat \ {0}
    BY RingAssumption
  <1>2. CASE count = MaxEvents
    <2>1. (start + 1) % MaxEvents \in Slots
      BY <1>1, Around DEF Slots
    <2> QED
      BY <1>2, <2>1 DEF Slot
  <1>3. CASE count # MaxEvents
    <2>1. (start + count) % MaxEvents \in Slots
      BY SMTT(60), <1>1, Around DEF Slots
    <2> QED
      BY <1>1, <1>3, <2>1 DEF Slot
  <1> QED
    BY <1>2, <1>3

\* Every step of the interface and of the threads that log keeps the ring in
\* range and the pending messages above g_log_level.
LEMMA RingInvStep == RingInv /\ [RingNext]_ringVars => RingInv'
  <1> SUFFICES ASSUME RingInv, [RingNext]_ringVars PROVE RingInv'
    OBVIOUS
  <1> USE DEF RingInv
  <1>1. CASE tui_events_start
    BY <1>1, RingAssumption DEF tui_events_start, Slots, Pending
  <1>2. CASE tui_events_stop
    BY <1>2 DEF tui_events_stop, Pending
  <1>3. CASE tui_render_events
    BY <1>3 DEF tui_render_events, Pending
  <1>4. ASSUME NEW t \in Loggers, log_msg(t) PROVE RingInv'
    <2>1. PICK l \in Levels, n \in Lengths :
            /\ l >= LogLevel
            /\ logger' = [logger EXCEPT ![t] = <<IF active THEN "ring" ELSE "stderr", l, n>>]
      BY <1>4 DEF log_msg
    <2>2. Pending'
      BY <2>1 DEF Pending
    <2>3. logger' = [u \in Loggers |-> logger'[u]]
      BY <2>1
    <2> QED
      BY SMTT(60), <1>4, <2>2, <2>3 DEF log_msg
  <1>5. ASSUME NEW t \in Loggers, tui_add_event(t) PROVE RingInv'
    <2>1. start' \in Slots /\ count' \in 0 .. MaxEvents
      BY SMTT(60), <1>5, SlotInRange DEF tui_add_event
    <2>2. events' = [i \in Slots |-> events'[i]]
      BY <1>5 DEF tui_add_event
    <2>3. logger' = [logger EXCEPT ![t] = <<"quiet">>]
      BY <1>5 DEF tui_add_event, Quiet
    <2>4. Pending'
      BY <2>3 DEF Pending
    <2>5. logger' = [u \in Loggers |-> logger'[u]]
      BY <2>3
    <2> QED
      BY SMTT(60), <2>1, <2>2, <2>4, <2>5
  <1>6. ASSUME NEW t \in Loggers, WriteLine(t) PROVE RingInv'
    <2>1. logger' = [logger EXCEPT ![t] = <<"quiet">>]
      BY SMTT(60), <1>6 DEF WriteLine, Quiet
    <2>2. Pending'
      BY <2>1 DEF Pending
    <2>3. logger' = [u \in Loggers |-> logger'[u]]
      BY <2>1
    <2> QED
      BY SMTT(60), <1>6, <2>2, <2>3 DEF WriteLine
  <1>7. CASE UNCHANGED ringVars
    BY <1>7 DEF ringVars, Pending
  <1> QED
    BY SMTT(60), <1>1, <1>2, <1>3, <1>4, <1>5, <1>6, <1>7 DEF RingNext

\* What tui_render_events copies, position by position: the remainder is taken
\* at most once around.
LEMMA ContentsAt ==
  ASSUME RingInv, NEW i \in 1 .. count
  PROVE  Wrap(start + i - 1) \in Slots /\ Contents[i] = events[Wrap(start + i - 1)]
  <1>1. MaxEvents \in Nat \ {0}
    BY RingAssumption
  <1>2. start + i - 1 \in 0 .. 2 * MaxEvents - 1
    BY SMTT(60), <1>1 DEF RingInv, Slots
  <1>3. Contents[i] = events[(start + i - 1) % MaxEvents]
    BY DEF Contents
  <1> QED
    BY <1>2, <1>3, Around

\* The copy is a sequence as long as count says.
LEMMA ContentsIsSeq ==
  ASSUME RingInv, NEW e
  PROVE  Contents \in Seq({events[i] : i \in Slots} \cup {e}) /\ Len(Contents) = count
  <1>1. MaxEvents \in Nat \ {0} /\ count \in Nat
    BY RingAssumption DEF RingInv
  <1>2. \A i \in 1 .. count : Contents[i] \in {events[j] : j \in Slots}
    <2> TAKE i \in 1 .. count
    <2> QED
      BY ContentsAt
  <1> QED
    BY <1>1, <1>2 DEF Contents

\* What tui_add_event leaves in the ring is the list with the message at its
\* end, and without its first element if the ring was full, wherever start is.
LEMMA AddKeeps ==
  ASSUME RingInv, RingInv', NEW e,
         events' = [events EXCEPT ![Slot.idx] = e],
         start' = Slot.start, count' = Slot.count
  PROVE  Contents' = Recent!Keep(Append(Contents, e))
  <1> DEFINE A == Append(Contents, e)
  <1>1. MaxEvents \in Nat \ {0} /\ count \in 0 .. MaxEvents /\ start \in 0 .. MaxEvents - 1
    BY RingAssumption DEF RingInv, Slots
  <1>2. /\ A = [i \in 1 .. count + 1 |-> IF i = count + 1 THEN e ELSE Contents[i]]
        /\ Len(A) = count + 1
    <2> DEFINE S == {events[i] : i \in Slots} \cup {e}
    <2>1. Contents \in Seq(S) /\ Len(Contents) = count
      BY Zenon, ContentsIsSeq
    <2>2. e \in S
      OBVIOUS
    <2> HIDE DEF S
    <2>3. /\ A \in Seq(S)
          /\ Len(A) = count + 1
          /\ \A i \in 1 .. count : A[i] = Contents[i]
          /\ A[count + 1] = e
      BY <2>1, <2>2, AppendProperties
    <2> HIDE DEF A
    <2>4. A = [i \in 1 .. count + 1 |-> A[i]]
      BY <1>1, <2>3
    <2>5. \A i \in 1 .. count + 1 : i = count + 1 \/ i \in 1 .. count
      BY <1>1
    <2>6. \A i \in 1 .. count + 1 : A[i] = IF i = count + 1 THEN e ELSE Contents[i]
      BY <2>3, <2>5
    <2> QED
      BY SMTT(60), <2>3, <2>4, <2>6
  <1> SUFFICES Contents' = Recent!Keep(A)
    OBVIOUS
  <1> HIDE DEF A
  <1>3. \A i \in 1 .. count : Contents[i] = events[Wrap(start + i - 1)]
    <2> TAKE i \in 1 .. count
    <2> QED
      BY ContentsAt
  <1>4. \A i \in 1 .. count' : (start' + i - 1) % MaxEvents = Wrap(start' + i - 1)
    <2> SUFFICES ASSUME NEW i \in 1 .. count'
                 PROVE  (start' + i - 1) % MaxEvents = Wrap(start' + i - 1)
      OBVIOUS
    <2>1. start' + i - 1 \in 0 .. 2 * MaxEvents - 1
      BY SMTT(60), <1>1 DEF RingInv, Slots
    <2> QED
      BY <2>1, Around
  <1>5. Contents' = [i \in 1 .. count' |-> events'[Wrap(start' + i - 1)]]
    BY <1>4 DEF Contents
  <1>6. \A j \in 0 .. MaxEvents - 1 : events'[j] = IF j = Slot.idx THEN e ELSE events[j]
    BY DEF RingInv, Slots
  <1>7. CASE count = MaxEvents
    <2>1. /\ Slot.idx = start
          /\ start' = Wrap(start + 1)
          /\ count' = count
      BY SMTT(60), <1>1, <1>7, Around DEF Slot, Slots
    <2>2. Recent!Keep(A) = SubSeq(A, 2, count + 1)
      BY SMTT(60), <1>1, <1>2, <1>7 DEF Recent!Keep
    <2>3. SubSeq(A, 2, count + 1) = [i \in 1 .. count |-> A[i + 1]]
      BY <1>1, <1>2
    <2>4. \A i \in 1 .. count : events'[Wrap(start' + i - 1)] = A[i + 1]
      <3> SUFFICES ASSUME NEW i \in 1 .. count
                   PROVE  events'[Wrap(start' + i - 1)] = A[i + 1]
        OBVIOUS
      <3>1. Wrap(start' + i - 1) \in 0 .. MaxEvents - 1
        BY SMTT(60), <1>1, <1>7, <2>1 DEF Wrap
      <3>2. CASE i = count
        <4>1. Wrap(start' + i - 1) = start
          BY SMTT(60), <1>1, <1>7, <2>1, <3>2 DEF Wrap
        <4> QED
          BY SMTT(60), <1>1, <1>2, <1>6, <2>1, <3>2, <4>1
      <3>3. CASE i < count
        <4>1. Wrap(start' + i - 1) = Wrap(start + (i + 1) - 1) /\ Wrap(start' + i - 1) # start
          BY SMTT(60), <1>1, <1>7, <2>1, <3>3 DEF Wrap
        <4>2. A[i + 1] = events[Wrap(start + (i + 1) - 1)]
          BY SMTT(60), <1>1, <1>2, <1>3, <3>3
        <4> QED
          BY SMTT(60), <1>6, <2>1, <3>1, <4>1, <4>2
      <3>4. i = count \/ i < count
        BY <1>1
      <3> QED
        BY <3>2, <3>3, <3>4
    <2> QED
      BY Zenon, <1>5, <2>1, <2>2, <2>3, <2>4
  <1>8. CASE count < MaxEvents
    <2>1. /\ Slot.idx = Wrap(start + count)
          /\ start' = start
          /\ count' = count + 1
      BY <1>1, <1>8, Around DEF Slot, Slots
    <2>2. Recent!Keep(A) = A
      BY SMTT(60), <1>1, <1>2, <1>8 DEF Recent!Keep
    <2>3. \A i \in 1 .. count + 1 : events'[Wrap(start + i - 1)] = A[i]
      <3> SUFFICES ASSUME NEW i \in 1 .. count + 1
                   PROVE  events'[Wrap(start + i - 1)] = A[i]
        OBVIOUS
      <3>1. Wrap(start + i - 1) \in 0 .. MaxEvents - 1
        BY SMTT(60), <1>1, <1>8 DEF Wrap
      <3>2. CASE i = count + 1
        <4>1. start + i - 1 = start + count
          BY SMTT(60), <1>1, <3>2
        <4> QED
          BY SMTT(60), <1>1, <1>2, <1>6, <2>1, <3>1, <3>2, <4>1
      <3>3. CASE i <= count
        <4>1. Wrap(start + i - 1) # Wrap(start + count)
          BY SMTT(60), <1>1, <1>8, <3>3 DEF Wrap
        <4> QED
          BY SMTT(60), <1>1, <1>2, <1>3, <1>6, <2>1, <3>1, <3>3, <4>1
      <3>4. i = count + 1 \/ i <= count
        BY <1>1
      <3> QED
        BY SMTT(60), <3>2, <3>3, <3>4
    <2> QED
      BY Zenon, <1>2, <1>5, <2>1, <2>2, <2>3
  <1> QED
    BY SMTT(60), <1>1, <1>7, <1>8

\* Every step of the ring is a step of the list, or leaves it alone.
LEMMA StepSimulates ==
  RingInv /\ RingInv' /\ [RingNext]_ringVars => [Recent!RecentNext]_Contents
  <1> SUFFICES ASSUME RingInv, RingInv', [RingNext]_ringVars
               PROVE  Recent!RecentNext \/ Contents' = Contents
    OBVIOUS
  <1>1. CASE tui_events_start
    <2>1. Contents' = <<>>
      BY <1>1 DEF tui_events_start, Contents
    <2> QED
      BY <2>1 DEF Recent!RecentNext, Recent!Clear
  <1>2. CASE tui_events_stop
    BY <1>2 DEF tui_events_stop, Contents
  <1>3. CASE tui_render_events
    BY <1>3 DEF tui_render_events, Contents
  <1>4. ASSUME NEW t \in Loggers, log_msg(t) PROVE Contents' = Contents
    BY <1>4 DEF log_msg, Contents
  <1>5. ASSUME NEW t \in Loggers, tui_add_event(t) PROVE Recent!RecentNext
    <2> DEFINE e == <<logger[t][2], Stored(logger[t][3])>>
    <2>1. e \in Messages
      BY <1>5, RingAssumption DEF tui_add_event, RingInv, Pending, Stored
    <2>2. Contents' = Recent!Keep(Append(Contents, e))
      <3>1. /\ events' = [events EXCEPT ![Slot.idx] = e]
            /\ start' = Slot.start
            /\ count' = Slot.count
        BY <1>5 DEF tui_add_event
      <3> HIDE DEF e
      <3> QED
        BY Zenon, <3>1, AddKeeps
    <2> QED
      BY SMTT(60), <2>1, <2>2 DEF Recent!RecentNext, Recent!Log
  <1>6. ASSUME NEW t \in Loggers, WriteLine(t) PROVE Contents' = Contents
    BY SMTT(60), <1>6 DEF WriteLine, Contents
  <1>7. CASE UNCHANGED ringVars
    BY <1>7 DEF ringVars, Contents
  <1> QED
    BY SMTT(60), <1>1, <1>2, <1>3, <1>4, <1>5, <1>6, <1>7 DEF RingNext

\* The event list of the terminal interface is the last MaxEvents events of the
\* session, oldest first, whatever the size of the ring and however many
\* threads call log_msg while the main thread starts, draws and stops it.
THEOREM RingImplementsRecent == RingSpec => ImplementsRecent
  <1>1. RingInit => Recent!RecentInit
    BY DEF RingInit, Recent!RecentInit, Contents
  <1> QED
    BY <1>1, RingInvInit, RingInvStep, StepSimulates, PTL
       DEF RingSpec, ImplementsRecent, Recent!RecentSpec
-----------------------------------------------------------------------------
(* The process: what a thread uses is open, every thread is joined once,   *)
(* and nothing is left behind, however the start and the run go.           *)

\* The steps are a sequence of names.  Each opens what it is there for, and
\* what is left is one step less; where one fails, it is known what is open.
LEMMA StepsProgress ==
  ASSUME NEW r, NEW left, NEW so, NEW tu, <<r, left, so, tu>> \in Progress
  PROVE  /\ left \in Seq(StepNames) /\ Tail(left) \in Seq(StepNames)
         /\ so \in States /\ tu \in States
         /\ LET so2 == IF Head(left) = "socket" THEN "open" ELSE so
                tu2 == IF Head(left) = "tun" THEN "open" ELSE tu
            IN  IF Tail(left) = <<>> THEN so2 = "open" /\ tu2 = "open"
                ELSE <<r, Tail(left), so2, tu2>> \in Progress
         /\ r = "server" /\ Head(left) = "socket" => so # "open"
         /\ r = "client" /\ Head(left) \in {"resolve", "socket"} => so # "open"
         /\ Head(left) \notin {"ip", "mtu"} => tu # "open"
  <1>1. CASE <<r, left, so, tu>> = <<"server", <<"socket", "tun", "ip", "mtu">>, "none", "none">>
    <2>1. /\ left = <<"socket", "tun", "ip", "mtu">> /\ so = "none" /\ tu = "none" /\ r = "server"
          /\ Head(left) = "socket" /\ Tail(left) = <<"tun", "ip", "mtu">> /\ Tail(left) # <<>>
          /\ left \in Seq(StepNames) /\ Tail(left) \in Seq(StepNames)
      BY <1>1 DEF StepNames
    <2> QED
      BY Zenon, <2>1 DEF Progress, States
  <1>2. CASE <<r, left, so, tu>> = <<"server", <<"tun", "ip", "mtu">>, "open", "none">>
    <2>1. /\ left = <<"tun", "ip", "mtu">> /\ so = "open" /\ tu = "none" /\ r = "server"
          /\ Head(left) = "tun" /\ Tail(left) = <<"ip", "mtu">> /\ Tail(left) # <<>>
          /\ left \in Seq(StepNames) /\ Tail(left) \in Seq(StepNames)
      BY <1>2 DEF StepNames
    <2> QED
      BY Zenon, <2>1 DEF Progress, States
  <1>3. CASE <<r, left, so, tu>> = <<"server", <<"ip", "mtu">>, "open", "open">>
    <2>1. /\ left = <<"ip", "mtu">> /\ so = "open" /\ tu = "open" /\ r = "server"
          /\ Head(left) = "ip" /\ Tail(left) = <<"mtu">> /\ Tail(left) # <<>>
          /\ left \in Seq(StepNames) /\ Tail(left) \in Seq(StepNames)
      BY <1>3 DEF StepNames
    <2> QED
      BY Zenon, <2>1 DEF Progress, States
  <1>4. CASE <<r, left, so, tu>> = <<"server", <<"mtu">>, "open", "open">>
    <2>1. /\ left = <<"mtu">> /\ so = "open" /\ tu = "open" /\ r = "server"
          /\ Head(left) = "mtu" /\ Tail(left) = <<>>
          /\ left \in Seq(StepNames) /\ Tail(left) \in Seq(StepNames)
      BY <1>4 DEF StepNames
    <2> QED
      BY Zenon, <2>1 DEF Progress, States
  <1>5. CASE <<r, left, so, tu>> = <<"client", <<"resolve", "socket", "register", "tun", "ip", "mtu">>, "none", "none">>
    <2>1. /\ left = <<"resolve", "socket", "register", "tun", "ip", "mtu">> /\ so = "none" /\ tu = "none" /\ r = "client"
          /\ Head(left) = "resolve" /\ Tail(left) = <<"socket", "register", "tun", "ip", "mtu">> /\ Tail(left) # <<>>
          /\ left \in Seq(StepNames) /\ Tail(left) \in Seq(StepNames)
      BY <1>5 DEF StepNames
    <2> QED
      BY Zenon, <2>1 DEF Progress, States
  <1>6. CASE <<r, left, so, tu>> = <<"client", <<"socket", "register", "tun", "ip", "mtu">>, "none", "none">>
    <2>1. /\ left = <<"socket", "register", "tun", "ip", "mtu">> /\ so = "none" /\ tu = "none" /\ r = "client"
          /\ Head(left) = "socket" /\ Tail(left) = <<"register", "tun", "ip", "mtu">> /\ Tail(left) # <<>>
          /\ left \in Seq(StepNames) /\ Tail(left) \in Seq(StepNames)
      BY <1>6 DEF StepNames
    <2> QED
      BY Zenon, <2>1 DEF Progress, States
  <1>7. CASE <<r, left, so, tu>> = <<"client", <<"register", "tun", "ip", "mtu">>, "open", "none">>
    <2>1. /\ left = <<"register", "tun", "ip", "mtu">> /\ so = "open" /\ tu = "none" /\ r = "client"
          /\ Head(left) = "register" /\ Tail(left) = <<"tun", "ip", "mtu">> /\ Tail(left) # <<>>
          /\ left \in Seq(StepNames) /\ Tail(left) \in Seq(StepNames)
      BY <1>7 DEF StepNames
    <2> QED
      BY Zenon, <2>1 DEF Progress, States
  <1>8. CASE <<r, left, so, tu>> = <<"client", <<"tun", "ip", "mtu">>, "open", "none">>
    <2>1. /\ left = <<"tun", "ip", "mtu">> /\ so = "open" /\ tu = "none" /\ r = "client"
          /\ Head(left) = "tun" /\ Tail(left) = <<"ip", "mtu">> /\ Tail(left) # <<>>
          /\ left \in Seq(StepNames) /\ Tail(left) \in Seq(StepNames)
      BY <1>8 DEF StepNames
    <2> QED
      BY Zenon, <2>1 DEF Progress, States
  <1>9. CASE <<r, left, so, tu>> = <<"client", <<"ip", "mtu">>, "open", "open">>
    <2>1. /\ left = <<"ip", "mtu">> /\ so = "open" /\ tu = "open" /\ r = "client"
          /\ Head(left) = "ip" /\ Tail(left) = <<"mtu">> /\ Tail(left) # <<>>
          /\ left \in Seq(StepNames) /\ Tail(left) \in Seq(StepNames)
      BY <1>9 DEF StepNames
    <2> QED
      BY Zenon, <2>1 DEF Progress, States
  <1>10. CASE <<r, left, so, tu>> = <<"client", <<"mtu">>, "open", "open">>
    <2>1. /\ left = <<"mtu">> /\ so = "open" /\ tu = "open" /\ r = "client"
          /\ Head(left) = "mtu" /\ Tail(left) = <<>>
          /\ left \in Seq(StepNames) /\ Tail(left) \in Seq(StepNames)
      BY SMTT(60), <1>10 DEF StepNames
    <2> QED
      BY Zenon, <2>1 DEF Progress, States
  <1> QED
    BY ZenonT(60), <1>1, <1>2, <1>3, <1>4, <1>5, <1>6, <1>7, <1>8, <1>9, <1>10 DEF Progress, ServerSteps, ClientSteps
\* main begins with the invariant: server_init or client_init has every step
\* to do, and nothing is open but the key.
LEMMA LifeInit == Init => IInv
  <1> SUFFICES ASSUME Init PROVE IInv
    BY Zenon
  <1>1. pc \in Pcs /\ <<role, todo, sock, tun>> \in Progress
    BY DEF Init, Pcs, Before, Progress
  <1>2. todo \in Seq(StepNames)
    BY Zenon, <1>1, StepsProgress
  <1>3. TypeOK
    BY SMTT(60), <1>2 DEF Init, TypeOK, States
  <1>4. \A w \in Workers : ThreadInv(w)
    BY SMTT(60) DEF Init, ThreadInv, Past, Over
  <1> QED
    BY SMTT(60), <1>1, <1>3, <1>4 DEF Init, IInv, Before, Over, Joining

\* server_init and client_init, as far as they get: what they open is what they
\* have done, and a failure closes it again.
LEMMA LifeStarting ==
  IInv /\ (Prepare \/ InitStep \/ ServerInitFails \/ ClientInitFails) => IInv'
  <1> SUFFICES ASSUME IInv, Prepare \/ InitStep \/ ServerInitFails \/ ClientInitFails
               PROVE  IInv'
    BY Zenon
  <1>1. pc \in Before
    BY Zenon DEF Prepare, InitStep, ServerInitFails, ClientInitFails, Before
  <1>2. <<role, todo, sock, tun>> \in Progress
    BY Zenon, <1>1 DEF IInv
  <1> DEFINE so2 == IF Head(todo) = "socket" THEN "open" ELSE sock
             tu2 == IF Head(todo) = "tun" THEN "open" ELSE tun
  <1>3. /\ todo \in Seq(StepNames) /\ Tail(todo) \in Seq(StepNames)
        /\ sock \in States /\ tun \in States
        /\ IF Tail(todo) = <<>> THEN so2 = "open" /\ tu2 = "open"
           ELSE <<role, Tail(todo), so2, tu2>> \in Progress
        /\ role = "server" /\ Head(todo) = "socket" => sock # "open"
        /\ role = "client" /\ Head(todo) \in {"resolve", "socket"} => sock # "open"
        /\ Head(todo) \notin {"ip", "mtu"} => tun # "open"
    BY Zenon, <1>2, StepsProgress
  <1>4. /\ todo' \in Seq(StepNames) /\ sock' \in States /\ tun' \in States
        /\ lock' \in States
        /\ pc' \in Before => <<role', todo', sock', tun'>> \in Progress
        /\ pc' = "startTimer" => sock' = "open"
        /\ pc' = "wipe" => sock' # "open" /\ tun' # "open"
        /\ pc' \in {"init", "startTimer"} => lock' = "open"
        /\ pc' \in {"init", "startTimer", "wipe"}
        /\ UNCHANGED <<role, running, quit, started, worker, joins, key, tui>>
    <2>1. CASE Prepare
      <3>1. /\ UNCHANGED <<role, todo, running, quit, started, worker, joins, sock, tun, key, tui>>
            /\ pc = "prepare"
            /\ (pc' = "init" /\ lock' = "open") \/ (pc' = "wipe" /\ lock' = lock)
        BY Zenon, <2>1 DEF Prepare, threads
      <3>2. lock \in States /\ "open" \in States
        BY Zenon DEF IInv, TypeOK, States
      <3>3. sock # "open" /\ tun # "open"
        BY ZenonT(60), <3>1 DEF IInv
      <3> QED
        BY ZenonT(60), <1>2, <1>3, <3>1, <3>2, <3>3 DEF Before
    <2>2. CASE InitStep
      BY SMTT(60), <1>3, <2>2 DEF InitStep, IInv, TypeOK, States, Before, Over, threads
    <2>3. CASE ServerInitFails
      BY SMTT(60), <1>3, <2>3 DEF ServerInitFails, IInv, TypeOK, States, Before, threads
    <2>4. CASE ClientInitFails
      BY SMTT(60), <1>3, <2>4 DEF ClientInitFails, IInv, TypeOK, States, Before, threads
    <2> QED
      BY ZenonT(60), <2>1, <2>2, <2>3, <2>4
  <1>5. TypeOK'
    BY ZenonT(60), <1>4 DEF IInv, TypeOK
  <1>6. ASSUME NEW w \in Workers PROVE ThreadInv(w)'
    BY SMTT(60), <1>1, <1>4 DEF IInv, ThreadInv, Before, Past, Over
  <1> QED
    BY SMTT(60), <1>1, <1>4, <1>5, <1>6 DEF IInv, Before, Joining, Over, Pcs

\* server_run and client_run: the threads are created one after the other, and
\* the first is joined at once if the second cannot be.
LEMMA LifeRun == IInv /\ Run => IInv'
  <1> SUFFICES ASSUME IInv, Run PROVE IInv'
    BY Zenon
  <1> USE DEF threads, resources
  <1>1. CASE StartTimer
    <2>1. TypeOK'
      BY ZenonT(60), <1>1 DEF IInv, TypeOK, StartTimer, Workers
    <2>2. ASSUME NEW w \in Workers PROVE ThreadInv(w)'
      BY SMTT(60), <1>1 DEF IInv, TypeOK, ThreadInv, StartTimer, Before, Past, Over, Workers
    <2> QED
      BY SMTT(60), <1>1, <2>1, <2>2 DEF IInv, StartTimer, Before, Joining, Over, Pcs
  <1>2. CASE StartTun
    <2>1. TypeOK'
      BY ZenonT(60), <1>2 DEF IInv, TypeOK, StartTun, Workers, States
    <2>2. ASSUME NEW w \in Workers PROVE ThreadInv(w)'
      BY SMT, <1>2 DEF IInv, TypeOK, ThreadInv, StartTun, Before, Past, Over, Workers
    <2> QED
      BY SMTT(60), <1>2, <2>1, <2>2 DEF IInv, StartTun, Before, Joining, Over, Pcs
  <1>3. CASE Undo
    <2>1. TypeOK'
      <3>1. joins' \in [Workers -> 0 .. 1]
        BY SMTT(60), <1>3 DEF IInv, TypeOK, ThreadInv, Undo, Join, Workers, Past, Over
      <3> QED
        BY ZenonT(60), <1>3, <3>1 DEF IInv, TypeOK, Undo, Workers
    <2>2. ASSUME NEW w \in Workers PROVE ThreadInv(w)'
      BY SMTT(60), <1>3 DEF IInv, TypeOK, ThreadInv, Undo, Join, Before, Past, Over, Workers
    <2> QED
      BY SMT, <1>3, <2>1, <2>2 DEF IInv, Undo, Before, Joining, Over, Pcs
  <1>4. CASE LoopTest \/ Poll \/ ServerDisconnects
    <2>1. TypeOK'
      BY ZenonT(60), <1>4 DEF IInv, TypeOK, LoopTest, Poll, ServerDisconnects
    <2>2. ASSUME NEW w \in Workers PROVE ThreadInv(w)'
      BY SMTT(60), <1>4 DEF IInv, ThreadInv, LoopTest, Poll, ServerDisconnects, Before, Past, Over
    <2> QED
      BY SMTT(60), <1>4, <2>1, <2>2
         DEF IInv, LoopTest, Poll, ServerDisconnects, Before, Joining, Over, Pcs
  <1> QED
    BY Zenon, <1>1, <1>2, <1>3, <1>4 DEF Run

\* server_shutdown and client_shutdown: both threads are joined before anything
\* they use is released.
LEMMA LifeShutdown == IInv /\ (Shutdown \/ Wipe) => IInv'
  <1> SUFFICES ASSUME IInv, Shutdown \/ Wipe PROVE IInv'
    BY ZenonT(60)
  <1> USE DEF threads, resources
  <1>1. CASE RaiseQuit \/ SayGoodbye \/ CloseTun
    <2>1. TypeOK'
      BY ZenonT(60), <1>1 DEF IInv, TypeOK, RaiseQuit, SayGoodbye, CloseTun, States
    <2>2. ASSUME NEW w \in Workers PROVE ThreadInv(w)'
      BY SMTT(60), <1>1 DEF IInv, ThreadInv, RaiseQuit, SayGoodbye, CloseTun, Before, Past, Over
    <2> QED
      BY SMTT(60), <1>1, <2>1, <2>2
         DEF IInv, RaiseQuit, SayGoodbye, CloseTun, Before, Joining, Over, Pcs
  <1>2. CASE JoinTimer
    <2>1. TypeOK'
      BY SMTT(60), <1>2 DEF IInv, TypeOK, ThreadInv, JoinTimer, JoinStarted, Join, Workers, Past, Over
    <2>2. ASSUME NEW w \in Workers PROVE ThreadInv(w)'
      BY SMTT(60), <1>2
         DEF IInv, TypeOK, ThreadInv, JoinTimer, JoinStarted, Join, Before, Past, Over, Workers
    <2> QED
      BY SMTT(60), <1>2, <2>1, <2>2 DEF IInv, JoinTimer, JoinStarted, Before, Joining, Over, Pcs
  <1>3. CASE JoinTun
    <2>1. TypeOK'
      BY SMTT(60), <1>3 DEF IInv, TypeOK, ThreadInv, JoinTun, JoinStarted, Join, Workers, Past, Over
    <2>2. ASSUME NEW w \in Workers PROVE ThreadInv(w)'
      BY SMTT(60), <1>3
         DEF IInv, TypeOK, ThreadInv, JoinTun, JoinStarted, Join, Before, Past, Over, Workers
    <2> QED
      BY SMTT(60), <1>3, <2>1, <2>2 DEF IInv, JoinTun, JoinStarted, Before, Joining, Over, Pcs
  <1>4. CASE Release \/ Wipe
    <2>1. TypeOK'
      BY ZenonT(60), <1>4 DEF IInv, TypeOK, Release, Wipe, States
    <2>2. ASSUME NEW w \in Workers PROVE ThreadInv(w)'
      BY SMTT(60), <1>4 DEF IInv, ThreadInv, Release, Wipe, Before, Past, Over
    <2> QED
      BY SMTT(60), <1>4, <2>1, <2>2 DEF IInv, Release, Wipe, Before, Joining, Over, Pcs
  <1> QED
    BY ZenonT(60), <1>1, <1>2, <1>3, <1>4 DEF Shutdown

\* The threads themselves, a signal and a line on stdin only end what runs.
LEMMA LifeOthers ==
  IInv /\ ((\E w \in Workers : Worker(w)) \/ ServerTimedOut \/ RequestStop) => IInv'
  <1> SUFFICES ASSUME IInv, (\E w \in Workers : Worker(w)) \/ ServerTimedOut \/ RequestStop
               PROVE  IInv'
    BY Zenon
  <1> USE DEF threads, resources
  <1>1. ASSUME NEW v \in Workers, Worker(v) \/ (ServerTimedOut /\ v = "timer")
        PROVE  IInv'
    <2>1. TypeOK'
      BY ZenonT(60), <1>1 DEF IInv, TypeOK, Worker, WorkerTest, WorkerTurn, ServerTimedOut, Workers
    <2>2. ASSUME NEW w \in Workers PROVE ThreadInv(w)'
      <3>1. /\ worker[v] # "none" /\ worker[v] # "ended"
            /\ worker' = [worker EXCEPT ![v] = worker'[v]] /\ worker'[v] # "none"
            /\ pc' = pc /\ started' = started /\ joins' = joins
        <4>1. worker \in [Workers -> {"none", "test", "busy", "ended"}]
          BY Zenon DEF IInv, TypeOK
        <4>2. CASE WorkerTest(v)
          BY SMTT(30), <4>1, <4>2 DEF WorkerTest
        <4>3. CASE WorkerTurn(v)
          BY SMTT(60), <4>1, <4>3 DEF WorkerTurn
        <4>4. CASE ServerTimedOut /\ v = "timer"
          BY SMTT(60), <4>1, <4>4 DEF ServerTimedOut
        <4> QED
          BY Zenon, <1>1, <4>2, <4>3, <4>4 DEF Worker
      <3>2. worker'[w] = IF w = v THEN worker'[v] ELSE worker[w]
        <4>1. worker \in [Workers -> {"none", "test", "busy", "ended"}]
          BY Zenon DEF IInv, TypeOK
        <4> QED
          BY ZenonT(60), <3>1, <4>1
      <3>3. ThreadInv(w)
        BY Zenon DEF IInv
      <3>4. /\ worker'[w] = "none" <=> worker[w] = "none"
            /\ worker[w] = "ended" => worker'[w] = "ended"
        BY Zenon, <3>1, <3>2
      <3> QED
        BY Zenon, <3>1, <3>3, <3>4 DEF ThreadInv, Past
    <2> QED
      BY ZenonT(60), <1>1, <2>1, <2>2 DEF IInv, Worker, WorkerTest, WorkerTurn, ServerTimedOut
  <1>2. CASE RequestStop
    BY Zenon, <1>2 DEF IInv, TypeOK, RequestStop, ThreadInv
  <1> QED
    BY Zenon, <1>1, <1>2 DEF Workers

\* A process always is where the invariant says.
THEOREM LifecycleInvariant == Spec => []IInv
  <1>1. IInv /\ [Next]_vars => IInv'
    <2> SUFFICES ASSUME IInv, [Next]_vars PROVE IInv'
      BY Zenon
    <2>1. CASE UNCHANGED vars
      BY ZenonT(60), <2>1 DEF IInv, TypeOK, ThreadInv, vars, threads, resources
    <2> QED
      BY ZenonT(60), <2>1, LifeStarting, LifeRun, LifeShutdown, LifeOthers DEF Next, Main
  <1> QED
    BY <1>1, LifeInit, PTL DEF Spec

\* server_shutdown and client_shutdown release nothing that a thread still uses.
THEOREM ThreadsFindResourcesOpen == Spec => []InUseIsOpen
  <1>1. IInv => InUseIsOpen
    BY SMTT(60) DEF IInv, TypeOK, ThreadInv, InUseIsOpen, Workers, Past, Before, Over
  <1> QED
    BY <1>1, LifecycleInvariant, PTL

\* pthread_join is called once at most for each thread, and for no other.
THEOREM ThreadsJoinedOnce == Spec => []JoinedOnce
  <1>1. IInv => JoinedOnce
    BY SMTT(60) DEF IInv, TypeOK, ThreadInv, JoinedOnce, Workers
  <1> QED
    BY <1>1, LifecycleInvariant, PTL

\* main leaves nothing behind on any of its ways out.
THEOREM ProcessLeavesNothing == Spec => []NothingLeft
  <1>1. IInv => NothingLeft
    BY SMT DEF IInv, TypeOK, ThreadInv, NothingLeft, Workers, Past, Over, Joining
  <1> QED
    BY <1>1, LifecycleInvariant, PTL
-----------------------------------------------------------------------------
(* The launcher: one child at a time, and a status that tells the truth,   *)
(* for any number of invocations of `start'.                               *)

\* The invocations are numbered from 1, and NoChild is none of them.
LEMMA IdsType == NoChild \notin Ids /\ Ids \subseteq Nat /\ NoChild \in Nat
  BY LauncherAssumption DEF NoChild, Ids

\* The states of a child
ChildStates == {"none", "up", "told", "signalled", "killed", "exited"}

\* process.kill changes the state of a child at most, with either signal.
LEMMA KilledType ==
  ASSUME LauncherTypeOK, NEW i \in Ids
  PROVE  /\ Killed(i) \in [Ids -> ChildStates]
         /\ Terminated(i) \subseteq [Ids -> ChildStates]
  <1>1. child \in [Ids -> ChildStates]
    BY Zenon DEF LauncherTypeOK, ChildStates
  <1>2. \A s \in {"signalled", "killed"} : [child EXCEPT ![i] = s] \in [Ids -> ChildStates]
    BY Zenon, <1>1 DEF ChildStates
  <1> QED
    BY Zenon, <1>1, <1>2 DEF Killed, Terminated

\* launcher.stop likewise, and it may set a timer.
LEMMA StopChildType ==
  ASSUME LauncherTypeOK, StopChild
  PROVE  /\ child' \in [Ids -> ChildStates]
         /\ timers' \subseteq Ids
  <1>1. CASE process = NoChild
    BY Zenon, <1>1 DEF LauncherTypeOK, StopChild, ChildStates
  <1>2. CASE process # NoChild
    <2>1. process \in Ids
      BY Zenon, <1>2 DEF LauncherTypeOK
    <2>2. Terminated(process) \subseteq [Ids -> ChildStates]
      BY Zenon, <2>1, KilledType
    <2>3. /\ child \in [Ids -> ChildStates]
          /\ [child EXCEPT ![process] = "told"] \in [Ids -> ChildStates]
      BY Zenon DEF LauncherTypeOK, ChildStates
    <2>4. timers \subseteq Ids
      BY Zenon DEF LauncherTypeOK
    <2> QED
      BY ZenonT(60), <1>2, <2>1, <2>2, <2>3, <2>4 DEF StopChild
  <1> QED
    BY Zenon, <1>1, <1>2

\* What the user does keeps every variable in its range.
LEMMA UserTypes ==
  LauncherTypeOK /\ (Start \/ Decline \/ Confirm \/ Stop \/ Dispose) => LauncherTypeOK'
  <1> SUFFICES ASSUME LauncherTypeOK, Start \/ Decline \/ Confirm \/ Stop \/ Dispose
               PROVE  LauncherTypeOK'
    BY Zenon
  <1>1. CASE Start \/ Decline
    BY Zenon, <1>1 DEF LauncherTypeOK, Start, Decline
  <1>2. CASE Confirm
    <2>1. starts < MaxStarts => starts + 1 \in 0 .. MaxStarts
      BY LauncherAssumption DEF LauncherTypeOK
    <2> QED
      BY ZenonT(60), <1>2, <2>1 DEF LauncherTypeOK, Confirm
  <1>3. CASE Stop \/ Dispose
    BY Zenon, <1>3, StopChildType DEF LauncherTypeOK, ChildStates, Stop, Dispose
  <1> QED
    BY Zenon, <1>1, <1>2, <1>3

\* So does every step of an invocation, of a timer and of a child.
LEMMA StepTypes ==
  ASSUME LauncherTypeOK, NEW i \in Ids,
         StartStep(i) \/ FlushFails(i) \/ ForceKill(i) \/ ChildExits(i)
  PROVE  LauncherTypeOK'
  <1>1. /\ Killed(i) \in [Ids -> ChildStates]
        /\ Terminated(i) \subseteq [Ids -> ChildStates]
    BY Zenon, KilledType
  <1>2. CASE NotFound(i) \/ NotSpawned(i) \/ KeyNotSent(i)
    BY ZenonT(30), <1>1, <1>2 DEF LauncherTypeOK, ChildStates, NotFound, NotSpawned, KeyNotSent, Fail
  <1>3. CASE Found(i) \/ Spawned(i) \/ KeySent(i) \/ Reap(i)
    BY ZenonT(60), <1>3 DEF LauncherTypeOK, Found, Spawned, KeySent, Reap
  <1>4. CASE Complete(i)
    BY ZenonT(30), <1>4 DEF LauncherTypeOK, Complete
  <1>5. CASE FlushFails(i) \/ ForceKill(i) \/ ChildExits(i)
    BY ZenonT(60), <1>1, <1>5 DEF LauncherTypeOK, ChildStates, FlushFails, ForceKill, ChildExits
  <1> QED
    BY ZenonT(60), <1>2, <1>3, <1>4, <1>5 DEF StartStep

\* The buttons and the dialog: while a child exists, or one is being started,
\* no other start is confirmed.
LEMMA UserInTurn ==
  ASSUME LauncherTypeOK, InTurn, ~early',
         Start \/ Decline \/ Confirm \/ Stop \/ Dispose
  PROVE  InTurn'
  <1> USE IdsType
  <1>1. CASE Start \/ Decline
    <2>1. /\ UNCHANGED <<status, stopRequested, process, starts, calls, child, disposed>>
          /\ asking' => process = NoChild /\ status # "starting"
      BY Zenon, <1>1 DEF Start, Decline, Running
    <2> QED
      BY Zenon, <2>1 DEF InTurn, Orderly, Waiting, Owning, Alive
  <1>2. CASE Confirm
    <2>1. process = NoChild /\ status # "starting" /\ ~disposed
      BY Zenon, <1>2 DEF InTurn, Confirm
    <2>2. \A i \in Ids : ~Waiting(i) /\ ~Owning(i) /\ i \notin Alive
      BY Zenon, <2>1 DEF InTurn, Orderly
    <2>3. /\ status' = "starting" /\ asking' = FALSE
          /\ starts' = starts + 1 /\ starts + 1 \in Ids
          /\ calls' = [calls EXCEPT ![starts + 1] = "exists"]
          /\ UNCHANGED <<process, child, disposed>>
      <3>1. starts < MaxStarts => starts + 1 \in Ids
        BY SMTT(60), LauncherAssumption DEF LauncherTypeOK, Ids
      <3> QED
        BY ZenonT(60), <1>2, <2>1, <3>1 DEF Confirm
    <2>4. calls[starts + 1] = "none"
      BY SMTT(60), <2>3 DEF InTurn, Orderly, LauncherTypeOK
    <2>5. ASSUME NEW i \in Ids PROVE Orderly(i)'
      BY SMTT(60), <2>1, <2>2, <2>3, <2>4 DEF InTurn, Orderly, Waiting, Owning, Alive, LauncherTypeOK
    <2>6. ASSUME NEW i \in Ids, NEW j \in Ids, Waiting(i)', Waiting(j)' PROVE i = j
      BY SMTT(60), <2>2, <2>3, <2>6 DEF Waiting, LauncherTypeOK
    <2> QED
      BY Zenon, <2>3, <2>5, <2>6 DEF InTurn
  <1>3. CASE Stop \/ Dispose
    <2>1. /\ UNCHANGED <<process, starts, calls>>
          /\ StopChild
          /\ Dispose => UNCHANGED <<status, asking>> /\ disposed'
          /\ Stop => /\ status' = "stopping" /\ UNCHANGED <<disposed, asking>>
                     /\ ~asking /\ process # NoChild
      BY ZenonT(60), <1>3 DEF Stop, Dispose
    <2>2. ASSUME NEW i \in Ids
          PROVE  /\ i \in Alive' => i \in Alive
                 /\ child[i] \in {"none", "signalled", "killed", "exited"} => child'[i] = child[i]
                 /\ child[i] # "none" => child'[i] # "none"
      BY SMTT(60), <2>1 DEF StopChild, Terminated, Alive, LauncherTypeOK
    <2>3. ASSUME NEW i \in Ids PROVE Orderly(i)'
      BY SMTT(60), <1>3, <2>1, <2>2 DEF InTurn, Orderly, Waiting, Owning
    <2> QED
      BY SMTT(60), <1>3, <2>1, <2>3 DEF InTurn, Waiting
  <1> QED
    BY Zenon, <1>1, <1>2, <1>3

\* `start' from its call to the child: one invocation at a time
LEMMA SpawnInTurn ==
  ASSUME LauncherTypeOK, InTurn, ~early', NEW i \in Ids,
         NotFound(i) \/ NotSpawned(i) \/ Found(i) \/ Spawned(i)
  PROVE  InTurn'
  <1> USE IdsType
  <1>1. Waiting(i) /\ process = NoChild /\ status = "starting" /\ ~asking
    BY Zenon DEF InTurn, Orderly, Waiting, NotFound, NotSpawned, Found, Spawned
  <1>2. \A j \in Ids : /\ Waiting(j) => j = i
                       /\ ~Owning(j) /\ j \notin Alive
    BY Zenon, <1>1 DEF InTurn, Orderly
  <1>3. CASE NotFound(i) \/ NotSpawned(i)
    <2>1. /\ calls' = [calls EXCEPT ![i] = "done"]
          /\ status' \in {"starting", "failed"}
          /\ UNCHANGED <<process, child, starts, asking, disposed>>
      BY ZenonT(60), <1>1, <1>3 DEF NotFound, NotSpawned, Fail
    <2>2. ASSUME NEW j \in Ids PROVE Orderly(j)' /\ ~Waiting(j)'
      BY SMTT(60), <1>1, <1>2, <2>1 DEF InTurn, Orderly, Waiting, Owning, Alive, LauncherTypeOK
    <2> QED
      BY Zenon, <1>1, <2>1, <2>2 DEF InTurn
  <1>4. CASE Found(i)
    <2>1. /\ calls' = [calls EXCEPT ![i] = "spawn"]
          /\ UNCHANGED <<status, process, child, starts, asking, disposed>>
      BY ZenonT(60), <1>4 DEF Found
    <2>2. ASSUME NEW j \in Ids PROVE Orderly(j)' /\ (Waiting(j)' => j = i)
      BY SMTT(60), <1>1, <1>2, <2>1 DEF InTurn, Orderly, Waiting, Owning, Alive, LauncherTypeOK
    <2> QED
      BY ZenonT(60), <1>1, <2>1, <2>2 DEF InTurn
  <1>5. CASE Spawned(i)
    <2>1. /\ calls' = [calls EXCEPT ![i] = "key"]
          /\ child' = [child EXCEPT ![i] = "up"]
          /\ process' = i
          /\ UNCHANGED <<status, starts, asking, disposed>>
      BY ZenonT(60), <1>5 DEF Spawned
    <2>2. ASSUME NEW j \in Ids PROVE Orderly(j)' /\ ~Waiting(j)'
      BY SMTT(60), <1>1, <1>2, <2>1 DEF InTurn, Orderly, Waiting, Owning, Alive, LauncherTypeOK
    <2> QED
      BY Zenon, <1>1, <2>1, <2>2 DEF InTurn
  <1> QED
    BY Zenon, <1>3, <1>4, <1>5

\* `start' from the child to its end: _process is this child throughout.
LEMMA ServeInTurn ==
  ASSUME LauncherTypeOK, InTurn, ~early', NEW i \in Ids,
         KeyNotSent(i) \/ KeySent(i) \/ Reap(i) \/ Complete(i)
  PROVE  InTurn'
  <1> USE IdsType
  <1>1. Owning(i) /\ process = i /\ ~asking
    BY Zenon DEF InTurn, Orderly, Owning, KeyNotSent, KeySent, Reap, Complete
  <1>2. \A j \in Ids : /\ ~Waiting(j)
                       /\ Owning(j) \/ j \in Alive => j = i
    BY Zenon, <1>1 DEF InTurn, Orderly
  <1>3. CASE KeyNotSent(i)
    <2>1. /\ calls' = [calls EXCEPT ![i] = "done"]
          /\ status' = IF disposed THEN status ELSE "failed"
          /\ child' \in Terminated(i)
          /\ UNCHANGED <<process, starts, asking, disposed>>
          /\ calls[i] = "key"
      BY ZenonT(60), <1>3 DEF KeyNotSent, Fail
    <2>2. child'[i] \in {"signalled", "killed", "exited"}
      BY SMTT(60), <1>1, <2>1 DEF InTurn, Orderly, Terminated, Alive, LauncherTypeOK
    <2>3. \A j \in Ids : j # i => child'[j] = child[j]
      BY SMTT(60), <2>1 DEF Terminated, LauncherTypeOK
    <2>4. ASSUME NEW j \in Ids PROVE Orderly(j)' /\ ~Waiting(j)'
      <3>1. Orderly(j) /\ Orderly(i)
        BY Zenon DEF InTurn
      <3>2. calls'[j] = IF j = i THEN "done" ELSE calls[j]
        BY Zenon, <2>1 DEF LauncherTypeOK
      <3>3. CASE j = i
        <4>1. ~(i > starts') /\ calls'[j] = "done" /\ process' = process
          BY ZenonT(60), <2>1, <3>1, <3>2, <3>3 DEF Orderly
        <4> QED
          BY ZenonT(60), <1>1, <2>2, <3>3, <4>1 DEF Orderly, Waiting, Owning, Alive
      <3>4. CASE j # i
        <4>1. calls'[j] = calls[j] /\ child'[j] = child[j] /\ process' = process /\ process # j
          BY ZenonT(60), <1>1, <2>1, <2>3, <3>2, <3>4
        <4>2. ~Waiting(j) /\ ~Owning(j) /\ j \notin Alive /\ starts' = starts
          BY ZenonT(60), <1>2, <2>1, <3>4
        <4> QED
          BY ZenonT(60), <3>1, <4>1, <4>2 DEF Orderly, Waiting, Owning, Alive
      <3> QED
        BY Zenon, <3>3, <3>4
    <2> QED
      BY Zenon, <1>1, <2>1, <2>4 DEF InTurn
  <1>4. CASE KeySent(i)
    <2>1. /\ calls' = [calls EXCEPT ![i] = "wait"]
          /\ status' = IF disposed THEN status ELSE "running"
          /\ UNCHANGED <<process, child, starts, asking, disposed>>
      BY ZenonT(60), <1>4 DEF KeySent
    <2>2. ASSUME NEW j \in Ids PROVE Orderly(j)' /\ ~Waiting(j)'
      BY SMTT(60), <1>1, <1>2, <2>1 DEF InTurn, Orderly, Waiting, Owning, Alive, LauncherTypeOK
    <2> QED
      BY Zenon, <1>1, <2>1, <2>2 DEF InTurn
  <1>5. CASE Reap(i)
    <2>1. /\ calls' = [calls EXCEPT ![i] = "drain"] /\ child[i] = "exited"
          /\ UNCHANGED <<status, process, child, starts, asking, disposed>>
      BY ZenonT(60), <1>5 DEF Reap
    <2>2. ASSUME NEW j \in Ids PROVE Orderly(j)' /\ ~Waiting(j)'
      BY SMTT(60), <1>1, <1>2, <2>1 DEF InTurn, Orderly, Waiting, Owning, Alive, LauncherTypeOK
    <2> QED
      BY Zenon, <1>1, <2>1, <2>2 DEF InTurn
  <1>6. CASE Complete(i)
    <2>1. /\ calls' = [calls EXCEPT ![i] = "done"] /\ calls[i] = "drain"
          /\ process' = NoChild
          /\ ~disposed => status' \in {"stopped", "failed"}
          /\ UNCHANGED <<child, starts, asking, disposed>>
      BY Zenon, <1>6 DEF Complete
    <2>2. i \notin Alive
      BY ZenonT(60), <2>1 DEF InTurn, Orderly, Alive
    <2>3. ASSUME NEW j \in Ids PROVE Orderly(j)' /\ ~Waiting(j)'
      BY SMTT(60), <1>1, <1>2, <2>1, <2>2 DEF InTurn, Orderly, Waiting, Owning, Alive, LauncherTypeOK
    <2> QED
      BY Zenon, <1>1, <2>1, <2>3 DEF InTurn
  <1> QED
    BY ZenonT(60), <1>3, <1>4, <1>5, <1>6

\* A flush that fails, the timer and the end of a child change the child alone.
LEMMA ChildInTurn ==
  ASSUME LauncherTypeOK, InTurn, NEW i \in Ids,
         FlushFails(i) \/ ForceKill(i) \/ ChildExits(i)
  PROVE  InTurn'
  <1>1. UNCHANGED <<status, process, starts, calls, asking, disposed>>
    BY Zenon DEF FlushFails, ForceKill, ChildExits
  <1>2. ASSUME NEW j \in Ids
        PROVE  /\ j \in Alive' => j \in Alive
               /\ child[j] \in {"none", "exited"} => child'[j] = child[j]
               /\ child[j] \in {"signalled", "killed"} => child'[j] \in {"signalled", "killed", "exited"}
               /\ child[j] # "none" => child'[j] # "none"
    BY SMTT(60) DEF FlushFails, ForceKill, ChildExits, Terminated, Killed, Alive, LauncherTypeOK
  <1>3. ASSUME NEW j \in Ids PROVE Orderly(j)'
    BY SMTT(60), <1>1, <1>2 DEF InTurn, Orderly, Waiting, Owning
  <1> QED
    BY Zenon, <1>1, <1>3 DEF InTurn, Waiting

\* The invariant holds whatever the user, the children and the timers do.
THEOREM LauncherInvariant == LauncherSpec => []LauncherIInv
  <1>1. LauncherInit => LauncherIInv
    <2> SUFFICES ASSUME LauncherInit PROVE LauncherTypeOK /\ InTurn
      BY Zenon DEF LauncherIInv
    <2>1. 0 \in 0 .. MaxStarts
      BY SMTT(60), LauncherAssumption
    <2>2. LauncherTypeOK
      BY ZenonT(60), <2>1 DEF LauncherInit, LauncherTypeOK
    <2>3. ASSUME NEW i \in Ids PROVE Orderly(i) /\ ~Waiting(i)
      BY SMT, IdsType DEF LauncherInit, Orderly, Waiting, Owning, Alive
    <2> QED
      BY Zenon, <2>2, <2>3 DEF LauncherInit, InTurn
  <1>2. LauncherIInv /\ [LauncherNext]_launcherVars => LauncherIInv'
    <2> SUFFICES ASSUME LauncherIInv, [LauncherNext]_launcherVars PROVE LauncherIInv'
      BY Zenon
    <2>1. CASE UNCHANGED launcherVars
      BY ZenonT(60), <2>1 DEF LauncherIInv, LauncherTypeOK, InTurn, Orderly, Waiting, Owning, Alive, launcherVars
    <2>2. CASE LauncherNext
      <3>1. LauncherTypeOK'
        BY ZenonT(60), <2>2, UserTypes, StepTypes DEF LauncherNext, LauncherIInv
      <3>2. ASSUME ~early' PROVE ~early
        BY ZenonT(60), <2>2, <3>2 DEF LauncherNext, Start, Decline, Confirm, Stop, Dispose, StartStep,
             NotFound, Found, NotSpawned, Spawned, KeyNotSent, KeySent, Reap, Complete, Fail,
             FlushFails, ForceKill, ChildExits
      <3>3. ASSUME ~early' PROVE InTurn'
        BY ZenonT(60), <2>2, <3>2, <3>3, UserInTurn, SpawnInTurn, ServeInTurn, ChildInTurn
           DEF LauncherNext, LauncherIInv, StartStep
      <3> QED
        BY Zenon, <3>1, <3>3 DEF LauncherIInv
    <2> QED
      BY Zenon, <2>1, <2>2
  <1> QED
    BY <1>1, <1>2, PTL DEF LauncherSpec

\* "TunD is already running.": there is never a second child, unless Stop was
\* pressed before there was a first one.
THEOREM LauncherKeepsOneChild == LauncherSpec => []SingleUnlessEarly
  <1>1. LauncherIInv => SingleUnlessEarly
    <2> SUFFICES ASSUME LauncherIInv, ~early PROVE Cardinality(Alive) <= 1
      BY Zenon DEF SingleUnlessEarly, SingleChild
    <2>1. Alive \subseteq {process}
      BY Zenon DEF LauncherIInv, InTurn, Orderly, Alive
    <2>2. IsFiniteSet({process}) /\ Cardinality({process}) = 1
      BY Zenon, FS_Singleton
    <2>3. IsFiniteSet(Alive) /\ Cardinality(Alive) <= Cardinality({process})
      BY ZenonT(60), <2>1, <2>2, FS_Subset
    <2> QED
      BY SMTT(60), <2>2, <2>3
  <1> QED
    BY <1>1, LauncherInvariant, PTL

\* The status tells the truth about the child, for any number of invocations.
THEOREM LauncherStatusTruthful == LauncherSpec => []StatusTruthful
  <1>1. LauncherIInv => StatusTruthful
    <2> SUFFICES ASSUME LauncherIInv, ~disposed, ~early
                 PROVE  /\ status \in {"ready", "stopped", "failed"} =>
                             \A i \in Alive : child[i] \in {"signalled", "killed"}
                        /\ status = "running" => process # NoChild
      BY ZenonT(60) DEF StatusTruthful
    <2>1. ASSUME status \in {"ready", "stopped", "failed"}, NEW i \in Ids, i \in Alive
          PROVE  child[i] \in {"signalled", "killed"}
      BY SMTT(60), <2>1 DEF LauncherIInv, InTurn, Orderly, Alive
    <2> QED
      BY Zenon, <2>1 DEF LauncherIInv, InTurn, Alive
  <1> QED
    BY <1>1, LauncherInvariant, PTL
-----------------------------------------------------------------------------
(* The start: a program runs as it was asked to and puts back what it has  *)
(* changed, for every length of a key, every port and any number of        *)
(* options, in any order.                                                  *)

\* main begins with nothing read.
LEMMA StartupBegins ==
  ASSUME stage = "start", host = Nowhere, cfg = Blank, sources = <<>>,
         echo = TRUE, secrets = {}, relaunched = FALSE
  PROVE  StartupIInv
  <1>1. cfg \in Configs /\ host \in Hosts /\ Unread
    BY SMTT(60), StartupAssumption DEF Configs, Hosts, Nowhere, Blank, Unread
  <1> QED
    BY ZenonT(60), <1>1 DEF StartupIInv, Parsing, KeyStages, Valid, Ending

\* A port that passes the test is not changed by its conversion to uint16_t.
LEMMA PortFits ==
  ASSUME NEW port \in Ports, ~(port < 1 \/ port > MaxPort)
  PROVE  port % (MaxPort + 1) \in 1 .. MaxPort
  <1>1. \A a, b \in Nat : a < b => a % b = a
    OBVIOUS
  <1>2. port \in Nat /\ MaxPort + 1 \in Nat /\ port < MaxPort + 1 /\ port >= 1
    BY StartupAssumption
  <1>3. port % (MaxPort + 1) = port
    BY Zenon, <1>1, <1>2
  <1> QED
    BY SMTT(60), <1>2, <1>3, StartupAssumption

\* Options that name no key change neither the key nor where it comes from.
LEMMA StartupOptions ==
  StartupIInv /\ (parse_mode \/ PlainOption \/ ServerOption \/ NoTuiOption \/ LastOption \/ parse_port)
    => StartupIInv'
  <1> SUFFICES ASSUME StartupIInv,
                      parse_mode \/ PlainOption \/ ServerOption \/ NoTuiOption \/ LastOption \/ parse_port
               PROVE  StartupIInv'
    BY Zenon
  <1> USE DEF Parsing, KeyStages, Valid, Ending, Unread, Read
  <1>1. CASE parse_mode
    <2>1. \A c \in BOOLEAN : [Blank EXCEPT !.client = c] \in Configs
      BY Zenon, StartupAssumption DEF Blank, Configs
    <2>2. \A c \in BOOLEAN : /\ [Blank EXCEPT !.client = c].key = 0
                             /\ [Blank EXCEPT !.client = c].fromStdin = FALSE
      BY DEF Blank
    <2> QED
      BY ZenonT(60), <1>1, <2>1, <2>2 DEF StartupIInv, parse_mode
  <1>2. CASE PlainOption \/ LastOption
    <2>1. CASE PlainOption
      BY Zenon, <2>1 DEF StartupIInv, PlainOption, Option
    <2>2. CASE LastOption
      BY Zenon, <2>2 DEF StartupIInv, LastOption, Option
    <2> QED
      BY Zenon, <1>2, <2>1, <2>2
  <1>3. ASSUME NEW c, c \in Configs, c.key = cfg.key, c.fromStdin = cfg.fromStdin,
               cfg' = c, Option, UNCHANGED <<stage, sources, secrets>>
        PROVE  StartupIInv'
    BY Zenon, <1>3 DEF StartupIInv, Option
  <1>4. CASE ServerOption
    <2>1. /\ [cfg EXCEPT !.server = TRUE] \in Configs
          /\ [cfg EXCEPT !.server = TRUE].key = cfg.key
          /\ [cfg EXCEPT !.server = TRUE].fromStdin = cfg.fromStdin
      BY Zenon DEF StartupIInv, Configs
    <2> QED
      BY ZenonT(60), <1>3, <1>4, <2>1 DEF ServerOption, Option
  <1>5. CASE NoTuiOption
    <2>1. /\ [cfg EXCEPT !.tui = FALSE] \in Configs
          /\ [cfg EXCEPT !.tui = FALSE].key = cfg.key
          /\ [cfg EXCEPT !.tui = FALSE].fromStdin = cfg.fromStdin
      BY Zenon DEF StartupIInv, Configs
    <2> QED
      BY ZenonT(60), <1>3, <1>5, <2>1 DEF NoTuiOption, Option
  <1>6. CASE parse_port
    <2>1. PICK port \in Ports :
            IF port < 1 \/ port > MaxPort
            THEN stage' = "exit" /\ UNCHANGED cfg
            ELSE cfg' = [cfg EXCEPT !.port = port % (MaxPort + 1)] /\ UNCHANGED stage
      BY Zenon, <1>6 DEF parse_port
    <2>2. CASE port < 1 \/ port > MaxPort
      BY ZenonT(60), <1>6, <2>1, <2>2 DEF StartupIInv, parse_port, Option
    <2>3. CASE ~(port < 1 \/ port > MaxPort)
      <3> DEFINE c == [cfg EXCEPT !.port = port % (MaxPort + 1)]
      <3>1. port % (MaxPort + 1) \in 1 .. MaxPort
        BY ZenonT(60), <2>3, PortFits
      <3>2. c \in Configs /\ c.key = cfg.key /\ c.fromStdin = cfg.fromStdin
        BY <3>1 DEF StartupIInv, Configs
      <3>3. cfg' = c /\ UNCHANGED stage
        BY Zenon, <2>1, <2>3
      <3> HIDE DEF c
      <3> QED
        BY ZenonT(60), <1>3, <1>6, <3>2, <3>3 DEF parse_port
    <2> QED
      BY Zenon, <2>2, <2>3
  <1> QED
    BY ZenonT(60), <1>1, <1>2, <1>4, <1>5, <1>6

\* A source of the key is read only if it is the first one.
LEMMA StartupSource ==
  ASSUME StartupIInv, NEW source, NEW next, OneSource(source, next),
         next \in KeyStages, source = "stdin" <=> next \notin {"arg", "file"}, next # "typing"
  PROVE  StartupIInv'
  <1> USE DEF Parsing, KeyStages, Valid, Ending, Unread, Read
  <1>1. CASE sources # <<>>
    BY Zenon, <1>1 DEF StartupIInv, OneSource, Option
  <1>2. CASE sources = <<>>
    <2> DEFINE c == [cfg EXCEPT !.fromStdin = (source = "stdin") \/ cfg.fromStdin]
    <2>1. c \in Configs /\ c.key = cfg.key /\ (c.fromStdin <=> (source = "stdin") \/ cfg.fromStdin)
      BY Zenon DEF StartupIInv, Configs
    <2>2. cfg' = c /\ stage' = next /\ stage = "options"
          /\ UNCHANGED <<sources, secrets, host, echo, relaunched>>
      BY Zenon, <1>2 DEF OneSource, Option
    <2>3. ~cfg.fromStdin /\ cfg.key = 0
      BY SMTT(60), <1>2, <2>2 DEF StartupIInv
    <2> HIDE DEF c
    <2> QED
      BY ZenonT(60), <1>2, <2>1, <2>2, <2>3 DEF StartupIInv
  <1> QED
    BY Zenon, <1>1, <1>2

\* What a source held is stored whole, or the program ends.
LEMMA StartupRead ==
  StartupIInv /\ (ReadArg \/ ReadStream \/ ReadTerminal) => StartupIInv'
  <1> SUFFICES ASSUME StartupIInv, ReadArg \/ ReadStream \/ ReadTerminal
               PROVE  StartupIInv'
    BY Zenon
  <1> USE DEF Parsing, KeyStages, Valid, Ending, Unread, Read
  <1>1. /\ stage \in {"arg", "file", "stdin", "typing"}
        /\ UNCHANGED <<host, relaunched>> /\ (echo' = echo \/ echo' = TRUE)
        /\ stage = "typing" => echo' = TRUE
    BY Zenon DEF ReadArg, ReadStream, ReadTerminal
  <1>2. /\ sources = <<>> /\ cfg \in Configs /\ secrets \subseteq {"passphrase"} /\ ~relaunched
        /\ cfg.fromStdin <=> stage \notin {"arg", "file"}
        /\ echo'
    <2>1. stage \in KeyStages /\ stage \in Parsing /\ stage \notin {"wipe", "exit"}
      BY ZenonT(60), <1>1
    <2>2. /\ stage \notin {"typing", "killed"} => echo
          /\ stage \in Parsing => secrets \subseteq {"passphrase"}
          /\ stage \in KeyStages => /\ sources = <<>>
                                    /\ cfg.fromStdin <=> stage \notin {"arg", "file"}
          /\ relaunched => stage \in {"wipe", "exit"}
          /\ cfg \in Configs
      <3> HIDE DEF Parsing, KeyStages, Unread, Read
      <3> QED
        BY SMT DEF StartupIInv
    <2>3. echo'
      BY Zenon, <1>1, <2>2
    <2> HIDE DEF Parsing, KeyStages
    <2> QED
      BY SMTT(60), <2>1, <2>2, <2>3
  <1>3. CASE stage' = "exit" /\ secrets' \subseteq {"passphrase", "line"} /\ UNCHANGED cfg
    BY ZenonT(60), <1>1, <1>2, <1>3 DEF StartupIInv
  <1>4. ASSUME NEW n \in KeyLengths, NEW source,
               source = IF stage = "typing" THEN "stdin" ELSE stage,
               sources' = Append(sources, <<source, n>>),
               store_access_key(n)
        PROVE  StartupIInv'
    <2>1. CASE n >= KeySize
      BY ZenonT(60), <1>2, <1>3, <1>4, <2>1 DEF store_access_key
    <2>2. CASE ~(n >= KeySize)
      <3> DEFINE c == [cfg EXCEPT !.key = n]
      <3>1. n \in Nat /\ n < KeySize
        BY SMTT(60), <1>4, <2>2, StartupAssumption
      <3>2. c \in Configs /\ c.key = n /\ c.fromStdin = cfg.fromStdin
        BY SMTT(60), <1>2, <3>1 DEF Configs
      <3>3. cfg' = c /\ secrets' = secrets \cup {"passphrase"} /\ stage' = "options"
        BY ZenonT(60), <1>4, <2>2 DEF store_access_key
      <3>4. Len(sources') = 1 /\ sources'[1] = <<source, n>>
        BY SMTT(60), <1>2, <1>4
      <3>5. sources'[1][1] = source /\ sources'[1][2] = n
        BY SMTT(60), <3>4
      <3>6. source = "stdin" <=> stage \notin {"arg", "file"}
        BY Zenon, <1>1, <1>4
      <3> HIDE DEF c
      <3>7. Read'
        BY ZenonT(60), <1>2, <3>1, <3>2, <3>3, <3>4, <3>5, <3>6
      <3> QED
        BY ZenonT(60), <1>1, <1>2, <3>2, <3>3, <3>7 DEF StartupIInv
    <2> QED
      BY Zenon, <2>1, <2>2
  <1>5. ASSUME NEW n \in KeyLengths, NEW end \in DOMAIN Ends, NEW source,
               source = IF stage = "typing" THEN "stdin" ELSE stage,
               sources' = Append(sources, <<source, n>>),
               read_key_line(n, end)
        PROVE  StartupIInv'
    BY ZenonT(60), <1>2, <1>3, <1>4, <1>5 DEF read_key_line
  <1>6. CASE ReadArg
    BY Zenon, <1>4, <1>6 DEF ReadArg
  <1>7. CASE ReadStream
    BY ZenonT(60), <1>2, <1>3, <1>5, <1>7 DEF ReadStream
  <1>8. CASE ReadTerminal
    BY Zenon, <1>5, <1>8 DEF ReadTerminal
  <1> QED
    BY Zenon, <1>6, <1>7, <1>8

\* The prompt, the end of the options, and the rest of main
LEMMA StartupMain ==
  StartupIInv /\ (HideInput \/ Interrupt \/ validate_config \/ Derive
                    \/ app_prepare_runtime \/ Finish \/ WipeKey) => StartupIInv'
  <1> SUFFICES ASSUME StartupIInv,
                      HideInput \/ Interrupt \/ validate_config \/ Derive
                        \/ app_prepare_runtime \/ Finish \/ WipeKey
               PROVE  StartupIInv'
    BY Zenon
  <1> USE DEF Parsing, KeyStages, Valid, Ending, Unread, Read, parsing
  <1>1. CASE HideInput
    BY Zenon, <1>1 DEF StartupIInv, HideInput
  <1>2. CASE Interrupt
    BY Zenon, <1>2 DEF StartupIInv, Interrupt
  <1>3. CASE validate_config
    <2>1. cfg.key \in Nat /\ cfg.client \in BOOLEAN /\ cfg.server \in BOOLEAN
      BY DEF StartupIInv, Configs
    <2>2. ~(cfg.key < KeyMin) => cfg.key >= KeyMin /\ cfg.key # 0
      BY SMTT(60), <2>1, StartupAssumption
    <2> QED
      BY ZenonT(60), <1>3, <2>1, <2>2 DEF StartupIInv, validate_config
  <1>4. CASE Derive
    <2> DEFINE c == [cfg EXCEPT !.tui = cfg.tui /\ host.stderrTty]
    <2>1. /\ c \in Configs /\ c.key = cfg.key /\ c.fromStdin = cfg.fromStdin
          /\ c.client = cfg.client /\ c.server = cfg.server
          /\ c.tui => host.stderrTty
      BY Zenon DEF StartupIInv, Configs
    <2>2. /\ cfg' = c /\ stage = "derive" /\ stage' = "prepare"
          /\ secrets' = (secrets \ {"passphrase"}) \cup {"key"}
          /\ UNCHANGED <<host, sources, echo, relaunched>>
      BY Zenon, <1>4 DEF Derive
    <2> HIDE DEF c
    <2> QED
      BY ZenonT(60), <2>1, <2>2 DEF StartupIInv
  <1>5. CASE app_prepare_runtime
    <2>1. /\ stage = "prepare" /\ UNCHANGED <<cfg, host, sources, echo, secrets>>
          /\ \/ host.admin /\ stage' = "run" /\ UNCHANGED relaunched
             \/ stage' = "wipe" /\ UNCHANGED relaunched
             \/ stage' = "wipe" /\ relaunched' \in IF cfg.fromStdin THEN {FALSE} ELSE BOOLEAN
      BY Zenon, <1>5 DEF app_prepare_runtime, PreparePosix, PrepareWindows
    <2>2. relaunched' => ~cfg.fromStdin \/ relaunched
      BY Zenon, <2>1
    <2>3. Read /\ ~relaunched
      BY Zenon, <2>1 DEF StartupIInv
    <2>4. stage' \in {"run", "wipe"} /\ Read' /\ (relaunched' => sources'[1][1] # "stdin")
      BY ZenonT(60), <2>1, <2>2, <2>3
    <2>5. relaunched' => stage' \in {"wipe", "exit"}
      BY ZenonT(60), <2>1, <2>3
    <2> HIDE DEF Read
    <2> QED
      BY ZenonT(60), <2>1, <2>4, <2>5 DEF StartupIInv
  <1>6. CASE Finish
    BY Zenon, <1>6 DEF StartupIInv, Finish
  <1>7. CASE WipeKey
    BY Zenon, <1>7 DEF StartupIInv, WipeKey
  <1> QED
    BY ZenonT(60), <1>1, <1>2, <1>3, <1>4, <1>5, <1>6, <1>7

\* cli_parse and main know what the invariant says, at each stage.
THEOREM StartupInvariant == StartupSpec => []StartupIInv
  <1>1. StartupInit => StartupIInv
    BY Zenon, StartupBegins DEF StartupInit
  <1>2. StartupIInv /\ [StartupNext]_startVars => StartupIInv'
    <2> SUFFICES ASSUME StartupIInv, [StartupNext]_startVars PROVE StartupIInv'
      BY Zenon
    <2>1. CASE UNCHANGED startVars
      <3>1. UNCHANGED <<stage, host, cfg, sources, echo, secrets, relaunched>>
        BY Zenon, <2>1 DEF startVars
      <3>2. (Unread' <=> Unread) /\ (Read' <=> Read)
        BY Zenon, <3>1 DEF Unread, Read
      <3> QED
        BY SMTT(60), <3>1, <3>2 DEF StartupIInv
    <2>2. CASE KeyOption \/ KeyFileOption \/ KeyStdinOption
      BY Zenon, <2>2, StartupSource DEF KeyOption, KeyFileOption, KeyStdinOption, KeyStages
    <2>3. CASE NewCommand
      <3>1. cfg' \in Configs /\ host' \in Hosts /\ Unread'
        BY SMTT(60), <2>3, StartupAssumption DEF NewCommand, Configs, Hosts, Nowhere, Blank, Unread
      <3> QED
        BY ZenonT(60), <2>3, <3>1 DEF NewCommand, StartupIInv, Parsing, KeyStages, Valid, Ending
    <2> QED
      BY ZenonT(60), <2>1, <2>2, <2>3, StartupOptions, StartupRead, StartupMain DEF StartupNext
  <1> QED
    BY <1>1, <1>2, PTL DEF StartupSpec

\* A program that gets as far as running is the one that was asked for.
THEOREM StartupRunsAsAsked == StartupSpec => []RunsAsAsked
  <1>1. StartupIInv => RunsAsAsked
    <2> SUFFICES ASSUME StartupIInv PROVE RunsAsAsked
      BY Zenon
    <2>1. cfg.key \in Nat /\ cfg.port \in 1 .. MaxPort
      BY DEF StartupIInv, Configs
    <2>2. cfg.key >= KeyMin /\ cfg.key < KeySize => cfg.key \in KeyMin .. KeySize - 1
      BY SMTT(60), <2>1, StartupAssumption
    <2> QED
      BY Zenon, <2>1, <2>2 DEF StartupIInv, RunsAsAsked, Valid, Read
  <1> QED
    BY <1>1, StartupInvariant, PTL

\* A program puts back what it has changed, on each of its ways out.
THEOREM StartupCleansUp == StartupSpec => []CleansUp
  <1>1. StartupIInv => CleansUp
    BY Zenon DEF StartupIInv, CleansUp
  <1> QED
    BY <1>1, StartupInvariant, PTL
=============================================================================
