# TunD in TLA+

TunD is a virtual IPv4 LAN over encrypted UDP. One host runs the server, which
hands out virtual addresses and relays packets; the others run clients; a
desktop GUI starts and stops the command-line program. This directory holds
TLA+ modules of those parts, TLC configurations that check them on small
instances, and TLAPS proofs of their main safety properties for all instances.
`PROJECT.json` lists, per definition, the lines of code it models, and per
run, theorem, hazard and finding what it is about.

## The system and its parts

| Part | State | Operations | What is hard about it |
|---|---|---|---|
| Replay window (`src/protocol/protocol.c`) | `highest`, 64-bit `seen` | reset, accept | datagrams late, duplicated, reordered; shifts at the width of the word |
| Sequence numbers (`protocol.c`, `src/net`) | one atomic counter per process | seed, draw, write header, send | seeding race; draw and `sendto` are apart; wrap to 0 |
| Server (`src/core/server`) | peer table, `peer_count`, one lock, three threads | REGISTER, DATA, KEEPALIVE(_ACK), DISCONNECT, eviction, TUN forwarding | every handler copies under the lock and sends after it; slots and addresses are reused |
| Client (`src/core/client`) | table of peers, `last_server_seen`, three threads | registration with retries, PEER_LIST/JOIN/LEAVE, keepalive, TUN forwarding | packets credited after they were sent; two clocks read at different moments |
| Process lifecycle (`src/app/main.c`, `src/core`, `src/tun`) | socket, device, lock, key, terminal, threads, stop flags | init, run, shutdown, signals | any step may fail; threads must end before what they use is released |
| GUI process control (`gui/lib/core/launcher`, `gui/lib/home/controller`) | status, current process, timers | start, stop, forced kill, dispose | state read before an `await` and used after it |
| Host events (`src/app/events.c`), GUI peer table | sequence of join and leave events | emit, apply | order relative to the table |
| Messages (`src/protocol`, `src/net`) | a buffer, a header, a datagram | build, encrypt, send, receive, decrypt, read | lengths at their limits; one buffer sent to many peers |
| IPv4 validation, round-trip time | - | pure functions | rounding, masks, lengths that lie |
| TUN device (`src/tun`) | descriptors, adapter, session, settings | open, set address, route and MTU, close | every step may fail; Windows applies settings later |
| Logging and the list of events (`src/app/log.c`, `src/ui/events.c`) | ring of slots, a lock, a flag | log, draw | threads log while the interface starts and stops |
| Command line (`src/app/main.c`, `cli.c`, `win_runtime.c`) | options, key, terminal echo, secrets | parse, read the key, derive, elevate | several sources of the key; many ways out |
| peerforge (`tools/peerforge`) | clients, counters, status | register, keepalive rounds, probes, drain | late answers to earlier requests |
| Third-party cryptography, GUI forms, drawing | - | - | not modelled; see the end |

How they interact. A client registers; the server records the endpoint, picks a
slot and an address, answers with ASSIGN and PEER_LIST, and tells the others
with PEER_JOIN. DATA goes from client to server to client. Every datagram in
either direction is numbered by `proto_next_sequence` and passes the receiver's
replay window. Keepalives keep the entries alive; silence removes a peer from
the server (PEER_LEAVE to the rest) and stops a client.

## Modules and how they correspond to the code

- `ReplayWindow` - `proto_replay_window_t` with the word as the set of its
  one-bits; operators only. `Server` and `Client` extend it.
- `ReplayChannel` - one receiving direction: any number arrives at any time, any
  number of times. It is the abstract specification of replay protection.
- `ReplayWord` - the same with the integer arithmetic of `proto_replay_accept`
  (shift, mask, width), one action per `return true`. It implements
  `ReplayChannel` under the mapping *word to set of one-bits*. `Powers` holds the
  weights of the bits, for it and for the netmasks of `TunDevice`.
- `Server` - a critical section is one step; what follows the unlock is queued in
  `todo[thread]` and performed one system call at a time, so the other threads
  can change the table in between. REGISTER is `RegisterKnown`/`RegisterNew`/
  `RejectRegister`. Other requests are first recorded
  (`AcceptRegisteredSequence`, a critical section of its own) and then handled
  (`Handle...`, with their own lookup), as in the code. `TimeoutWake` reads
  `now`; `TimeoutSweep` takes the lock afterwards. `told`, `hostView` and `sent`
  are history variables: what the messages, the events and the data packets sent
  so far add up to.
- `Client` - registration with its retries, the receive loop, PEER_LIST applied
  entry by entry, the keepalive thread, the TUN thread (sends without the lock,
  credits later). The keepalive thread reads the time (`KeepaliveWake`), loads
  `last_server_seen` and decides (`KeepaliveLoad`), and stops the client
  (`KeepaliveStop`) in three steps, and an answer of the server may come between
  any two. Only differences of times matter: `silence` is how long ago
  `last_server_seen` was set, `age` the difference the thread is about to take. It
  is negative if the answer came between the two reads, and the code subtracts
  unsigned numbers (`Unsigned`, modulo `TimeRange`). `expected` and `sent` are
  history variables.
- `Sequence` - `proto_next_sequence` step by step: load, draw a seed,
  compare-exchange, add; a message draws once when its header is built and again
  when it is encrypted; random bytes and `sendto` may fail.
- `Lifecycle` - `main`, `server_init`/`run`/`shutdown` and their client
  counterparts, in which any step may fail. The groupings `Run` and `Shutdown`
  are mapped to `client.c`, the actions they consist of to `server.c`: the two
  files have the same structure.
- `Launcher` - `TundLauncher.start` is suspended at each `await`; each stretch
  between two awaits is an action. `Stop`, `Dispose`, the 3-second timer, a
  failing flush and the child process act in between. `process.kill()` sends a
  SIGTERM (`Terminated`): a child that has run `app_setup_signals` takes it for a
  request to stop, one that has not ends at once. Only the timer sends a SIGKILL
  (`Killed`), and it is set only if *stop* could be written.
- `TunD` - the composition: one server, several clients, and a network (a set
  of datagrams with ages) that loses, delays, reorders and duplicates. A handler
  of the server's main thread and the sends it makes are one step: a send that
  is late is a datagram that is late, and the thread does nothing in between.
  The timeout thread is not that simple. `Tick` removes the silent peers and
  leaves the PEER_LEAVEs about them in `leaves`; `SendLeave` sends them one by
  one, and registrations may come before, with the address that has become free.
  The other interleavings inside a handler are the subject of `Server` and
  `Client`. Time is counted in keepalive intervals.
  Either side may crash and start again; a client's new process may start below
  the window of its old entry (`low`), a restarted server below a client's
  (`deaf`). DATA is left out: it changes no membership. `unsure` and `adrift` are
  history variables.
- `Wire` - the builders and readers of `protocol.c`, `net_send` and `net_recv`:
  a message is a sequence of fields with their sizes, a datagram may be damaged
  anywhere, a buffer may be sent again.
- `Ipv4`, `Rtt` - `proto_validate_ipv4_packet` and `smooth_rtt_ms` with the
  definitions they are compared with.
- `TunDevice` - `tun_open`, `tun_set_ip`, `tun_set_mtu` and `tun_close` on Linux,
  macOS and Windows, request by request; each may fail, and on Windows a setting
  takes effect at any time after `netsh` has ended. An adapter that exists is
  opened as it is, with any of the settings asked for already in force.
- `RecentEvents` - a list of the last `MaxEvents` events: what the terminal
  interface promises. `EventRing` - the ring with `start` and `count`, and
  `log_msg` with its look at `g_tui_active` before the lock; it implements
  `RecentEvents` by reading the ring from `start`.
- `Startup` - `main` up to the run: options in any order, the sources of the key,
  the prompt with echo off, the checks, the derivation, the privileges. A key is
  its length: of a line, the characters before the first CR or LF, where
  `trim_line_end` cuts it.
- `Relaunch` - the quoting of arguments for the elevated process, and how Windows
  splits the line again (external, from the rules the quoting is written for).
- `Peerforge` - one run of the load generator against a server that answers,
  answers late or not at all. A drain of a socket stops at a message that cannot
  be decrypted, and leaves what is behind it.
- `MC...` - instances for TLC. `MCReplayWord`, `MCLifecycle` and `MCStartup` hold
  several small modules that do not share state: a variable `part` chooses in
  the initial state which of them moves, and the others stay where they start.
- `...Proofs` - theorems, by component:

  | Module | About |
  |---|---|
  | `ServerTableProofs`, `ServerProofs` | `Server` |
  | `ClientProofs` | what is written and read: `Wire`, `Relaunch`; `Client` |
  | `TunDProofs`, `TunDViewProofs`, `TunDDriftProofs` | `TunD` |
  | `NumberProofs` | what computes with numbers: `Ipv4`, `Rtt`, `Sequence`, `Peerforge`, `TunDevice`, `ReplayChannel`, `ReplayWord` |
  | `ProcessProofs` | the process around the protocol: `EventRing`, `Lifecycle`, `Launcher`, `Startup` |

  `Server` and `TunD` are split because the proof manager slows down with every
  statement of a module. Leaves near the end of a long module are given more
  time than they need alone (`SMTT(60)`, `ZenonT(60)`).

Definitions named `Faulty...` are variants with a plausible bug. No
specification uses them; they serve to show that each property can fail.

## Runs

| Run | Checks | Shows |
|---|---|---|
| `replay_word` | `WordAtMostOnce`, `WordLateIsAccepted`, `ImplementsChannel` (window); `WireFaithful`, `WireFits` (messages); `Ipv4Exact`; `RttApproaches`; `ZeroMeansAll` (peerforge) | nothing is handled twice, nothing inside the window is taken for a replay, the arithmetic is the set; a message is read as it was built or dropped; exactly the well-formed packets pass; the average follows its samples; peerforge's status 0 means that nothing was missing |
| `server_table` | `TableConsistent`, `DispatchedIsRecorded`, `MainSnapshotsCurrent`, `NoEarlyEviction`, types | main and timeout thread keep the table consistent; a peer that is heard from is not evicted |
| `server_data` | `AccountedOnce` | a byte counter never gets a packet of the slot's former holder |
| `server_discovery` | `Discovery`, `NoGhosts`, `HostViewExact` | without evictions, when nothing is left to be sent every peer was told of exactly the others |
| `late_leave` | `Discovery` fails | see Findings |
| `long_list` | `Discovery` fails | see Findings |
| `client` | `ViewExact`, `CreditedOnce`, `StopsOnlyOnSilence`, `NoticesSilence` | the table is what the messages add up to; the client stops on silence, and only then |
| `sequence` | `UniqueNumbers` | concurrent seeding and drawing never repeat a number |
| `lifecycle` | `InUseIsOpen`, `JoinedOnce`, `NothingLeft`, `StopEndsProcess` (process); `HandlesBalanced`, `ConfiguredWhenUp`, `GivesUpForCause` (device); `ImplementsRecent` (events) | whatever fails, threads end before their resources do, nothing leaks, the process ends; a device is used only when configured; the ring is the list of the last events |
| `launcher` | `SingleUnlessEarly`, `StatusTruthful`, `StopTakesEffect`, `StartSettles` (GUI); `RunsAsAsked`, `CleansUp` (command line); `RelaunchFaithful` | one child at a time, an honest status, a stop that works once it was written, as long as only existing children are stopped; a program that runs has one key, whole, and the privileges, and leaves no secret and no silent terminal behind; the elevated process gets the same arguments |
| `launcher_twice` | `SingleChild` fails | see Findings |
| `tund` | `AddressAgreement`, `SettledView`, `Reconciled` | server and client agree on addresses; a client that has heard all its news knows exactly the other members, but for the listed ways to miss some (`unsure`); a disagreement on who is a member ends within the two timeouts |

What is proved of a module for every instance and is not in the table (its types,
`SlotVip`, `SeededBeforeAdd`, `NumbersIncrease`, `RttWithin` and the client's
`TableConsistent`) needs no run of its own. The inductive invariants
that stand beside their components (`IInv`, `Accounting`, `Telling`, `SeqIInv`,
`WordIInv`, `DevIInv`, `LauncherIInv`, `StartupIInv`, `ForgeIInv`) were evaluated on
all states of these runs, and so were those that stand in the proof modules
(`IInv` of `TunDProofs`, `ViewIInv`, `DriftIInv`, `WireIInv`).

### Bounds, and why they are enough

- `replay_word`: a word of 4 bits and numbers 0 to 9, so the distance to the
  newest number is below, at and beyond the width; 0 is the invalid number. The
  width enters the algorithm only through comparisons with that distance.
- `server_*`: three endpoints and two slots, so the table fills, REGISTER is
  rejected and slots and addresses change hands; three slots for discovery, so
  that a newcomer has a list of two to learn. `MaxClock` bounds time: two ticks
  let a peer time out and a third party take its slot. `MaxData` bounds packets
  per endpoint in `server_data`, where sends may fail. Endpoints are symmetric.
- `client`: two slots and two addresses, lists of up to two entries (an entry is
  applied while another waits), one packet per destination, a timeout of one
  tick. `TimeRange` stands for 2^64: it need only exceed what a difference of
  times can be. No symmetry, since liveness is checked.
- `sequence`: three threads and a counter of 8 values whose seeds lie in the
  lower half; four draws take the largest seed to the top of the range. Threads
  are symmetric.
- `replay_word`, the other parts: messages with the real sizes, names at and
  beyond their limit, lists that just fit and just do not, each sent up to three
  times from one buffer. Packets with every field on both sides of each test.
  Two forged clients, two rounds of keepalives and three probes, so that an
  answer of the first can be late for the third.
- `lifecycle`: no bounds on the process. The device has addresses of 4 bits, the
  server's and another, two netmasks, and three looks for each setting. The ring
  has three slots and two threads; messages fit a slot or do not.
- `launcher`: two starts, which is what an overlap needs; command lines of up to
  four options, keys and ports on both sides of each limit; arguments of up to
  three characters out of backslash, quote, blank and letter, and a line that
  some of them fill.
- `tund`: two clients and two addresses. A tick is a keepalive interval; both
  timeouts are three ticks, as in `tund.h`, and a datagram may be on its way for
  one. `Faulty = {c1}`: one client meets delays, one fault (`MaxFaults`: a crash, a
  broken link, a duplicate, a restart of the server) and one restart
  (`MaxStarts`), while the other is served at once and shows what the rest of the
  network is told. One faulty client keeps the state space small; what is proved
  of the composition holds for any number of them.

Deadlock checking is off where the program stops or a bound ends the behaviour.

### Fairness

- `TunD` assumes none: time cannot pass while a datagram is past its lifetime or
  a registration past its retries, so *eventually* is a number of ticks, and
  `Reconciled` is an invariant.
- `Client`: the keepalive thread is scheduled and time passes. It needs no lock
  to notice silence. Nothing is assumed of the network or of the main thread.
- `Lifecycle`: every thread is scheduled. Each step takes bounded time: `poll`,
  the sleeps and, on Linux and macOS, the reads of the device have timeouts. No
  fairness is assumed of signals.
- `Launcher`: futures complete, timers fire, a process that got a SIGKILL ends. A
  child that was merely told to stop, or got a SIGTERM, is not assumed to end.
  Closing the window may end the GUI before its timer fires, so
  `StopTakesEffect` promises nothing then; nor does it if *stop* could not be
  written, since then there is no timer.

## Findings

- `late_leave`: `server_timeout_thread` frees a slot under the lock and sends
  PEER_LEAVE, which names only the virtual address, after it. If a new peer
  registers in between it gets that address; the others hear of it and then
  forget it. The README promises that all clients discover each other.
- `long_list`: a PEER_LIST holds 43 entries and there is only one; a client that
  joins a larger network is never told of the rest.
- `launcher_twice`: Stop pressed while the child is being created finds no
  process; the status becomes *stopping*, which enables Start, and the second
  start passes the test for a running process. Two children result. In the same
  situation with no second start, the stop is forgotten and the child runs on.

## What is proved

The proof modules extend the component they are about and prove, for every value
of the constants that satisfies the assumptions named there, that an inductive
invariant `IInv` holds, and the properties from it.

- Replay window, in `NumberProofs` (`WindowAssumption`, `SeqNumsAssumption`):
  `HandledAtMostOnce`, `LateNumbersAccepted`. The invariant adds `Exact`: a bit
  within reach is set exactly when its number was handled. Without it, nothing
  connects the word to the past.
- Its word, in `NumberProofs`: `WordImplementsChannel`, `WordHandlesOnce`,
  `WordAcceptsLate`, for every width and every set of numbers. The integer
  operations do to the bits what `ReplayChannel` does to a set: setting a bit
  (`SetBitBits`), shifting left (`ShiftedBits`) and cutting the word to its width
  (`CutBits`), each proved by induction over the number of places, since bit *b* is
  read by halving *b* times. The shift by the whole width, which the code avoids
  by a test, is a case of its own in `WordStep`.
- Server, in `ServerProofs` on the lemmas of `ServerTableProofs`
  (`ServerAssumption`): `ServerTypes`, `TableIsConsistent`,
  `SlotsAndAddressesAgree`, `DispatchedAreRecorded`, `MainThreadSnapshots` and
  the action property `EvictsOnlySilentPeers`. Every step either keeps who holds
  which slot, registers one peer or removes a set of peers (`TableStep`); the
  conjuncts follow case by case. `SlotPosition` (slot *i* has the *i*-th address)
  is why the two independent searches agree. `NowInPast` (the time read before
  the lock is not ahead of the clock) is why a late sweep evicts nobody early.
  `PacketsAccountedOnce`: the credits a peer has and those still to come are never
  more than the packets sent to its endpoint, although slots change hands between
  the copy, `sendto` and the second critical section.
- Discovery, in `ServerProofs`: `PeersDiscoverEachOther`, `PeersSeeNoGhosts` and
  `HostSeesTheTable`, from three premises, each of which the code cannot do
  without: no send fails (`~SendFails`; nothing is sent twice), nobody is silent
  long enough to be evicted (`NobodySilent`; else `late_leave`) and a list has room
  for all peers (`ListSuffices`; else `long_list`). They are premises on the
  behaviour, `Spec /\ [](NobodySilent /\ ListSuffices)`, and do not bound the
  number of peers, registrations or departures. The invariant `Telling` holds
  while messages are under way: what each peer was told, plus what the main
  thread still owes it, is exactly the others. It needs that no queue holds both
  an arrival and a departure, or the order of sending would matter.
- Client, in `ClientProofs` (`ClientAssumption`: no more addresses than slots, as in
  `tund.h`): `ClientTypes`, `ClientTableIsConsistent`, `ClientViewIsExact`,
  `ClientCreditsOnce`, `ClientStopsOnSilence`. That no newcomer is turned away is
  a counting argument: a peer that is not in the table leaves fewer than all
  addresses in use, hence a free slot. The difference the keepalive thread takes
  is at most the silence, and it is 0 or negative once the server was heard
  between the two reads; the comparison before the subtraction is what keeps the
  unsigned difference of the second case from counting as a long silence.
- Sequence numbers, in `NumberProofs` (`SequenceAssumption`): `NumbersAreUnique`,
  `CounterIsSeeded` and the action property `ThreadNumbersIncrease`, for any
  number of threads, as long as no more numbers are drawn than half the range.
  The invariant says that every number written or sent is below the counter, and
  that the counter is below its largest seed plus the number of draws.
- Process, in `ProcessProofs`: `ThreadsFindResourcesOpen`, `ThreadsJoinedOnce`,
  `ProcessLeavesNothing`, whichever step of start, run and shutdown fails. The
  invariant ties the steps still to do to what is open: each list of steps is the
  rest of one the code has, and a thread that was created is joined before what
  it uses is closed.
- Device, in `NumberProofs` (`TunAssumption`: contiguous netmasks that leave four
  addresses or more): `DeviceHandlesBalanced`, `DeviceConfiguredWhenUp`,
  `DeviceGivesUpForCause`, for every width, address, netmask and number of looks.
  A series of calls that borrows a handle returns it wherever it stops
  (`BorrowedIsReturned`), one that obtains a handle ends with it or with nothing
  (`ObtainedOrNothing`). `PrefixIsExact` is about the loop that counts the leading
  ones of a netmask, by induction over their number; `PeerIsANeighbour` about the
  address of the macOS peer. The invariant says which settings the calls made so
  far have seen in force, and that the system does not take one back.
- GUI process control, in `ProcessProofs` (`LauncherAssumption`):
  `LauncherKeepsOneChild`, `LauncherStatusTruthful`, for any number of starts. The
  invariant `InTurn` says what holds of one invocation at each `await` and that
  invocations follow one another; it breaks exactly where Stop is pressed before
  there is a child (`launcher_twice`), hence the premise `~early` in it.
- Command line, in `ProcessProofs` (`StartupAssumption`): `StartupRunsAsAsked`,
  `StartupCleansUp`, for every length of a key, highest port and number of
  options, in any order.
- peerforge, in `NumberProofs` (`ForgeAssumption`): `ForgeZeroMeansAll`, for any
  number of clients, rounds and probes. The invariant compares each total with
  the number of requests behind the program: no total is larger, and one is
  smaller once an answer was missed.
- Messages, in `ClientProofs` (`WireAssumption`): `MessagesFit`, `MessagesArrive`, for
  all names, lists and packets. The invariant `WireIInv` says what is in the
  buffer, and that a datagram is that buffer encrypted or is refused. The fields of a list are at the
  offsets at which `proto_read_peer_entry` looks for them, by induction over the
  entries.
- Relaunch, in `ClientProofs` (`RelaunchAssumption`): `ArgumentsArrive`, for all
  arguments and sizes of the buffer. The reader of the line is a machine that takes one character at a
  time; a quoted argument takes it from between two arguments to between two
  arguments, with one more argument read, by induction over the characters and
  the backslashes that wait for what follows them.
- Composition, in `TunDProofs` (`TunDAssumption`,
  `TimingAssumption`: a peer's timeout is three intervals at least and more than
  twice what a datagram may take):
  `CompositionTypes`, `AddressesAgree`, for any number of clients, addresses,
  faults and restarts. The invariant follows the first process of an endpoint
  through three situations. Nothing was sent yet (*Fresh*). It registers, and the
  server's entry, if there is one, is younger than the process, so every answer on
  its way names the address in the table (*Registering*): an eviction in between
  would need a longer silence than a registration lasts. It has its address
  (*Settled*): a REGISTER still on its way finds the entry, because it is too
  young for the entry to have been evicted meanwhile. The timing is needed: a
  REGISTER that outlives the entry creates another one, perhaps with another
  address, behind the back of a client that is up. The same happens, whatever the
  timing, to a second process on an endpoint or after a restart of the server,
  which is why the property is about the first ones.
- Views, in `TunDViewProofs`: `ViewsSettle`. The invariant `ViewIInv` holds while news
  is on its way: what a client knows, changed by the news it will accept, is who
  the other members are, but for the PEER_LEAVEs the timeout thread has still to
  send (`Due`). News of an arrival is about a member or about one whose departure
  is still to be told, news of a departure never about a member, so the order in
  which a client hears them does not matter; where it would, the client is
  `unsure`.
- Disagreement, in `TunDDriftProofs`: `DisagreementEnds`. The invariant `DriftIInv`
  bounds how long a disagreement has lasted by what is still to happen before it
  ends: how quiet the entry is, how long the client has heard nothing, how old
  the datagrams are that could renew either. Each way a disagreement can begin
  has its bound (`DeafBound`, `RequestBound`, `EntryBound`, ...). A PEER_LEAVE that is
  still to be sent ends nothing, but keeps a silent client listening; `OwedBound`
  says that whom it is owed was a member at the last tick.
- Event ring, in `ProcessProofs`: `RingImplementsRecent`, the refinement for every
  capacity and number of threads. The invariant `RingInv` bounds `start` and `count` and says
  that a thread holds only messages that pass the level; the lemma `Around` is
  the arithmetic of the index.
- Validation of packets, in `NumberProofs` (`Ipv4Assumption`: a /24 network):
  `ValidationIsExact`, for every packet.
- Round-trip time, in `NumberProofs` (`RttAssumption`): `AverageStaysWithin`,
  `AverageApproaches`, for every sequence of samples. A sample more than 4 ms away moves the average; a nearer
  one may be lost in the rounding.

Induction. The prover cannot instantiate the library's induction theorems with a
predicate, so what is proved by induction is the set of numbers that have the
property: `SetInduction`, from the least element of its complement (`NatMin`).
Recursive functions unfold by `NatInductiveDef` and `WFInductiveDef`, whose
operator is given as a `LAMBDA`.

Only model-checked:

- all liveness (`NoticesSilence`, `StopEndsProcess`, `StopTakesEffect`,
  `StartSettles`), which is beyond the prover;
- the runs that end in a violation, which show one behaviour each.

## Behaviour worth knowing

The models keep these; no document of the repository says otherwise.

- A PEER_LIST, PEER_JOIN or PEER_LEAVE that is lost is not sent again, and a
  REGISTER from a known endpoint is answered without a list. A client that was
  evicted and did not notice may be known to nobody until it stops (`unsure`).
- A PEER_LEAVE about an evicted peer that is sent when the address belongs to a
  new peer makes who hears of it forget the new one (`GivenAway`; `late_leave`
  under Findings is the same order of events).
- A PEER_LIST that overtakes the ASSIGN is dropped by `client_register`.
- A process killed at the key prompt leaves the terminal without echo: the
  handlers are not installed yet (the exception in `CleansUp`).
- On macOS the route is not looked at after it was added, unlike on Windows.
- An event logged while the interface ends may stay in the ring unseen, and a
  thread that looked at `g_tui_active` before may still write to stderr.
- A key line is cut at its first CR, even if that is inside the line.
- If *stop* cannot be written, the child gets a SIGTERM and no timer is set. A
  child whose key could not be sent stays the launcher's current process.
- peerforge has no replay window; it counts on each answer coming at most once.

## What is not modelled, and why

- Cryptography: third-party code; a datagram authenticates or is dropped.
- The Wintun reader while its session ends: what the library does then is not
  specified by anything in the repository.
- Reads and writes of the device: system calls that carry one packet.
- The Windows console: modes and control handler.
- Peer names and received-byte counts outside `Wire`: no step depends on them.
- DATA in `TunD`, and the interleavings inside handlers there: see `Server`.
- JSON, wording of the log, drawing of tables: output only.
- GUI forms, widgets and the native runners: presentation and generated code.
- `server_broadcast` and `server_send_peer_list`: called by tests only.
- peerforge's options, its test server and its answers to keepalives.

## Plan

1. That `TunD` is implemented by `Server` and `Client` side by side.
2. An abstract specification of membership that `TunD` implements.
