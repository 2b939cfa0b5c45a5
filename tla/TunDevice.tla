----------------------------- MODULE TunDevice -----------------------------
(***************************************************************************)
(* The virtual network device on the three platforms (src/tun): tun_open,  *)
(* tun_set_ip, tun_set_mtu and tun_close, in the order in which            *)
(* server_init, client_init and the shutdown call them.                    *)
(*                                                                         *)
(* On Linux and macOS a call is a series of system calls, any of which may *)
(* fail; what the code gives back when the n-th one fails is part of the   *)
(* series.  On Windows the settings are made by another process and take   *)
(* effect at a time of the system's choosing, while the code looks for     *)
(* them again and again.                                                   *)
(***************************************************************************)
EXTENDS Integers, Sequences, Powers

CONSTANTS
  TunAddrs,             \* addresses the device may be given
  TunMasks,             \* netmasks, of TunWidth bits
  TunWidth,             \* the width of an address (32)
  TunTries              \* looks of wait_for_ip, _route and _mtu (20)

ASSUME TunAssumption ==
  /\ TunWidth \in Nat \ {0} /\ TunTries \in Nat \ {0}
  /\ TunAddrs \subseteq 0 .. Pow2[TunWidth] - 1
  /\ TunMasks \subseteq {Pow2[TunWidth] - Pow2[h] : h \in 2 .. TunWidth}

VARIABLES
  platform,
  call,                 \* the call to make next, or the loop it is in
  address,              \* arguments of tun_set_ip
  held,                 \* handles the process owns
  dev,                  \* handles tun_device_t records
  asked,                \* settings asked for, not yet in force
  inForce,              \* settings in force
  tries,                \* i of the wait loops
  cause,                \* history: has the system refused what it was asked last?
  wild                  \* history: was a handle given back that was not owned?

devVars == <<platform, call, address, held, dev, asked, inForce, tries, cause, wild>>
config == <<asked, inForce, tries>>
-----------------------------------------------------------------------------
(* A step of a series: the handles it obtains, those it gives back if it    *)
(* succeeds or if it fails, the settings it makes and those it undoes.      *)

Does(gets, drops, frees) ==
  [gets |-> gets, drops |-> drops, frees |-> frees, sets |-> {}, clears |-> {}]

Makes(step, sets, clears) == [step EXCEPT !.sets = sets, !.clears = clears]

Fd == {"fd"}
Sock == {"sock"}

LinuxOpen == << Does(Fd, {}, {}), Does({}, {}, Fd) >>

\* socket, CTLIOCGINFO, connect, UTUN_OPT_IFNAME
DarwinOpen == << Does(Fd, {}, {}), Does({}, {}, Fd), Does({}, {}, Fd), Does({}, {}, Fd) >>

\* wintun_load: the library, which is never unloaded, and its symbols
WintunLoad == << Does({"library"}, {}, {}), Does({}, {}, {}) >>

\* Faulty variant: the session survives a failure to get its event.
FaultyWindowsOpen ==
  WintunLoad \o << Does({"adapter"}, {}, {}), Does({"session"}, {}, {"adapter"}),
                   Does({}, {}, {"adapter"}) >>

\* The adapter, opened or created, the session, its event.  There is always a
\* LUID.
WindowsOpen ==
  WintunLoad \o << Does({"adapter"}, {}, {}), Does({"session"}, {}, {"adapter"}),
                   Does({}, {}, {"session", "adapter"}) >>

OpenSteps(p) ==
  CASE p = "linux" -> LinuxOpen [] p = "darwin" -> DarwinOpen [] p = "windows" -> WindowsOpen

\* SIOCSIFADDR gives the interface the netmask of the address' class, so the
\* netmask comes after it; then the flags are read and written.
LinuxSetIp ==
  << Does(Sock, {}, {}),
     Makes(Does({}, {}, Sock), {"addr"}, {"mask"}),
     Makes(Does({}, {}, Sock), {"mask"}, {}),
     Does({}, {}, Sock),
     Makes(Does({}, Sock, Sock), {"up"}, {}) >>

\* SIOCAIFADDR does all of it.  The route comes later and is not required.
DarwinSetIp ==
  << Does(Sock, {}, {}), Makes(Does({}, Sock, Sock), {"addr", "mask", "up"}, {}) >>

SetMtu == << Does(Sock, {}, {}), Makes(Does({}, Sock, Sock), {"mtu"}, {}) >>

\* CreateProcess, WaitForSingleObject, GetExitCodeProcess, the exit code.
RunCmd ==
  << Does({"child"}, {}, {}), Does({}, {}, {"child"}),
     Does({}, {"child"}, {"child"}), Does({}, {}, {}) >>

\* The handles obtained in the first n steps of s, those given back because
\* step n + 1 failed, and the settings in force then.
Owned(s, n) ==
  {h \in UNION {s[i].gets : i \in 1 .. n} : \A i \in 1 .. n : h \notin s[i].drops}

Released(s, n) == IF n < Len(s) THEN s[n + 1].frees ELSE {}

Settings(s, n) ==
  LET undone(x, i) == \E j \in i + 1 .. n : x \in s[j].clears
  IN  {x \in inForce : ~undone(x, 0)}
        \cup UNION {{x \in s[i].sets : ~undone(x, i)} : i \in 1 .. n}

\* A call makes the first n steps of s.
Make(s, n) ==
  /\ n \in 0 .. Len(s)
  /\ held' = (held \cup Owned(s, n)) \ Released(s, n)
  /\ wild' = (wild \/ ~(Released(s, n) \subseteq held \cup Owned(s, n)))
  /\ cause' = (n < Len(s))
-----------------------------------------------------------------------------
DevInit ==
  /\ platform = "linux" /\ call = "start" /\ address = <<0, 0>>
  /\ held = {} /\ dev = {}
  /\ asked = {} /\ inForce = {} /\ tries = 0
  /\ cause = FALSE /\ wild = FALSE

\* A process of one of the platforms begins.
DevStart ==
  /\ call = "start"
  /\ platform' \in {"linux", "darwin", "windows"}
  /\ address' \in TunAddrs \X TunMasks
  /\ call' = "open"
  /\ dev' = {}                                  \* fd = -1, or NULL everywhere
  /\ UNCHANGED <<held, config, cause, wild>>

\* The settings an adapter may have.  One that exists is opened rather than
\* created, and may have kept some of those asked for from an earlier session.
AdapterSettings == {"addr", "mask", "route", "mtu"}

tun_open ==
  /\ call = "open"
  /\ LET s == OpenSteps(platform) IN
     \E n \in 0 .. Len(s) :
       /\ Make(s, n)
       /\ dev' = IF n = Len(s) THEN Owned(s, n) \ {"library"} ELSE dev
       /\ inForce' \in IF "adapter" \in Owned(s, n) THEN SUBSET AdapterSettings ELSE {inForce}
       /\ call' = IF n = Len(s) THEN "ip" ELSE "closed"
  /\ UNCHANGED <<platform, address, asked, tries>>

\* The peer address of the macOS point-to-point interface.
PeerAddress(ip, mask) ==
  LET net == ip - (ip % (Pow2[TunWidth] - mask))
  IN  IF ip = net + 1 THEN net + 2 ELSE net + 1

\* tun_set_ip of Linux and macOS.  The command that adds the macOS route may
\* not start or may fail: nobody looks.
tun_set_ip ==
  /\ call = "ip" /\ platform # "windows"
  /\ LET s == IF platform = "linux" THEN LinuxSetIp ELSE DarwinSetIp IN
     \E n \in 0 .. Len(s) :
       /\ Make(s, n)
       /\ \/ inForce' = Settings(s, n)
          \/ /\ platform = "darwin" /\ n = Len(s)
             /\ inForce' = Settings(s, n) \cup {"route"}
       /\ call' = IF n = Len(s) THEN "mtu" ELSE "close"
  /\ UNCHANGED <<platform, address, dev, asked, tries>>

\* tun_set_mtu of Linux and macOS
tun_set_mtu ==
  /\ call = "mtu" /\ platform # "windows"
  /\ \E n \in 0 .. Len(SetMtu) :
       /\ Make(SetMtu, n)
       /\ inForce' = Settings(SetMtu, n)
       /\ call' = IF n = Len(SetMtu) THEN "up" ELSE "close"
  /\ UNCHANGED <<platform, address, dev, asked, tries>>
-----------------------------------------------------------------------------
(* Windows: config.c and process.c *)

\* netsh is run.  It has asked for the settings if it was started and did not
\* end with an error, and it may have even then.  next is the wait loop.
run_cmd(settings, next) ==
  \E n \in 0 .. Len(RunCmd) :
    /\ Make(RunCmd, n)
    /\ asked' \in IF n = Len(RunCmd) THEN {asked \cup settings}
                  ELSE IF n = 0 THEN {asked} ELSE {asked, asked \cup settings}
    /\ call' = IF n = Len(RunCmd) THEN next ELSE "close"
    /\ tries' = 0
    /\ UNCHANGED <<platform, address, dev, inForce>>

SetAddress ==
  /\ call = "ip" /\ platform = "windows"
  /\ run_cmd({"addr", "mask"}, "waitIp")

SetWinMtu ==
  /\ call = "mtu" /\ platform = "windows"
  /\ run_cmd({"mtu"}, "waitMtu")

\* The system puts a setting in force.  An address brings its route with it.
Apply ==
  /\ \E s \in asked :
       /\ inForce' = inForce \cup {s}
       /\ asked' = (asked \ {s}) \cup (IF s = "addr" THEN {"route"} \ inForce ELSE {})
  /\ UNCHANGED <<platform, call, address, held, dev, tries, cause, wild>>

Masks == 0 .. Pow2[TunWidth] - 1

\* The number of leading ones: while (mask & top) { prefix++; mask <<= 1; }
prefix_len_from_netmask[mask \in Masks] ==
  IF mask < Pow2[TunWidth - 1] THEN 0
  ELSE 1 + prefix_len_from_netmask[(2 * mask) % Pow2[TunWidth]]

\* The prefix length the system reports for the address.
OnLinkPrefixLength ==
  IF "mask" \in inForce
  THEN CHOOSE p \in 0 .. TunWidth : address[2] = Pow2[TunWidth] - Pow2[TunWidth - p]
  ELSE TunWidth

\* Faulty variant: the prefix length is not compared.
FaultyIpConfigApplied == "addr" \in inForce

windows_ip_config_applied ==
  /\ "addr" \in inForce
  /\ OnLinkPrefixLength = prefix_len_from_netmask[address[2]]

windows_route_applied == "route" \in inForce

windows_mtu_applied == "mtu" \in inForce

\* The test of each wait loop, the settings it is about, and what comes next
Applied == [waitIp |-> windows_ip_config_applied,
            waitRoute |-> windows_route_applied,
            waitMtu |-> windows_mtu_applied]
Wanted == [waitIp |-> {"addr", "mask"}, waitRoute |-> {"route"}, waitMtu |-> {"mtu"}]
Onward == [waitIp |-> "route", waitRoute |-> "mtu", waitMtu |-> "up"]

\* wait_for_ip, wait_for_route, wait_for_mtu: one look.  The system may fail to
\* produce its table.
Look ==
  /\ call \in DOMAIN Wanted
  /\ \E answered \in BOOLEAN :
       LET found == answered /\ Applied[call] IN
       /\ call' = IF found THEN Onward[call] ELSE IF tries + 1 = TunTries THEN "close" ELSE call
       /\ tries' = IF found THEN 0 ELSE tries + 1
       /\ cause' = (~answered \/ ~(Wanted[call] \subseteq inForce))
  /\ UNCHANGED <<platform, address, held, dev, asked, inForce, wild>>

\* windows_route_applied in tun_set_ip: a route is added only if none is found.
FindRoute ==
  /\ call = "route"
  /\ \E answered \in BOOLEAN :
       call' = IF answered /\ windows_route_applied THEN "waitRoute" ELSE "addRoute"
  /\ tries' = 0
  /\ UNCHANGED <<platform, address, held, dev, asked, inForce, cause, wild>>

\* Faulty variant: a route that has appeared in the meantime is an error.
FaultyAddRoute ==
  /\ call = "addRoute"
  /\ \/ /\ "route" \notin inForce
        /\ asked' = asked \cup {"route"} /\ call' = "waitRoute" /\ cause' = FALSE
     \/ /\ "route" \in inForce
        /\ call' = "close" /\ cause' = FALSE /\ UNCHANGED asked
     \/ call' = "close" /\ cause' = TRUE /\ UNCHANGED asked
  /\ UNCHANGED <<platform, address, held, dev, inForce, tries, wild>>

\* windows_add_onlink_route: the route may have appeared in the meantime
\* (ERROR_OBJECT_ALREADY_EXISTS), which is as good as having added it.
AddRoute ==
  /\ call = "addRoute"
  /\ \/ /\ "route" \notin inForce
        /\ asked' = asked \cup {"route"} /\ call' = "waitRoute" /\ cause' = FALSE
     \/ /\ "route" \in inForce
        /\ call' = "waitRoute" /\ cause' = FALSE /\ UNCHANGED asked
     \/ call' = "close" /\ cause' = TRUE /\ UNCHANGED asked
  /\ UNCHANGED <<platform, address, held, dev, inForce, tries, wild>>
-----------------------------------------------------------------------------
(* The end of the device *)

\* tun_close of Linux and macOS; it could be called again.
tun_close ==
  /\ platform # "windows"
  /\ held' = held \ dev
  /\ wild' = (wild \/ ~(dev \subseteq held))
  /\ dev' = {}

\* tun_close of Windows leaves the handles in tun_device_t.
WinClose ==
  /\ platform = "windows"
  /\ held' = held \ dev
  /\ wild' = (wild \/ ~(dev \subseteq held))
  /\ UNCHANGED dev

\* The caller, after a failure or at the shutdown
DevClose ==
  /\ call \in {"close", "up"}
  /\ tun_close \/ WinClose
  /\ call' = "closed"
  /\ UNCHANGED <<platform, address, config, cause>>

\* The process ends, and with it the interface and its settings, unless it is an
\* adapter that existed before.
DevExit ==
  /\ call = "closed"
  /\ call' = "start"
  /\ platform' = "linux" /\ address' = <<0, 0>>
  /\ held' = {} /\ dev' = {} /\ asked' = {} /\ inForce' = {} /\ tries' = 0
  /\ cause' = FALSE
  /\ UNCHANGED wild

DevNext ==
  \/ DevStart \/ tun_open \/ tun_set_ip \/ tun_set_mtu
  \/ SetAddress \/ SetWinMtu \/ Apply \/ Look \/ FindRoute \/ AddRoute
  \/ DevClose \/ DevExit

DevSpec == DevInit /\ [][DevNext]_devVars
-----------------------------------------------------------------------------
\* Between two calls the process owns exactly the handles tun_device_t records
\* (and, on Windows, the library), wherever the call before gave up: nothing
\* leaks on an error path of tun_open, tun_set_ip, tun_set_mtu or run_cmd, and
\* nothing is given back twice.
HandlesBalanced ==
  /\ ~wild
  /\ held \ {"library"} = IF call = "closed" THEN {} ELSE dev

\* A process gets as far as running its threads only if the interface has its
\* address, the netmask and the MTU, and, on Windows, the route: there the wait
\* loops see settings that take effect at any time after netsh has ended.
\* On macOS the interface's peer is another host of the same network.
ConfiguredWhenUp ==
  call = "up" =>
    /\ {"addr", "mask", "mtu"} \subseteq inForce
    /\ platform = "windows" => "route" \in inForce
    /\ platform = "linux" => "up" \in inForce
    /\ platform = "darwin" =>
         LET peer == PeerAddress(address[1], address[2])
             size == Pow2[TunWidth] - address[2]
         IN  peer # address[1] /\ peer \div size = address[1] \div size

\* Setting up the device is given up only if the system refused a request, or
\* the last look found a setting missing or got no answer: never because a
\* setting came early, or because the code misreads what is in force.
GivesUpForCause == call = "close" => cause
-----------------------------------------------------------------------------
\* The calls that have a device, and those of Windows alone
WindowsCalls == {"waitIp", "route", "addRoute", "waitRoute", "waitMtu"}
Configuring == {"ip", "mtu", "up", "close"} \cup WindowsCalls

\* What tun_open records of a device, and what the process owns with one
Device == IF platform = "windows" THEN {"adapter", "session"} ELSE Fd
WithDevice == IF platform = "windows" THEN Device \cup {"library"} ELSE Device

\* The settings the calls made so far have seen in force are in force.
SeenInForce ==
  /\ call \in {"route", "addRoute", "waitRoute", "mtu", "waitMtu", "up"} =>
       "addr" \in inForce /\ "mask" \in inForce
  /\ platform = "linux" /\ call \in {"mtu", "up"} => "up" \in inForce
  /\ platform = "windows" /\ call \in {"mtu", "waitMtu", "up"} => "route" \in inForce
  /\ call = "up" => "mtu" \in inForce

\* The values the variables take, until the process has its arguments
DevTypeOK ==
  /\ platform \in {"linux", "darwin", "windows"}
  /\ call \in {"start", "open", "closed"} \cup Configuring
  /\ call # "start" => address \in TunAddrs \X TunMasks

\* The inductive invariant: before tun_open there is no handle, after it the
\* process owns what the platform's device consists of, and each call has seen
\* the settings of those before it.
DevIInv ==
  /\ DevTypeOK
  /\ call \in WindowsCalls => platform = "windows"
  /\ ~wild
  /\ call \in {"start", "open"} => held = {} /\ dev = {}
  /\ call \in Configuring => held = WithDevice /\ dev = Device
  /\ call = "closed" => held \subseteq {"library"}
  /\ SeenInForce
  /\ call = "close" => cause
=============================================================================
