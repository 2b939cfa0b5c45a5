---------------------------- MODULE ReplayChannel ----------------------------
(***************************************************************************)
(* One receiving direction of TunD: datagrams numbered by the sender reach *)
(* the receiver over UDP in any order, any number of times or not at all,  *)
(* and the replay window decides which ones are handed to a handler.       *)
(* The server keeps one such window per peer and resets it when a peer     *)
(* registers; a client keeps one for the server.                           *)
(***************************************************************************)
EXTENDS ReplayWindow

VARIABLES
  window,               \* proto_replay_window_t
  handled               \* how often each number was accepted since the reset

vars == <<window, handled>>

Init ==
  /\ window = ReplayReset
  /\ handled = [s \in SeqNums |-> 0]

\* A datagram numbered seq is delivered and accepted.  One that is not
\* accepted is dropped and changes nothing.
Accept(seq) ==
  /\ ReplayAccepts(window, seq)
  /\ window' = ReplayUpdate(window, seq)
  /\ handled' = [handled EXCEPT ![seq] = @ + 1]

\* A new registration starts over with an empty window.
Reset ==
  /\ window' = ReplayReset
  /\ handled' = [s \in SeqNums |-> 0]

Next ==
  \/ \E seq \in SeqNums : Accept(seq)
  \/ Reset

Spec == Init /\ [][Next]_vars
-----------------------------------------------------------------------------
TypeOK ==
  /\ window \in WindowType
  /\ handled \in [SeqNums -> Nat]

\* However datagrams are duplicated and reordered, no sequence number is
\* handed to a handler twice between two resets (protocol.c, the bit test and
\* the `age >= 64' cut-off of proto_replay_accept).
AtMostOnce == \A s \in SeqNums : handled[s] <= 1

\* The window never mistakes a late datagram for a replayed one as long as it
\* is fewer than Window numbers behind the newest: a number not handled yet is
\* still acceptable (no bit is set for a number that was not accepted).
LateIsAccepted ==
  \A s \in SeqNums \ {0} :
    /\ handled[s] = 0
    /\ s > window.highest - Window
    => ReplayAccepts(window, s)

\* The inductive invariant.
IInv == TypeOK /\ AtMostOnce /\ Exact(window, handled)
=============================================================================
