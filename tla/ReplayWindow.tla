---------------------------- MODULE ReplayWindow ----------------------------
(***************************************************************************)
(* The sliding replay window of src/protocol/protocol.c.  The 64-bit word  *)
(* `seen' is represented by the set of its one-bits: bit b says that the   *)
(* sequence number highest - b has been accepted.  Module ReplayWord has   *)
(* the word itself and shows that the two representations agree.           *)
(***************************************************************************)
EXTENDS Integers

CONSTANTS
  Window,               \* number of bits of `seen': 64 in the code
  SeqNums               \* sequence numbers datagrams carry

ASSUME WindowAssumption == Window \in Nat \ {0}

ASSUME SeqNumsAssumption == SeqNums \subseteq Nat

Bits == 0 .. Window - 1

\* proto_replay_window_t
WindowType == [highest : Nat, seen : SUBSET Bits]

\* proto_replay_reset
ReplayReset == [highest |-> 0, seen |-> {}]

\* The word shifted left by n >= 1 with bit 0 set: bits at or beyond the
\* width are lost, and all of them are when n >= Window.
ShiftIn(seen, n) == {b \in Bits : b - n \in seen} \cup {0}

\* proto_replay_accept, the result
ReplayAccepts(w, seq) ==
  /\ seq # 0
  /\ \/ w.highest = 0
     \/ seq > w.highest
     \/ /\ w.highest - seq < Window
        /\ w.highest - seq \notin w.seen

\* proto_replay_accept, the window it leaves behind when it accepts
ReplayUpdate(w, seq) ==
  IF w.highest = 0
  THEN [highest |-> seq, seen |-> {0}]
  ELSE IF seq > w.highest
  THEN [highest |-> seq, seen |-> ShiftIn(w.seen, seq - w.highest)]
  ELSE [highest |-> w.highest, seen |-> w.seen \cup {w.highest - seq}]

\* The window w is exact for numbers handled as h says: bit b is set exactly
\* when highest - b was handled, and nothing beyond highest was.
Exact(w, h) ==
  /\ w.highest = 0 => w.seen = {}
  /\ \A s \in SeqNums :
       /\ h[s] > 0 => s # 0 /\ s <= w.highest
       /\ s # 0 /\ s <= w.highest /\ w.highest - s < Window =>
            (w.highest - s \in w.seen <=> h[s] > 0)
=============================================================================
