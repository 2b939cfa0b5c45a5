----------------------------- MODULE ReplayWord -----------------------------
(***************************************************************************)
(* proto_replay_window_t as the code has it: `seen' is an unsigned word of *)
(* Window bits, shifted and tested with integer operations.  The module    *)
(* shows that it implements ReplayChannel, where the word is a set.        *)
(***************************************************************************)
EXTENDS ReplayWindow, Powers

VARIABLES
  highest,              \* proto_replay_window_t.highest
  seen,                 \* proto_replay_window_t.seen
  counted               \* history: how often each number was accepted

wordVars == <<highest, seen, counted>>

\* Faulty variant: no guard on the distance, so that the hardware shifts by the
\* distance modulo the width of the word.
FaultyShift(word, n) == (word * Pow2[n % Window]) % Pow2[Window]

\* `seen << n', or 0 when n reaches the width (a shift by the width or more is
\* undefined in C and guarded against)
Shift(word, n) == IF n >= Window THEN 0 ELSE (word * Pow2[n]) % Pow2[Window]

\* `seen & (1 << b)'
BitSet(word, b) == (word \div Pow2[b]) % 2 = 1

\* Faulty variant: bit 0 only.
FaultySetBit(word, b) == IF BitSet(word, 0) THEN word ELSE word + 1

\* `seen | (1 << b)'
SetBit(word, b) == IF BitSet(word, b) THEN word ELSE word + Pow2[b]

WordInit ==
  /\ highest = 0
  /\ seen = 0
  /\ counted = [s \in SeqNums |-> 0]

\* proto_replay_accept, one action per return of TRUE
Count(seq) == counted' = [counted EXCEPT ![seq] = @ + 1]

AcceptFirst(seq) ==
  /\ seq # 0
  /\ highest = 0
  /\ highest' = seq
  /\ seen' = 1
  /\ Count(seq)

AcceptNewer(seq) ==
  /\ highest # 0
  /\ seq > highest
  /\ highest' = seq
  /\ seen' = SetBit(Shift(seen, seq - highest), 0)
  /\ Count(seq)

AcceptLate(seq) ==
  /\ seq # 0
  /\ highest # 0
  /\ seq <= highest
  /\ LET age == highest - seq
     IN  /\ age < Window
         /\ ~BitSet(seen, age)
         /\ seen' = SetBit(seen, age)
  /\ UNCHANGED highest
  /\ Count(seq)

\* proto_replay_reset
WordReset ==
  /\ highest' = 0
  /\ seen' = 0
  /\ counted' = [s \in SeqNums |-> 0]

WordNext ==
  \/ \E seq \in SeqNums :
       AcceptFirst(seq) \/ AcceptNewer(seq) \/ AcceptLate(seq)
  \/ WordReset

WordSpec == WordInit /\ [][WordNext]_wordVars
-----------------------------------------------------------------------------
\* The set of one-bits of the word, and the window it stands for
Ones(word) == {b \in Bits : BitSet(word, b)}
Abstract == [highest |-> highest, seen |-> Ones(seen)]

Channel == INSTANCE ReplayChannel WITH window <- Abstract, handled <- counted

\* The arithmetic of proto_replay_accept accepts only what the set of numbers
\* seen allows, and marks exactly what it accepts.
ImplementsChannel == Channel!Spec

WordTypeOK ==
  /\ highest \in SeqNums \cup {0}
  /\ seen \in 0 .. Pow2[Window] - 1
  /\ counted \in [SeqNums -> Nat]

\* However datagrams are duplicated and reordered, none is handled twice.
WordAtMostOnce == Channel!AtMostOnce

\* A late datagram is never mistaken for a replayed one as long as it is fewer
\* than Window numbers behind the newest: one of the tests of
\* proto_replay_accept lets it pass.
WordLateIsAccepted ==
  \A s \in SeqNums \ {0} :
    /\ counted[s] = 0
    /\ s > highest - Window
    => \/ highest = 0
       \/ s > highest
       \/ highest - s < Window /\ ~BitSet(seen, highest - s)

\* Bit b of the word is set exactly when number highest - b was handled.
WordIInv == WordTypeOK /\ WordAtMostOnce /\ Exact(Abstract, counted)
=============================================================================
