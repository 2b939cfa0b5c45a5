-------------------------------- MODULE Rtt ---------------------------------
(***************************************************************************)
(* The round-trip time that the server keeps for each peer and the client  *)
(* for the server.  A KEEPALIVE carries the time at which it was sent and  *)
(* the KEEPALIVE_ACK returns it; smooth_rtt_ms averages the differences in *)
(* integers.                                                               *)
(***************************************************************************)
EXTENDS Integers

CONSTANTS Times, NoRtt

Weight == 7             \* TUND_RTT_SMOOTHING_WEIGHT

ASSUME RttAssumption == Times \subseteq Nat /\ NoRtt \notin Nat

VARIABLES
  rtt,                  \* rtt_ms, or NoRtt as long as has_rtt is false
  least, most           \* history: the smallest and the largest sample

rttVars == <<rtt, least, most>>
-----------------------------------------------------------------------------
\* Wrong: rounding up, not to the nearest.
FaultySmooth(current, sample) ==
  IF current = NoRtt THEN sample ELSE (current * Weight + sample + Weight + 1) \div (Weight + 1)

\* smooth_rtt_ms
Smooth(current, sample) ==
  IF current = NoRtt
  THEN sample
  ELSE (current * Weight + sample + Weight \div 2) \div (Weight + 1)

\* server_handle_keepalive_ack, client_handle_keepalive_ack: an echo from the
\* future is ignored.
HandleAck(now, sentAt) ==
  /\ now >= sentAt
  /\ rtt' = Smooth(rtt, now - sentAt)
  /\ least' = IF least = NoRtt \/ now - sentAt < least THEN now - sentAt ELSE least
  /\ most' = IF most = NoRtt \/ now - sentAt > most THEN now - sentAt ELSE most

RttInit == rtt = NoRtt /\ least = NoRtt /\ most = NoRtt
RttNext == \E now, sentAt \in Times : HandleAck(now, sentAt)
RttSpec == RttInit /\ [][RttNext]_rttVars
-----------------------------------------------------------------------------
\* The average of smooth_rtt_ms (tund.h:181) never leaves the range of what was
\* measured, although each sample is rounded.
RttWithin ==
  \/ rtt = NoRtt /\ least = NoRtt /\ most = NoRtt
  \/ /\ rtt \in Nat /\ least \in Nat /\ most \in Nat
     /\ least <= rtt /\ rtt <= most

Distance(a, b) == IF a >= b THEN a - b ELSE b - a

\* A sample never moves the average away from itself, and moves it nearer if it
\* is more than four milliseconds away: the rounding (tund.h:183) can stop the
\* average short of a steady sample, but not by more than that.
RttApproaches ==
  [][\A at, sentAt \in Times :
       HandleAck(at, sentAt) /\ rtt # NoRtt =>
         LET before == Distance(rtt, at - sentAt)
             after == Distance(rtt', at - sentAt)
         IN after <= before /\ (before > 4 => after < before)]_rttVars
=============================================================================
